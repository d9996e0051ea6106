-------------------------- MODULE EntBuilderProofs --------------------------
(***************************************************************************)
(* Theorems about EntBuilder for every entity, any texts, ids and bounds,  *)
(* any fields in focus and any number of calls: its typing, that rows keep *)
(* the schema, that old values precede what a save reported, and that a    *)
(* save does what the last call on each column said.                       *)
(***************************************************************************)
EXTENDS EntBuilder, FiniteSetTheorems, SequenceTheorems, TLAPS

-----------------------------------------------------------------------------
(* What the three descriptions of generated code have in common.           *)

Descriptions ==
  {Text, Number, Time, Key, Optional(Text), Optional(Number), Optional(Time)}

DescriptionOK(d) ==
  /\ d.kind \in {"text", "number", "time", "key"}
  /\ d.kind = "text" => d.values = Texts
  /\ d.kind = "number" => d.values = Numbers
  /\ d.kind = "time" => d.values = 0 .. MaxClock
  /\ d.kind = "key" => d.values = Ids
  /\ d.kind = "number" <=> "add" \in d.methods

LEMMA DescriptionsOK == \A d \in Descriptions : DescriptionOK(d)
BY DEF Descriptions, DescriptionOK, Text, Number, Time, Key, Optional

(* Validators name fields of the entity and values of its columns.         *)
ValidatorOK(fields, validator) ==
  \A f \in DOMAIN validator :
    /\ f \in DOMAIN fields
    /\ \/ fields[f].kind = "text" /\ validator[f] = Short
       \/ fields[f].kind = "number" /\ validator[f] \in {{0, 1, 2}, {1, 2}}

(* A column has the predicates of its kind.                                *)
PredsOK(fields, preds) ==
  \A f \in DOMAIN fields :
    preds[f] \subseteq Equalities \cup Orders \cup NilTests
                       \cup (IF fields[f].kind = "text" THEN Searches ELSE {})

(* Only numbers can be added to.                                           *)
AddsOK(fields, adds) ==
  \A f \in adds \cap DOMAIN fields : fields[f].kind = "number"

(* Defaults are values of their columns.                                   *)
DefaultsOK(fields, d) ==
  \A f \in DOMAIN d : f \in DOMAIN fields /\ d[f] \in fields[f].values

(* Whatever an update writes and a validator is about, it checks.          *)
ChecksOK(validator, written, checks) ==
  DOMAIN validator \cap written \subseteq checks

(* A default is the time or always the same, an update refreshes           *)
(* update_time.                                                            *)
ClocksOK(c) ==
  /\ \A s, t \in 0 .. MaxClock : \A f \in DOMAIN c.defaults[s] :
       /\ f \in DOMAIN c.defaults[t]
       /\ c.defaults[s][f] = IF c.fields[f].kind = "time" THEN s ELSE c.defaults[t][f]
  /\ \A t \in 0 .. MaxClock : c.refresh[t] = [update_time |-> t]
  /\ "update_time" \in DOMAIN c.fields /\ c.fields["update_time"] = Time

(* The statements: an INSERT names every column, an UPDATE can assign all  *)
(* but the immutable ones, and an edge has a foreign key for its column.   *)
StatementsOK(c) ==
  /\ c.columns = DOMAIN c.fields /\ c.create.add = {}
  /\ \A f \in c.edges : f \in DOMAIN c.fields /\ c.fields[f] = Key
  /\ \A kind \in {"update", "updateOne"} :
       LET spec == c.spec[kind]
       IN /\ DOMAIN c.fields \subseteq spec.set \cup c.edges \cup c.immutable
          /\ \A f \in c.immutable :
               f \notin spec.set /\ f \notin c.edges /\ f \notin spec.clear /\ f \notin spec.add
          /\ spec.clear = {f \in DOMAIN c.fields : "clear" \in c.fields[f].methods}
          /\ c[kind].add \subseteq spec.add

CodeOK(c) ==
  /\ ClocksOK(c) /\ StatementsOK(c)
  /\ \A f \in DOMAIN c.fields : c.fields[f] \in Descriptions
  /\ ValidatorOK(c.fields, c.validator) /\ PredsOK(c.fields, c.preds)
  /\ \A kind \in {"create", "update", "updateOne"} : AddsOK(c.fields, c[kind].add)
  /\ \A now \in 0 .. MaxClock :
       DefaultsOK(c.fields, c.defaults[now]) /\ DefaultsOK(c.fields, c.refresh[now])
  /\ \A kind \in {"update", "updateOne"} :
       ChecksOK(c.validator, c.spec[kind].set \cup c.edges, c.checks[kind])

LEMMA ClearMethods ==
  /\ "clear" \notin Text.methods /\ "clear" \notin Number.methods
  /\ "clear" \notin Time.methods /\ "clear" \notin Key.methods
  /\ "clear" \in Optional(Text).methods /\ "clear" \in Optional(Number).methods
  /\ "clear" \in Optional(Time).methods
BY DEF Text, Number, Time, Key, Optional

(* The values that the defaults name are values of their columns.          *)
LEMMA DefaultValues ==
  /\ 0 \in Numbers /\ 1 \in Numbers /\ Number.values = Numbers
  /\ Time.values = 0 .. MaxClock
  /\ \A d \in Descriptions : d.kind \in {"text", "number", "time", "key"}
BY FieldAssumption, DescriptionsOK DEF Numbers, Number, Time, DescriptionOK

-----------------------------------------------------------------------------
LEMMA TeamNames ==
  /\ Team!Text = Text /\ Team!Number = Number /\ Team!Time = Time /\ Team!Key = Key
  /\ Team!Optional(Team!Text) = Optional(Text)
  /\ Team!Optional(Team!Time) = Optional(Time)
  /\ Team!Short = Short
BY DEF Team!Text, Team!Number, Team!Time, Team!Key, Team!Optional, Team!Numbers, Team!Short,
       Text, Number, Time, Key, Optional, Numbers, Short

LEMMA TeamFields ==
  Team!Code.fields =
    [name |-> Text, description |-> Optional(Text), max_num |-> Number,
     expire_time |-> Optional(Time), user_id |-> Key, status |-> Number,
     password |-> Optional(Text), create_time |-> Time, update_time |-> Time,
     is_delete |-> Number]
<1>1. Team!Code.fields = Team!Fields
  BY DEF Team!Code
<1> QED
  BY <1>1, TeamNames
     DEF Team!Fields, Team!Name, Team!Description, Team!MaxNum, Team!ExpireTime, Team!UserID,
         Team!Status, Team!Password, Team!CreateTime, Team!UpdateTime, Team!IsDelete

LEMMA KindOf ==
  /\ Text.kind = "text" /\ Number.kind = "number" /\ Time.kind = "time" /\ Key.kind = "key"
  /\ Optional(Text).kind = "text" /\ Optional(Number).kind = "number"
  /\ Optional(Time).kind = "time"
BY DEF Text, Number, Time, Key, Optional

LEMMA TeamCode == CodeOK(Team!Code)
<1> DEFINE c == Team!Code
           fields == c.fields
<1>1. \A f \in DOMAIN fields : fields[f] \in Descriptions
  BY TeamFields DEF Descriptions
<1>2. ValidatorOK(fields, c.validator)
  <2>1. c.validator = [name |-> Short, description |-> Short, status |-> {0, 1, 2},
                       password |-> Short]
    BY TeamNames DEF Team!Code, Team!Validator
  <2> QED
    BY <2>1, TeamFields, KindOf DEF ValidatorOK
<1>3. PredsOK(fields, c.preds)
  <2>1. c.preds = Team!Preds
    BY DEF Team!Code
  <2> QED
    BY <2>1, TeamFields, KindOf
       DEF PredsOK, Team!Preds, Team!NamePreds, Team!DescriptionPreds, Team!MaxNumPreds,
           Team!ExpireTimePreds, Team!UserIDPreds, Team!StatusPreds, Team!PasswordPreds,
           Team!CreateTimePreds, Team!UpdateTimePreds, Team!IsDeletePreds, Team!Equalities,
           Team!Orders, Team!Searches, Team!NilTests, Equalities, Orders, Searches, NilTests
<1>4. \A kind \in {"create", "update", "updateOne"} : AddsOK(fields, c[kind].add)
  <2>1. \A kind \in {"create", "update", "updateOne"} :
          c[kind].add \subseteq {"max_num", "status", "is_delete"}
    BY DEF Team!Code, Team!UpdateCalls, Team!UpdateOneCalls
  <2> QED
    BY <2>1, TeamFields, KindOf DEF AddsOK
<1>5. \A now \in 0 .. MaxClock :
        DefaultsOK(fields, c.defaults[now]) /\ DefaultsOK(fields, c.refresh[now])
  <2> TAKE now \in 0 .. MaxClock
  <2>1. /\ c.defaults[now] = [max_num |-> 1, status |-> 0, create_time |-> now,
                              update_time |-> now, is_delete |-> 0]
        /\ c.refresh[now] = [update_time |-> now]
    BY DEF Team!Code, Team!CreateDefaults, Team!UpdateDefaults
  <2>2. /\ {"max_num", "status", "create_time", "update_time", "is_delete"}
            \subseteq DOMAIN fields
        /\ fields["max_num"] = Number /\ fields["status"] = Number /\ fields["is_delete"] = Number
        /\ fields["create_time"] = Time /\ fields["update_time"] = Time
    BY TeamFields
  <2>3. /\ 0 \in Number.values /\ 1 \in Number.values /\ now \in Time.values
    BY DefaultValues
  <2> HIDE DEF c, fields
  <2>4. DefaultsOK(fields, c.defaults[now])
    BY <2>1, <2>2, <2>3 DEF DefaultsOK
  <2>5. DefaultsOK(fields, c.refresh[now])
    BY <2>1, <2>2, <2>3 DEF DefaultsOK
  <2> QED
    BY <2>4, <2>5
<1>6. \A kind \in {"update", "updateOne"} :
        ChecksOK(c.validator, c.spec[kind].set \cup c.edges, c.checks[kind])
  <2>1. /\ DOMAIN c.validator = {"name", "description", "status", "password"}
        /\ \A kind \in {"update", "updateOne"} :
             c.checks[kind] = {"name", "description", "status", "password"}
    BY DEF Team!Code, Team!Validator, Team!UpdateChecks, Team!UpdateOneChecks
  <2> QED
    BY <2>1 DEF ChecksOK
<1>7. ClocksOK(c)
  <2>1. ASSUME NEW now \in 0 .. MaxClock
        PROVE  /\ DOMAIN c.defaults[now] =
                    {"max_num", "status", "create_time", "update_time", "is_delete"}
               /\ c.defaults[now]["max_num"] = 1
               /\ c.defaults[now]["status"] = 0
               /\ c.defaults[now]["create_time"] = now
               /\ c.defaults[now]["update_time"] = now
               /\ c.defaults[now]["is_delete"] = 0
    <3>1. c.defaults[now] =
              [max_num |-> 1, status |-> 0, create_time |-> now, update_time |-> now,
               is_delete |-> 0]
      BY DEF Team!Code, Team!CreateDefaults
    <3> HIDE DEF c
    <3> QED
      BY <3>1
  <2>2. \A t \in 0 .. MaxClock : c.refresh[t] = [update_time |-> t]
    BY DEF Team!Code, Team!UpdateDefaults
  <2>3. /\ "update_time" \in DOMAIN fields /\ fields["update_time"] = Time
        /\ fields["update_time"].kind = "time" /\ fields["create_time"].kind = "time"
        /\ fields["max_num"].kind = "number"
        /\ fields["status"].kind = "number"
        /\ fields["is_delete"].kind = "number"
    BY TeamFields, KindOf
  <2> HIDE DEF c, fields
  <2>4. ASSUME NEW s \in 0 .. MaxClock, NEW t \in 0 .. MaxClock, NEW f \in DOMAIN c.defaults[s]
        PROVE  /\ f \in DOMAIN c.defaults[t]
               /\ c.defaults[s][f] = IF fields[f].kind = "time" THEN s ELSE c.defaults[t][f]
    BY <2>1, <2>3
  <2> QED
    BY <2>2, <2>3, <2>4 DEF ClocksOK, fields
<1>8. StatementsOK(c)
  <2>1. c.columns = DOMAIN fields /\ c.create.add = {}
    BY TeamFields DEF Team!Code, Team!CreateColumns, Team!CreateSets
  <2>2. \A f \in c.edges : f \in DOMAIN fields /\ fields[f] = Key
    BY TeamFields DEF Team!Code, Team!LeaderSpec
  <2>3. ASSUME NEW kind \in {"update", "updateOne"}
        PROVE  LET spec == c.spec[kind]
               IN /\ DOMAIN fields \subseteq spec.set \cup c.edges \cup c.immutable
                  /\ \A f \in c.immutable : /\ f \notin spec.set /\ f \notin c.edges
                                            /\ f \notin spec.clear /\ f \notin spec.add
                  /\ spec.clear = {f \in DOMAIN fields : "clear" \in fields[f].methods}
                  /\ c[kind].add \subseteq spec.add
    <3>1. /\ c.spec[kind] = Team!UpdateSpec /\ c[kind] = Team!UpdateCalls
          /\ c.immutable = {"create_time"} /\ c.edges = Team!LeaderSpec
      BY DEF Team!Code, Team!UpdateOneSpec, Team!UpdateOneCalls
    <3>2. Team!UpdateSpec.clear = {f \in DOMAIN fields : "clear" \in fields[f].methods}
      BY TeamFields, ClearMethods DEF Team!UpdateSpec
    <3>3. /\ DOMAIN fields \subseteq Team!UpdateSpec.set \cup Team!LeaderSpec \cup {"create_time"}
          /\ "create_time" \notin Team!UpdateSpec.set /\ "create_time" \notin Team!LeaderSpec
          /\ "create_time" \notin Team!UpdateSpec.clear
          /\ "create_time" \notin Team!UpdateSpec.add
          /\ Team!UpdateCalls.add \subseteq Team!UpdateSpec.add
      BY TeamFields DEF Team!UpdateSpec, Team!UpdateCalls, Team!LeaderSpec
    <3> HIDE DEF c, fields
    <3> QED
      BY <3>1, <3>2, <3>3
  <2> HIDE DEF c
  <2> QED
    BY <2>1, <2>2, <2>3 DEF StatementsOK
<1> QED
  BY <1>1, <1>2, <1>3, <1>4, <1>5, <1>6, <1>7, <1>8 DEF CodeOK

LEMMA UserNames ==
  /\ User!Text = Text /\ User!Number = Number /\ User!Time = Time /\ User!Key = Key
  /\ User!Optional(User!Number) = Optional(Number)
  /\ User!Optional(User!Text) = Optional(Text)
  /\ User!Short = Short
BY DEF User!Text, User!Number, User!Time, User!Key, User!Optional, User!Numbers,
       User!Short, Text, Number, Time, Key, Optional, Numbers, Short

LEMMA UserFields ==
  User!Code.fields =
    [username |-> Optional(Text), user_account |-> Text, avatar_url |-> Optional(Text),
     gender |-> Optional(Number), user_password |-> Text, phone |-> Optional(Text),
     email |-> Optional(Text), user_status |-> Number, create_time |-> Time,
     update_time |-> Time, is_delete |-> Number, user_role |-> Number,
     planet_code |-> Text, tags |-> Optional(Text)]
<1>1. User!Code.fields = User!Fields
  BY DEF User!Code
<1> QED
  BY <1>1, UserNames
     DEF User!Fields, User!Username, User!UserAccount,
         User!AvatarURL, User!Gender, User!UserPassword, User!Phone, User!Email,
         User!UserStatus, User!CreateTime, User!UpdateTime, User!IsDelete,
         User!UserRole, User!PlanetCode, User!Tags

LEMMA UserCode == CodeOK(User!Code)
<1> DEFINE c == User!Code
           fields == c.fields
<1>1. \A f \in DOMAIN fields : fields[f] \in Descriptions
  BY UserFields DEF Descriptions
<1>2. ValidatorOK(fields, c.validator)
  <2>1. c.validator =
          [username |-> Short, user_account |-> Short, avatar_url |-> Short,
           gender |-> {1, 2}, user_password |-> Short, phone |-> Short, email |-> Short,
           planet_code |-> Short, tags |-> Short]
    BY UserNames DEF User!Code, User!Validator
  <2> QED
    BY <2>1, UserFields, KindOf DEF ValidatorOK
<1>3. PredsOK(fields, c.preds)
  <2>1. c.preds = User!Preds
    BY DEF User!Code
  <2> QED
    BY <2>1, UserFields, KindOf
       DEF PredsOK, User!Preds, User!UsernamePreds, User!UserAccountPreds,
           User!AvatarURLPreds, User!GenderPreds, User!UserPasswordPreds,
           User!PhonePreds, User!EmailPreds, User!UserStatusPreds, User!CreateTimePreds,
           User!UpdateTimePreds, User!IsDeletePreds, User!UserRolePreds,
           User!PlanetCodePreds, User!TagsPreds,
           User!Equalities, User!Orders, User!Searches, User!NilTests,
           Equalities, Orders, Searches, NilTests
<1>4. \A kind \in {"create", "update", "updateOne"} : AddsOK(fields, c[kind].add)
  <2>1. \A kind \in {"create", "update", "updateOne"} :
          c[kind].add \subseteq {"gender", "user_status", "is_delete", "user_role"}
    BY DEF User!Code, User!UpdateCalls, User!UpdateOneCalls
  <2> QED
    BY <2>1, UserFields, KindOf DEF AddsOK
<1>5. \A now \in 0 .. MaxClock :
        DefaultsOK(fields, c.defaults[now]) /\ DefaultsOK(fields, c.refresh[now])
  <2> TAKE now \in 0 .. MaxClock
  <2>1. /\ c.defaults[now] =
             [user_status |-> 0, create_time |-> now, update_time |-> now,
              is_delete |-> 0, user_role |-> 0]
        /\ c.refresh[now] = [update_time |-> now]
    BY DEF User!Code, User!CreateDefaults, User!UpdateDefaults
  <2>2. /\ {"user_status", "create_time", "update_time", "is_delete", "user_role"}
            \subseteq DOMAIN fields
        /\ fields["user_status"] = Number
        /\ fields["create_time"] = Time
        /\ fields["update_time"] = Time
        /\ fields["is_delete"] = Number
        /\ fields["user_role"] = Number
    BY UserFields
  <2>3. /\ 0 \in Number.values /\ 1 \in Number.values /\ now \in Time.values
    BY DefaultValues
  <2> HIDE DEF c, fields
  <2>4. DefaultsOK(fields, c.defaults[now])
    BY <2>1, <2>2, <2>3 DEF DefaultsOK
  <2>5. DefaultsOK(fields, c.refresh[now])
    BY <2>1, <2>2, <2>3 DEF DefaultsOK
  <2> QED
    BY <2>4, <2>5
<1>6. \A kind \in {"update", "updateOne"} :
        ChecksOK(c.validator, c.spec[kind].set \cup c.edges, c.checks[kind])
  <2>1. \A kind \in {"update", "updateOne"} : c.checks[kind] = DOMAIN c.validator
    BY DEF User!Code, User!Validator, User!UpdateChecks, User!UpdateOneChecks
  <2> QED
    BY <2>1 DEF ChecksOK
<1>7. ClocksOK(c)
  <2>1. ASSUME NEW now \in 0 .. MaxClock
        PROVE  /\ DOMAIN c.defaults[now] =
                    {"user_status", "create_time", "update_time", "is_delete", "user_role"}
               /\ c.defaults[now]["user_status"] = 0
               /\ c.defaults[now]["create_time"] = now
               /\ c.defaults[now]["update_time"] = now
               /\ c.defaults[now]["is_delete"] = 0
               /\ c.defaults[now]["user_role"] = 0
    <3>1. c.defaults[now] =
              [user_status |-> 0, create_time |-> now, update_time |-> now, is_delete |-> 0,
               user_role |-> 0]
      BY DEF User!Code, User!CreateDefaults
    <3> HIDE DEF c
    <3> QED
      BY <3>1
  <2>2. \A t \in 0 .. MaxClock : c.refresh[t] = [update_time |-> t]
    BY DEF User!Code, User!UpdateDefaults
  <2>3. /\ "update_time" \in DOMAIN fields /\ fields["update_time"] = Time
        /\ fields["update_time"].kind = "time" /\ fields["create_time"].kind = "time"
        /\ fields["user_status"].kind = "number"
        /\ fields["is_delete"].kind = "number"
        /\ fields["user_role"].kind = "number"
    BY UserFields, KindOf
  <2> HIDE DEF c, fields
  <2>4. ASSUME NEW s \in 0 .. MaxClock, NEW t \in 0 .. MaxClock, NEW f \in DOMAIN c.defaults[s]
        PROVE  /\ f \in DOMAIN c.defaults[t]
               /\ c.defaults[s][f] = IF fields[f].kind = "time" THEN s ELSE c.defaults[t][f]
    BY <2>1, <2>3
  <2> QED
    BY <2>2, <2>3, <2>4 DEF ClocksOK, fields
<1>8. StatementsOK(c)
  <2>1. c.columns = DOMAIN fields /\ c.create.add = {}
    BY UserFields DEF User!Code, User!CreateColumns, User!CreateSets
  <2>2. \A f \in c.edges : f \in DOMAIN fields /\ fields[f] = Key
    BY UserFields DEF User!Code
  <2>3. ASSUME NEW kind \in {"update", "updateOne"}
        PROVE  LET spec == c.spec[kind]
               IN /\ DOMAIN fields \subseteq spec.set \cup c.edges \cup c.immutable
                  /\ \A f \in c.immutable : /\ f \notin spec.set /\ f \notin c.edges
                                            /\ f \notin spec.clear /\ f \notin spec.add
                  /\ spec.clear = {f \in DOMAIN fields : "clear" \in fields[f].methods}
                  /\ c[kind].add \subseteq spec.add
    <3>1. /\ c.spec[kind] = User!UpdateSpec /\ c[kind] = User!UpdateCalls
          /\ c.immutable = {"create_time"} /\ c.edges = {}
      BY DEF User!Code, User!UpdateOneSpec, User!UpdateOneCalls
    <3>2. User!UpdateSpec.clear = {f \in DOMAIN fields : "clear" \in fields[f].methods}
      BY UserFields, ClearMethods DEF User!UpdateSpec
    <3>3. /\ DOMAIN fields \subseteq User!UpdateSpec.set \cup {} \cup {"create_time"}
          /\ "create_time" \notin User!UpdateSpec.set /\ "create_time" \notin {}
          /\ "create_time" \notin User!UpdateSpec.clear
          /\ "create_time" \notin User!UpdateSpec.add
          /\ User!UpdateCalls.add \subseteq User!UpdateSpec.add
      BY UserFields DEF User!UpdateSpec, User!UpdateCalls
    <3> HIDE DEF c, fields
    <3> QED
      BY <3>1, <3>2, <3>3
  <2> HIDE DEF c
  <2> QED
    BY <2>1, <2>2, <2>3 DEF StatementsOK
<1> QED
  BY <1>1, <1>2, <1>3, <1>4, <1>5, <1>6, <1>7, <1>8 DEF CodeOK

LEMMA UserTeamNames ==
  /\ UserTeam!Text = Text /\ UserTeam!Number = Number
  /\ UserTeam!Time = Time /\ UserTeam!Key = Key
  /\ UserTeam!Optional(UserTeam!Time) = Optional(Time)
  /\ UserTeam!Short = Short
BY DEF UserTeam!Text, UserTeam!Number, UserTeam!Time, UserTeam!Key, UserTeam!Optional,
       UserTeam!Numbers,
       UserTeam!Short, Text, Number, Time, Key, Optional, Numbers, Short

LEMMA UserTeamFields ==
  UserTeam!Code.fields =
    [user_id |-> Key, team_id |-> Key, join_time |-> Optional(Time),
     create_time |-> Time, update_time |-> Time, is_delete |-> Number]
<1>1. UserTeam!Code.fields = UserTeam!Fields
  BY DEF UserTeam!Code
<1> QED
  BY <1>1, UserTeamNames
     DEF UserTeam!Fields, UserTeam!UserID, UserTeam!TeamID,
         UserTeam!JoinTime, UserTeam!CreateTime, UserTeam!UpdateTime, UserTeam!IsDelete

LEMMA UserTeamCode == CodeOK(UserTeam!Code)
<1> DEFINE c == UserTeam!Code
           fields == c.fields
<1>1. \A f \in DOMAIN fields : fields[f] \in Descriptions
  BY UserTeamFields DEF Descriptions
<1>2. ValidatorOK(fields, c.validator)
  <2>1. c.validator =
          [f \in {} |-> {}]
    BY UserTeamNames DEF UserTeam!Code
  <2> QED
    BY <2>1, UserTeamFields, KindOf DEF ValidatorOK
<1>3. PredsOK(fields, c.preds)
  <2>1. c.preds = UserTeam!Preds
    BY DEF UserTeam!Code
  <2> QED
    BY <2>1, UserTeamFields, KindOf
       DEF PredsOK, UserTeam!Preds, UserTeam!UserIDPreds, UserTeam!TeamIDPreds,
           UserTeam!JoinTimePreds, UserTeam!CreateTimePreds, UserTeam!UpdateTimePreds,
           UserTeam!IsDeletePreds,
           UserTeam!Equalities, UserTeam!Orders, UserTeam!Searches, UserTeam!NilTests,
           Equalities, Orders, Searches, NilTests
<1>4. \A kind \in {"create", "update", "updateOne"} : AddsOK(fields, c[kind].add)
  <2>1. \A kind \in {"create", "update", "updateOne"} :
          c[kind].add \subseteq {"is_delete"}
    BY DEF UserTeam!Code, UserTeam!UpdateCalls, UserTeam!UpdateOneCalls
  <2> QED
    BY <2>1, UserTeamFields, KindOf DEF AddsOK
<1>5. \A now \in 0 .. MaxClock :
        DefaultsOK(fields, c.defaults[now]) /\ DefaultsOK(fields, c.refresh[now])
  <2> TAKE now \in 0 .. MaxClock
  <2>1. /\ c.defaults[now] =
             [create_time |-> now, update_time |-> now, is_delete |-> 0]
        /\ c.refresh[now] = [update_time |-> now]
    BY DEF UserTeam!Code, UserTeam!CreateDefaults, UserTeam!UpdateDefaults
  <2>2. /\ {"create_time", "update_time", "is_delete"} \subseteq DOMAIN fields
        /\ fields["create_time"] = Time
        /\ fields["update_time"] = Time
        /\ fields["is_delete"] = Number
    BY UserTeamFields
  <2>3. /\ 0 \in Number.values /\ 1 \in Number.values /\ now \in Time.values
    BY DefaultValues
  <2> HIDE DEF c, fields
  <2>4. DefaultsOK(fields, c.defaults[now])
    BY <2>1, <2>2, <2>3 DEF DefaultsOK
  <2>5. DefaultsOK(fields, c.refresh[now])
    BY <2>1, <2>2, <2>3 DEF DefaultsOK
  <2> QED
    BY <2>4, <2>5
<1>6. \A kind \in {"update", "updateOne"} :
        ChecksOK(c.validator, c.spec[kind].set \cup c.edges, c.checks[kind])
  BY DEF ChecksOK, UserTeam!Code
<1>7. ClocksOK(c)
  <2>1. ASSUME NEW now \in 0 .. MaxClock
        PROVE  /\ DOMAIN c.defaults[now] = {"create_time", "update_time", "is_delete"}
               /\ c.defaults[now]["create_time"] = now
               /\ c.defaults[now]["update_time"] = now
               /\ c.defaults[now]["is_delete"] = 0
    <3>1. c.defaults[now] =
              [create_time |-> now, update_time |-> now, is_delete |-> 0]
      BY DEF UserTeam!Code, UserTeam!CreateDefaults
    <3> HIDE DEF c
    <3> QED
      BY <3>1
  <2>2. \A t \in 0 .. MaxClock : c.refresh[t] = [update_time |-> t]
    BY DEF UserTeam!Code, UserTeam!UpdateDefaults
  <2>3. /\ "update_time" \in DOMAIN fields /\ fields["update_time"] = Time
        /\ fields["update_time"].kind = "time" /\ fields["create_time"].kind = "time"
        /\ fields["is_delete"].kind = "number"
    BY UserTeamFields, KindOf
  <2> HIDE DEF c, fields
  <2>4. ASSUME NEW s \in 0 .. MaxClock, NEW t \in 0 .. MaxClock, NEW f \in DOMAIN c.defaults[s]
        PROVE  /\ f \in DOMAIN c.defaults[t]
               /\ c.defaults[s][f] = IF fields[f].kind = "time" THEN s ELSE c.defaults[t][f]
    BY <2>1, <2>3
  <2> QED
    BY <2>2, <2>3, <2>4 DEF ClocksOK, fields
<1>8. StatementsOK(c)
  <2>1. c.columns = DOMAIN fields /\ c.create.add = {}
    BY UserTeamFields DEF UserTeam!Code, UserTeam!CreateColumns, UserTeam!CreateSets
  <2>2. \A f \in c.edges : f \in DOMAIN fields /\ fields[f] = Key
    BY UserTeamFields DEF UserTeam!Code, UserTeam!EdgeSpecs
  <2>3. ASSUME NEW kind \in {"update", "updateOne"}
        PROVE  LET spec == c.spec[kind]
               IN /\ DOMAIN fields \subseteq spec.set \cup c.edges \cup c.immutable
                  /\ \A f \in c.immutable : /\ f \notin spec.set /\ f \notin c.edges
                                            /\ f \notin spec.clear /\ f \notin spec.add
                  /\ spec.clear = {f \in DOMAIN fields : "clear" \in fields[f].methods}
                  /\ c[kind].add \subseteq spec.add
    <3>1. /\ c.spec[kind] = UserTeam!UpdateSpec /\ c[kind] = UserTeam!UpdateCalls
          /\ c.immutable = {"create_time"} /\ c.edges = UserTeam!EdgeSpecs
      BY DEF UserTeam!Code, UserTeam!UpdateOneSpec, UserTeam!UpdateOneCalls
    <3>2. UserTeam!UpdateSpec.clear = {f \in DOMAIN fields : "clear" \in fields[f].methods}
      BY UserTeamFields, ClearMethods DEF UserTeam!UpdateSpec
    <3>3. /\ DOMAIN fields
               \subseteq UserTeam!UpdateSpec.set \cup UserTeam!EdgeSpecs \cup {"create_time"}
          /\ "create_time" \notin UserTeam!UpdateSpec.set
          /\ "create_time" \notin UserTeam!EdgeSpecs
          /\ "create_time" \notin UserTeam!UpdateSpec.clear
          /\ "create_time" \notin UserTeam!UpdateSpec.add
          /\ UserTeam!UpdateCalls.add \subseteq UserTeam!UpdateSpec.add
      BY UserTeamFields DEF UserTeam!UpdateSpec, UserTeam!UpdateCalls, UserTeam!EdgeSpecs
    <3> HIDE DEF c, fields
    <3> QED
      BY <3>1, <3>2, <3>3
  <2> HIDE DEF c
  <2> QED
    BY <2>1, <2>2, <2>3 DEF StatementsOK
<1> QED
  BY <1>1, <1>2, <1>3, <1>4, <1>5, <1>6, <1>7, <1>8 DEF CodeOK

(* So every entity has such a description, and keeps it.                   *)
LEMMA EveryCode ==
  ASSUME entity \in Entities
  PROVE  CodeOK(Code)
<1>1. entity \in {"team", "user", "user_team"}
  BY BuilderAssumption
<1>2. Code \in {Team!Code, User!Code, UserTeam!Code}
  BY <1>1 DEF Code
<1> QED
  BY <1>2, TeamCode, UserCode, UserTeamCode

LEMMA SameCode ==
  ASSUME UNCHANGED entity
  PROVE  Code' = Code
BY DEF Code

LEMMA FieldFacts ==
  ASSUME CodeOK(Code), NEW f \in Fields
  PROVE  /\ Code.fields[f].kind \in {"text", "number", "time", "key"}
         /\ Code.fields[f].kind = "text" => Values(f) = Texts
         /\ Code.fields[f].kind = "number" => Values(f) = Numbers
         /\ Code.fields[f].kind = "time" => Values(f) = 0 .. MaxClock
         /\ Code.fields[f].kind = "key" => Values(f) = Ids
         /\ Has(f, "add") <=> Code.fields[f].kind = "number"
         /\ Valid(f) \subseteq Values(f) /\ Null \notin Values(f)
<1>1. DescriptionOK(Code.fields[f])
  BY DescriptionsOK DEF CodeOK, Fields
<1>2. Null \notin Texts /\ Null \notin Ids /\ Null \notin Numbers /\ Null \notin 0 .. MaxClock
  BY FieldAssumption DEF Numbers
<1>3. Null \notin Values(f)
  BY <1>1, <1>2 DEF DescriptionOK, Values
<1>4. Short \subseteq Texts /\ {0, 1, 2} \subseteq Numbers
  BY FieldAssumption DEF Short, Numbers
<1>5. Valid(f) \subseteq Values(f)
  <2>1. CASE f \in DOMAIN Code.validator
    <3>1. \/ Code.fields[f].kind = "text" /\ Code.validator[f] = Short
          \/ Code.fields[f].kind = "number" /\ Code.validator[f] \in {{0, 1, 2}, {1, 2}}
      BY <2>1 DEF CodeOK, ValidatorOK
    <3> QED
      BY <1>1, <1>4, <2>1, <3>1 DEF Valid, Values, DescriptionOK
  <2>2. CASE f \notin DOMAIN Code.validator
    BY <2>2 DEF Valid
  <2> QED
    BY <2>1, <2>2
<1> QED
  BY <1>1, <1>3, <1>5 DEF DescriptionOK, Values, Has

(* The values of the rows before the behaviour and of a new one's fields.  *)
LEMMA SampleValid ==
  ASSUME CodeOK(Code), NEW f \in Fields, NEW n \in 1 .. 3
  PROVE  Sample(f, n) \in Valid(f)
<1>1. CASE Code.fields[f].kind = "text"
  <2>1. Valid(f) \in {Short, Texts}
    BY <1>1, FieldFacts DEF Valid, CodeOK, ValidatorOK
  <2>2. Names[n] \in Short /\ Short \subseteq Texts
    BY BuilderAssumption DEF Short
  <2>3. Sample(f, n) = Names[n]
    BY <1>1 DEF Sample
  <2> QED
    BY <2>1, <2>2, <2>3
<1>2. CASE Code.fields[f].kind = "number"
  <2>1. Valid(f) \in {{0, 1, 2}, {1, 2}, Numbers}
    BY <1>2, FieldFacts DEF Valid, CodeOK, ValidatorOK
  <2>2. \E v \in Valid(f) : \A w \in Valid(f) : v <= w
    <3>1. CASE Valid(f) \in {{0, 1, 2}, Numbers}
      <4>1. 0 \in Valid(f) /\ \A w \in Valid(f) : 0 <= w
        BY <3>1, FieldAssumption DEF Numbers
      <4> QED
        BY <4>1
    <3>2. CASE Valid(f) = {1, 2}
      <4>1. 1 \in Valid(f) /\ \A w \in Valid(f) : 1 <= w
        BY <3>2
      <4> QED
        BY <4>1
    <3> QED
      BY <2>1, <3>1, <3>2
  <2>3. Sample(f, n) = CHOOSE v \in Valid(f) : \A w \in Valid(f) : v <= w
    BY <1>2 DEF Sample
  <2> QED
    BY <2>2, <2>3
<1>3. CASE Code.fields[f].kind = "time"
  <2>1. f \notin DOMAIN Code.validator
    BY <1>3 DEF CodeOK, ValidatorOK
  <2>2. Valid(f) = 0 .. MaxClock /\ Sample(f, n) = 0
    BY <1>3, <2>1, FieldFacts DEF Valid, Sample
  <2> QED
    BY <2>2, FieldAssumption
<1>4. CASE Code.fields[f].kind = "key"
  <2>1. f \notin DOMAIN Code.validator
    BY <1>4 DEF CodeOK, ValidatorOK
  <2>2. Valid(f) = Ids /\ Sample(f, n) = CHOOSE i \in Ids : TRUE
    BY <1>4, <2>1, FieldFacts DEF Valid, Sample
  <2> QED
    BY <2>2, FieldAssumption
<1> QED
  BY <1>1, <1>2, <1>3, <1>4, FieldFacts

-----------------------------------------------------------------------------
(* What the methods of a mutation change.                                  *)

MutationFields ==
  {"kind", "id", "val", "add", "cleared", "edgeCleared", "preds", "done", "asked", "old"}
Shape(m) == DOMAIN m = MutationFields /\ DOMAIN m.val = Fields /\ DOMAIN m.add = Fields

(* Only what is set, added and cleared differs.                            *)
Alike(m, n) ==
  /\ Shape(n) /\ n.kind = m.kind /\ n.id = m.id /\ n.preds = m.preds
  /\ n.done = m.done /\ n.asked = m.asked /\ n.old = m.old

(* From m to n only field f was touched.                                   *)
Touched(m, n, f, val, add, cleared, edgeCleared) ==
  /\ Alike(m, n)
  /\ n.val[f] = val /\ n.add[f] = add
  /\ \A g \in Fields \ {f} : n.val[g] = m.val[g] /\ n.add[g] = m.add[g]
  /\ n.cleared = cleared /\ n.edgeCleared = edgeCleared

LEMMA SetTouches ==
  ASSUME NEW m, Shape(m), NEW f \in Fields, NEW v
  PROVE  Touched(m, Set(m, f, v), f, {v}, {}, m.cleared, m.edgeCleared)
BY DEF Touched, Alike, Shape, MutationFields, Set

LEMMA AddTouches ==
  ASSUME NEW m, Shape(m), NEW f \in Fields
  PROVE  Touched(m, AddTo(m, f, 1), f, m.val[f],
                 IF m.add[f] = {} THEN {1} ELSE {x + 1 : x \in m.add[f]},
                 m.cleared, m.edgeCleared)
<1> DEFINE sum == IF m.add[f] = {} THEN {1} ELSE {x + 1 : x \in m.add[f]}
<1>1. AddTo(m, f, 1) = [m EXCEPT !.add[f] = sum]
  BY DEF AddTo, Shape, MutationFields
<1> HIDE DEF sum
<1>2. Touched(m, [m EXCEPT !.add[f] = sum], f, m.val[f], sum, m.cleared, m.edgeCleared)
  BY DEF Touched, Alike, Shape, MutationFields
<1> QED
  BY <1>1, <1>2 DEF sum

LEMMA ClearTouches ==
  ASSUME NEW m, Shape(m), NEW f \in Fields
  PROVE  Touched(m, Clear(m, f), f, {}, {}, m.cleared \cup {f}, m.edgeCleared)
BY DEF Touched, Alike, Shape, MutationFields, Clear

Remaining(m, f) == IF f \in Code.edges THEN m.cleared ELSE m.cleared \ {f}

LEMMA ResetTouches ==
  ASSUME NEW m, Shape(m), NEW f \in Fields
  PROVE  Touched(m, Reset(m, f), f, {}, {}, Remaining(m, f), m.edgeCleared)
<1>1. Reset(m, f) = [m EXCEPT !.val[f] = {}, !.add[f] = {}, !.cleared = Remaining(m, f)]
  BY DEF Reset, Remaining, Shape, MutationFields
<1> QED
  BY <1>1 DEF Touched, Alike, Shape, MutationFields

LEMMA BuilderSetTouches ==
  ASSUME NEW m, Shape(m), NEW f \in Fields, NEW v
  PROVE  Touched(m, BuilderSet(m, f, v), f, {v}, {},
                 IF m.kind # "create" /\ Has(f, "add") THEN Remaining(m, f) ELSE m.cleared,
                 m.edgeCleared)
<1>1. CASE m.kind # "create" /\ Has(f, "add")
  <2>1. PICK r : r = Reset(m, f)
    OBVIOUS
  <2>2. Touched(m, r, f, {}, {}, Remaining(m, f), m.edgeCleared)
    BY <2>1, ResetTouches
  <2>3. Touched(r, Set(r, f, v), f, {v}, {}, r.cleared, r.edgeCleared)
    BY <2>2, SetTouches DEF Touched, Alike
  <2>4. Touched(m, Set(r, f, v), f, {v}, {}, Remaining(m, f), m.edgeCleared)
    BY <2>2, <2>3 DEF Touched, Alike
  <2> QED
    BY <1>1, <2>1, <2>4 DEF BuilderSet
<1>2. CASE ~ (m.kind # "create" /\ Has(f, "add"))
  BY <1>2, SetTouches DEF BuilderSet
<1> QED
  BY <1>1, <1>2

LEMMA EdgeTouches ==
  ASSUME NEW m, Shape(m), NEW f \in Fields
  PROVE  /\ Touched(m, ClearEdge(m, f), f, m.val[f], m.add[f], m.cleared \cup {f},
                    m.edgeCleared \cup {f})
         /\ Touched(m, ResetEdge(m, f), f, {}, m.add[f], m.cleared, m.edgeCleared \ {f})
BY DEF Touched, Alike, Shape, MutationFields, ClearEdge, ResetEdge

(* What a save fills in.                                                   *)
Supply(kind, now) == IF kind = "create" THEN Code.defaults[now] ELSE Code.refresh[now]
Fills(m, f) == f \in DOMAIN Supply(m.kind, clock) /\ m.val[f] = {}

LEMMA DefaultsFill ==
  ASSUME NEW m, Shape(m)
  PROVE  LET n == Defaults(m)
         IN /\ Alike(m, n) /\ n.cleared = m.cleared /\ n.edgeCleared = m.edgeCleared
            /\ \A f \in Fields :
                 /\ n.val[f] = IF Fills(m, f) THEN {Supply(m.kind, clock)[f]} ELSE m.val[f]
                 /\ n.add[f] = IF Fills(m, f) THEN {} ELSE m.add[f]
<1> DEFINE d == Supply(m.kind, clock)
           needed == {f \in DOMAIN d : m.val[f] = {}}
           val == [f \in Fields |-> IF f \in needed THEN {d[f]} ELSE m.val[f]]
           add == [f \in Fields |-> IF f \in needed THEN {} ELSE m.add[f]]
<1>1. Defaults(m) = [m EXCEPT !.val = val, !.add = add]
  BY DEF Defaults, Supply
<1>2. \A f : f \in needed <=> Fills(m, f)
  BY DEF Fills
<1> HIDE DEF needed, d
<1>3. /\ DOMAIN val = Fields /\ DOMAIN add = Fields
      /\ \A f \in Fields : /\ val[f] = IF f \in needed THEN {d[f]} ELSE m.val[f]
                           /\ add[f] = IF f \in needed THEN {} ELSE m.add[f]
  OBVIOUS
<1> HIDE DEF val, add
<1>4. LET n == [m EXCEPT !.val = val, !.add = add]
      IN /\ Alike(m, n) /\ n.cleared = m.cleared /\ n.edgeCleared = m.edgeCleared
         /\ n.val = val /\ n.add = add
  BY <1>3 DEF Alike, Shape, MutationFields
<1> QED
  BY <1>1, <1>2, <1>3, <1>4 DEF d

(* What is noted of a call.                                                *)
LogFields == {"calls", "added", "olds", "want", "clash", "tested", "tried"}
LogShape(l) == DOMAIN l = LogFields /\ DOMAIN l.want = Fields

Noted(l, n, f, how, val, clash) ==
  /\ LogShape(n) /\ n.want[f].how = how /\ n.want[f].val = val /\ n.clash = clash
  /\ \A g \in Fields \ {f} : n.want[g] = l.want[g]
  /\ n.added = l.added /\ n.olds = l.olds /\ n.tested = l.tested /\ n.tried = l.tried

LEMMA WantNotes ==
  ASSUME LogShape(log), NEW f \in Fields, NEW how, NEW val, NEW clash, Want(f, how, val, clash)
  PROVE  Noted(log, log', f, how, val, clash)
<1>1. PICK l : l = log
  OBVIOUS
<1>2. PICK k : k = l.calls + 1
  OBVIOUS
<1> DEFINE n == [l EXCEPT !.calls = k, !.want[f] = [how |-> how, val |-> val], !.clash = clash]
<1>3. log' = n
  BY <1>1, <1>2 DEF Want, LogShape, LogFields
<1>4. LogShape(l)
  BY <1>1
<1>5. Noted(l, n, f, how, val, clash)
  BY <1>4 DEF Noted, LogShape, LogFields
<1> QED
  BY <1>1, <1>3, <1>5

-----------------------------------------------------------------------------
(* What each call does to the mutation and what is noted of it.            *)

Ready == CodeOK(Code) /\ Shape(b) /\ LogShape(log) /\ focus \subseteq Fields

(* A setter forgets what was added; what was cleared it forgets only for   *)
(* a number of an update, and a field that was set after ClearX is noted.  *)
SetCalled(f, v) ==
  \E cleared, clash :
    /\ Touched(b, b', f, {v}, {}, cleared, b.edgeCleared)
    /\ Noted(log, log', f, "set", {v}, clash)
    /\ cleared \ {f} = b.cleared \ {f} /\ cleared \subseteq b.cleared
    /\ clash \ {f} = log.clash \ {f}
    /\ f \notin clash => \/ f \notin cleared \/ f \in Code.edges
                         \/ f \notin log.clash /\ log.want[f].how # "null"

LEMMA CallSetDoes ==
  ASSUME Ready, NEW f \in Fields, CallSet(f)
  PROVE  \E v \in Values(f) : SetCalled(f, v)
<1> DEFINE late == IF log.want[f].how = "null" THEN log.clash \cup {f} ELSE log.clash
<1>1. PICK v \in Values(f) :
        \/ /\ b' = BuilderSet(b, f, v)
           /\ Want(f, "set", {v},
                   IF b.kind # "create" /\ Has(f, "add") THEN log.clash \ {f} ELSE late)
        \/ b' = Set(b, f, v) /\ Want(f, "set", {v}, late)
  BY DEF CallSet
<1>2. /\ late \ {f} = log.clash \ {f}
      /\ f \notin late => f \notin log.clash /\ log.want[f].how # "null"
  OBVIOUS
<1> HIDE DEF late
<1>3. CASE b' = Set(b, f, v) /\ Want(f, "set", {v}, late)
  <2>1. /\ Touched(b, b', f, {v}, {}, b.cleared, b.edgeCleared)
        /\ Noted(log, log', f, "set", {v}, late)
    BY <1>3, SetTouches, WantNotes DEF Ready
  <2> QED
    BY <1>2, <2>1 DEF SetCalled
<1>4. CASE /\ b' = BuilderSet(b, f, v)
           /\ Want(f, "set", {v},
                   IF b.kind # "create" /\ Has(f, "add") THEN log.clash \ {f} ELSE late)
  <2>1. CASE b.kind # "create" /\ Has(f, "add")
    <3>1. /\ Touched(b, b', f, {v}, {}, Remaining(b, f), b.edgeCleared)
          /\ Noted(log, log', f, "set", {v}, log.clash \ {f})
      <4>1. Want(f, "set", {v}, log.clash \ {f})
        BY <1>4, <2>1
      <4> QED
        BY <1>4, <2>1, <4>1, BuilderSetTouches, WantNotes DEF Ready
    <3>2. /\ Remaining(b, f) \ {f} = b.cleared \ {f} /\ Remaining(b, f) \subseteq b.cleared
          /\ f \notin Remaining(b, f) \/ f \in Code.edges
      BY DEF Remaining
    <3> QED
      BY <3>1, <3>2 DEF SetCalled
  <2>2. CASE ~ (b.kind # "create" /\ Has(f, "add"))
    <3>1. /\ Touched(b, b', f, {v}, {}, b.cleared, b.edgeCleared)
          /\ Noted(log, log', f, "set", {v}, late)
      <4>1. Want(f, "set", {v}, late)
        BY <1>4, <2>2
      <4> QED
        BY <1>4, <2>2, <4>1, BuilderSetTouches, WantNotes DEF Ready
    <3> QED
      BY <1>2, <3>1 DEF SetCalled
  <2> QED
    BY <2>1, <2>2
<1> QED
  BY <1>1, <1>3, <1>4

(* AddX sums up; on top of anything else but another AddX it is noted.     *)
AddCalled(f) ==
  /\ f \in Code[b.kind].add
  /\ \E val, clash :
       /\ Touched(b, b', f, b.val[f],
                  IF b.add[f] = {} THEN {1} ELSE {x + 1 : x \in b.add[f]},
                  b.cleared, b.edgeCleared)
       /\ Noted(log, log', f, "add", val, clash)
       /\ clash \ {f} = log.clash \ {f}
       /\ f \notin clash =>
            /\ f \notin log.clash
            /\ \/ log.want[f].how = "keep" /\ val = {1}
               \/ log.want[f].how = "add" /\ val = {x + 1 : x \in log.want[f].val}

LEMMA CallAddDoes ==
  ASSUME Ready, NEW f \in Fields, CallAdd(f)
  PROVE  AddCalled(f)
<1> DEFINE sum == IF b.add[f] = {} THEN {1} ELSE {x + 1 : x \in b.add[f]}
           more == {d + 1 : d \in log.want[f].val}
           over == IF log.want[f].how = "keep" THEN log.clash ELSE log.clash \cup {f}
<1>1. f \in Code[b.kind].add /\ b' = AddTo(b, f, 1)
  BY DEF CallAdd
<1>2. Touched(b, b', f, b.val[f], sum, b.cleared, b.edgeCleared)
  BY <1>1, AddTouches DEF Ready
<1>3. /\ over \ {f} = log.clash \ {f}
      /\ f \notin over => f \notin log.clash /\ log.want[f].how = "keep"
  OBVIOUS
<1> HIDE DEF sum, over
<1>4. CASE log.want[f].how = "add"
  <2>1. Want(f, "add", more, log.clash)
    BY <1>4 DEF CallAdd
  <2> HIDE DEF more
  <2>2. Noted(log, log', f, "add", more, log.clash)
    BY <2>1, WantNotes DEF Ready
  <2> QED
    BY <1>1, <1>2, <1>4, <2>2 DEF AddCalled, sum, more
<1>5. CASE log.want[f].how # "add"
  <2>1. Want(f, "add", {1}, over)
    BY <1>5 DEF CallAdd, over
  <2>2. Noted(log, log', f, "add", {1}, over)
    BY <2>1, WantNotes DEF Ready
  <2> QED
    BY <1>1, <1>2, <1>3, <2>2 DEF AddCalled, sum
<1> QED
  BY <1>4, <1>5

(* After ClearX and ResetX nothing is left of earlier calls on a field,    *)
(* but an edge stays among the cleared ones.                               *)
EmptiedCalled(f) ==
  \E cleared, how :
    /\ Touched(b, b', f, {}, {}, cleared, b.edgeCleared)
    /\ Noted(log, log', f, how, {}, log.clash \ {f})
    /\ cleared \ {f} = b.cleared \ {f}
    /\ \/ how = "null" /\ Has(f, "clear") /\ f \in cleared
       \/ how = "keep" /\ cleared \subseteq b.cleared /\ (f \notin cleared \/ f \in Code.edges)

LEMMA CallClearDoes ==
  ASSUME Ready, NEW f \in Fields, CallClear(f) \/ CallReset(f)
  PROVE  EmptiedCalled(f)
<1>1. CASE CallClear(f)
  <2>1. /\ Touched(b, b', f, {}, {}, b.cleared \cup {f}, b.edgeCleared)
        /\ Noted(log, log', f, "null", {}, log.clash \ {f}) /\ Has(f, "clear")
    BY <1>1, ClearTouches, WantNotes DEF CallClear, Ready
  <2>2. (b.cleared \cup {f}) \ {f} = b.cleared \ {f} /\ f \in b.cleared \cup {f}
    OBVIOUS
  <2> QED
    BY <2>1, <2>2 DEF EmptiedCalled
<1>2. CASE CallReset(f)
  <2>1. /\ Touched(b, b', f, {}, {}, Remaining(b, f), b.edgeCleared)
        /\ Noted(log, log', f, "keep", {}, log.clash \ {f})
    BY <1>2, ResetTouches, WantNotes DEF CallReset, Ready
  <2>2. /\ Remaining(b, f) \ {f} = b.cleared \ {f} /\ Remaining(b, f) \subseteq b.cleared
        /\ f \notin Remaining(b, f) \/ f \in Code.edges
    BY DEF Remaining
  <2> QED
    BY <2>1, <2>2 DEF EmptiedCalled
<1> QED
  BY <1>1, <1>2

(* The methods of an edge leave what was added, which for an edge is       *)
(* nothing; clearing one that was set is noted.                            *)
EdgeCalled(f) ==
  /\ f \in Code.edges
  /\ \E val, cleared, edges, how, clash :
       /\ Touched(b, b', f, val, b.add[f], cleared, edges)
       /\ Noted(log, log', f, how, {}, clash)
       /\ cleared \ {f} = b.cleared \ {f} /\ edges \subseteq b.edgeCleared \cup {f}
       /\ edges \ {f} = b.edgeCleared \ {f}
       /\ clash \ {f} = log.clash \ {f} /\ log.clash \subseteq clash
       /\ \/ how = "null" /\ f \in edges /\ val = b.val[f] /\ (f \notin clash => val = {})
          \/ how = "keep" /\ val = {}

LEMMA CallEdgeDoes ==
  ASSUME Ready, NEW f \in Fields, CallEdge(f)
  PROVE  EdgeCalled(f)
<1>1. f \in Code.edges
  BY DEF CallEdge
<1> DEFINE late == IF b.val[f] # {} THEN log.clash \cup {f} ELSE log.clash
<1>2. CASE b' = ClearEdge(b, f) /\ Want(f, "null", {}, late)
  <2>1. /\ late \ {f} = log.clash \ {f} /\ log.clash \subseteq late
        /\ f \notin late => b.val[f] = {}
    OBVIOUS
  <2> HIDE DEF late
  <2>2. /\ Touched(b, b', f, b.val[f], b.add[f], b.cleared \cup {f}, b.edgeCleared \cup {f})
        /\ Noted(log, log', f, "null", {}, late)
    BY <1>2, EdgeTouches, WantNotes DEF Ready
  <2>3. /\ (b.cleared \cup {f}) \ {f} = b.cleared \ {f}
        /\ (b.edgeCleared \cup {f}) \ {f} = b.edgeCleared \ {f} /\ f \in b.edgeCleared \cup {f}
    OBVIOUS
  <2> QED
    BY <1>1, <2>1, <2>2, <2>3 DEF EdgeCalled
<1>3. CASE b' = ResetEdge(b, f) /\ Want(f, "keep", {}, log.clash)
  <2>1. /\ Touched(b, b', f, {}, b.add[f], b.cleared, b.edgeCleared \ {f})
        /\ Noted(log, log', f, "keep", {}, log.clash)
    BY <1>3, EdgeTouches, WantNotes DEF Ready
  <2>2. /\ b.edgeCleared \ {f} \subseteq b.edgeCleared \cup {f}
        /\ (b.edgeCleared \ {f}) \ {f} = b.edgeCleared \ {f}
    OBVIOUS
  <2> QED
    BY <1>1, <2>1, <2>2 DEF EdgeCalled
<1> QED
  BY <1>2, <1>3 DEF CallEdge

(* A predicate is added; one that is no test for NULL accepts no NULL.     *)
WhereCalled(f) ==
  \E p \in Predicates(f) :
    /\ Shape(b') /\ b'.preds = b.preds \cup {p} /\ b'.kind = b.kind /\ b'.id = b.id
    /\ b'.val = b.val /\ b'.add = b.add /\ b'.cleared = b.cleared
    /\ b'.edgeCleared = b.edgeCleared /\ b'.done = b.done /\ b'.asked = b.asked /\ b'.old = b.old
    /\ LogShape(log') /\ log'.want = log.want /\ log'.clash = log.clash
    /\ log'.added = log.added /\ log'.olds = log.olds /\ log'.tried = log.tried
    /\ log'.tested = IF p.nil THEN log.tested ELSE log.tested \cup {f}

LEMMA CallWhereDoes ==
  ASSUME Ready, NEW f \in Fields, CallWhere(f)
  PROVE  WhereCalled(f)
<1>1. PICK p \in Predicates(f) :
        /\ b' = [b EXCEPT !.preds = @ \cup {p}]
        /\ log' = [log EXCEPT !.calls = @ + 1, !.tested = IF p.nil THEN @ ELSE @ \cup {f}]
  BY DEF CallWhere
<1>2. PICK tested, calls : /\ tested = IF p.nil THEN log.tested ELSE log.tested \cup {f}
                           /\ calls = log.calls + 1
  OBVIOUS
<1>3. log' = [log EXCEPT !.calls = calls, !.tested = tested]
  BY <1>1, <1>2 DEF Ready, LogShape, LogFields
<1> QED
  BY <1>1, <1>2, <1>3 DEF WhereCalled, Ready, Shape, MutationFields, LogShape, LogFields

LEMMA CallDoes ==
  ASSUME Ready, Call
  PROVE  \E f \in Fields :
           \/ \E v \in Values(f) : SetCalled(f, v)
           \/ AddCalled(f) \/ EmptiedCalled(f) \/ EdgeCalled(f) \/ WhereCalled(f)
<1>1. PICK f \in focus : \/ CallSet(f) \/ CallAdd(f) \/ CallClear(f) \/ CallReset(f)
                         \/ CallEdge(f) \/ CallWhere(f)
  BY DEF Call
<1>2. f \in Fields
  BY DEF Ready
<1> QED
  BY <1>1, <1>2, CallSetDoes, CallAddDoes, CallClearDoes, CallEdgeDoes, CallWhereDoes

-----------------------------------------------------------------------------
(* Typing.                                                                 *)

ValueOK(f, S) == S = {} \/ \E v \in Values(f) : S = {v}
AddOK(f, S) == S \subseteq Nat /\ (S # {} => Has(f, "add"))
Clearable == {f \in Fields : Has(f, "clear")} \cup Code.edges

BuilderOK(m) ==
  /\ Shape(m) /\ m.kind \in {"none", "create", "update", "updateOne"}
  /\ \A f \in Fields : ValueOK(f, m.val[f]) /\ AddOK(f, m.add[f])
  /\ m.cleared \subseteq Clearable /\ m.edgeCleared \subseteq Code.edges
  /\ \A p \in m.preds : p.field \in Fields /\ p.accepts \subseteq Values(p.field) \cup {Null}

RowsOK(table) ==
  /\ table \in Seq([Fields -> UNION {Column(f) : f \in Fields}])
  /\ \A i \in DOMAIN table, f \in Fields : table[i][f] \in Column(f)

Typing ==
  /\ entity \in Entities /\ focus \subseteq Fields
  /\ clock \in 0 .. MaxClock /\ event \in {"none", "saved", "failed", "lost"}
  /\ LogShape(log) /\ BuilderOK(b) /\ RowsOK(rows)

LEMMA TypingReady ==
  ASSUME Typing
  PROVE  Ready
BY EveryCode DEF Typing, Ready, BuilderOK

LEMMA TypingIsTyped ==
  ASSUME Typing
  PROVE  TypeOK
<1>1. ASSUME NEW f \in Fields
      PROVE  b.val[f] \subseteq Values(f) /\ Cardinality(b.val[f]) <= 1
  <2>1. ValueOK(f, b.val[f])
    BY <1>1 DEF Typing, BuilderOK
  <2>2. CASE b.val[f] = {}
    BY <2>2, FS_EmptySet
  <2>3. ASSUME NEW v \in Values(f), b.val[f] = {v}
        PROVE  b.val[f] \subseteq Values(f) /\ Cardinality(b.val[f]) <= 1
    BY <2>3, FS_Singleton
  <2> QED
    BY <2>1, <2>2, <2>3 DEF ValueOK
<1> QED
  BY <1>1 DEF TypeOK, Typing, BuilderOK, RowsOK, AddOK, Clearable

(* What is checked of the operators, with the entity of this step, holds   *)
(* after it as well.                                                       *)
LEMMA TypingNext ==
  ASSUME entity \in Entities, focus \subseteq Fields, UNCHANGED <<entity, focus>>,
         clock' \in 0 .. MaxClock, event' \in {"none", "saved", "failed", "lost"},
         LogShape(log'), BuilderOK(b'), RowsOK(rows')
  PROVE  Typing'
<1>1. Code' = Code
  BY SameCode
<1>2. LogShape(log)'
  BY <1>1 DEF LogShape, Fields
<1>3. BuilderOK(b)'
  BY <1>1 DEF BuilderOK, Shape, ValueOK, AddOK, Clearable, Fields, Values, Has
<1>4. RowsOK(rows)'
  BY <1>1 DEF RowsOK, Column, Fields, Values, Has
<1>5. (focus \subseteq Fields)'
  BY <1>1 DEF Fields
<1> QED
  BY <1>2, <1>3, <1>4, <1>5 DEF Typing

LEMMA FreshOK ==
  ASSUME NEW kind \in {"none", "create", "update", "updateOne"}, NEW id, NEW old, NEW m,
         \/ m = Mutation(kind, id)
         \/ m = [Mutation(kind, id) EXCEPT !.asked = TRUE, !.old = old]
  PROVE  BuilderOK(m)
<1>1. CASE m = Mutation(kind, id)
  BY <1>1 DEF BuilderOK, Mutation, Shape, MutationFields, ValueOK, AddOK
<1>2. CASE m = [Mutation(kind, id) EXCEPT !.asked = TRUE, !.old = old]
  BY <1>2 DEF BuilderOK, Mutation, Shape, MutationFields, ValueOK, AddOK
<1> QED
  BY <1>1, <1>2

LEMMA FreshLog ==
  ASSUME NEW calls, NEW added, NEW olds
  PROVE  LogShape(Log(calls, added, olds))
BY DEF LogShape, LogFields, Log

LEMMA TouchedOK ==
  ASSUME NEW m, BuilderOK(m), NEW n, NEW f \in Fields, NEW val, NEW add, NEW cleared, NEW edges,
         Touched(m, n, f, val, add, cleared, edges), ValueOK(f, val), AddOK(f, add),
         cleared \subseteq Clearable, edges \subseteq Code.edges
  PROVE  BuilderOK(n)
<1>1. \A g \in Fields : ValueOK(g, n.val[g]) /\ AddOK(g, n.add[g])
  BY DEF BuilderOK, Touched
<1> QED
  BY <1>1 DEF BuilderOK, Touched, Alike

LEMMA PredicatesOK ==
  ASSUME CodeOK(Code), NEW f \in Fields, NEW p \in Predicates(f)
  PROVE  /\ p.field = f /\ p.accepts \subseteq Values(f) \cup {Null}
         /\ ~ p.nil => Null \notin p.accepts
<1> DEFINE all == Values(f) \cup {Null}
<1>1. Null \notin Values(f)
  BY FieldFacts
<1>2. PICK op \in Code.preds[f] :
        \E T \in Accepted(f, op) \cup {Negation(f, op, S) : S \in Accepted(f, op)} :
          p = [field |-> f, accepts |-> T, nil |-> op \in NilTests]
  BY DEF Predicates
<1>3. PICK T : /\ T \in Accepted(f, op) \cup {Negation(f, op, S) : S \in Accepted(f, op)}
               /\ p = [field |-> f, accepts |-> T, nil |-> op \in NilTests]
  BY <1>2
<1>4. /\ op \in Equalities \cup Orders \cup NilTests \cup Searches
      /\ op \in Searches => Code.fields[f].kind = "text"
  BY DEF CodeOK, PredsOK, Fields, Equalities, Orders, NilTests, Searches
<1>5. ASSUME NEW S \in Accepted(f, op)
      PROVE  S \subseteq all /\ (op \notin NilTests => S \subseteq Values(f))
  <2>1. CASE op \in {"EQ", "In"}
    BY <2>1 DEF Accepted, NilTests
  <2>2. CASE op \in {"NEQ", "NotIn"}
    BY <2>2 DEF Accepted, NilTests
  <2>3. CASE op \in NilTests
    BY <2>3 DEF Accepted, NilTests
  <2>4. CASE op \in Orders \cup Searches /\ Code.fields[f].kind = "text"
    BY <2>4 DEF Accepted, NilTests, Orders, Searches
  <2>5. CASE op \in Orders /\ Code.fields[f].kind # "text"
    BY <2>5 DEF Accepted, NilTests, Orders, Searches
  <2> QED
    BY <1>4, <2>1, <2>2, <2>3, <2>4, <2>5 DEF Equalities
<1>6. T \subseteq all /\ (op \notin NilTests => Null \notin T)
  BY <1>1, <1>3, <1>5 DEF Negation
<1> QED
  BY <1>3, <1>6

LEMMA CallTyped ==
  ASSUME Typing, Call
  PROVE  BuilderOK(b') /\ LogShape(log')
<1>1. CodeOK(Code) /\ Ready /\ BuilderOK(b)
  BY TypingReady DEF Ready, Typing
<1>2. b.kind \in {"create", "update", "updateOne"}
  BY <1>1 DEF Call, BuilderOK
<1>3. PICK f \in Fields :
        \/ \E v \in Values(f) : SetCalled(f, v)
        \/ AddCalled(f) \/ EmptiedCalled(f) \/ EdgeCalled(f) \/ WhereCalled(f)
  BY <1>1, CallDoes
<1>4. /\ ValueOK(f, b.val[f]) /\ AddOK(f, b.add[f]) /\ b.cleared \subseteq Clearable
      /\ b.edgeCleared \subseteq Code.edges /\ ValueOK(f, {}) /\ AddOK(f, {})
  BY <1>1 DEF BuilderOK, ValueOK, AddOK
<1>5. ASSUME NEW v \in Values(f), SetCalled(f, v)
      PROVE  BuilderOK(b') /\ LogShape(log')
  <2>1. PICK cleared, clash :
          /\ Touched(b, b', f, {v}, {}, cleared, b.edgeCleared)
          /\ Noted(log, log', f, "set", {v}, clash) /\ cleared \subseteq b.cleared
    BY <1>5 DEF SetCalled
  <2>2. ValueOK(f, {v}) /\ cleared \subseteq Clearable
    BY <1>4, <2>1 DEF ValueOK
  <2> QED
    BY <1>1, <1>4, <2>1, <2>2, TouchedOK DEF Noted
<1>6. CASE AddCalled(f)
  <2> DEFINE sum == IF b.add[f] = {} THEN {1} ELSE {x + 1 : x \in b.add[f]}
  <2>1. PICK val, clash :
          /\ Touched(b, b', f, b.val[f], sum, b.cleared, b.edgeCleared)
          /\ Noted(log, log', f, "add", val, clash)
    BY <1>6 DEF AddCalled
  <2>2. Has(f, "add")
    BY <1>1, <1>2, <1>6, FieldFacts DEF AddCalled, CodeOK, AddsOK, Fields
  <2>3. AddOK(f, sum)
    BY <1>4, <2>2 DEF AddOK
  <2> HIDE DEF sum
  <2> QED
    BY <1>1, <1>4, <2>1, <2>3, TouchedOK DEF Noted
<1>7. CASE EmptiedCalled(f)
  <2>1. PICK cleared, how :
          /\ Touched(b, b', f, {}, {}, cleared, b.edgeCleared)
          /\ Noted(log, log', f, how, {}, log.clash \ {f})
          /\ cleared \ {f} = b.cleared \ {f}
          /\ Has(f, "clear") \/ cleared \subseteq b.cleared
    BY <1>7 DEF EmptiedCalled
  <2>2. cleared \subseteq Clearable
    BY <1>4, <2>1 DEF Clearable
  <2> QED
    BY <1>1, <1>4, <2>1, <2>2, TouchedOK DEF Noted
<1>8. CASE EdgeCalled(f)
  <2>1. PICK val, cleared, edges, how, clash :
          /\ Touched(b, b', f, val, b.add[f], cleared, edges)
          /\ Noted(log, log', f, how, {}, clash)
          /\ cleared \ {f} = b.cleared \ {f} /\ edges \subseteq b.edgeCleared \cup {f}
          /\ val = b.val[f] \/ val = {}
    BY <1>8 DEF EdgeCalled
  <2>2. cleared \subseteq Clearable /\ edges \subseteq Code.edges /\ ValueOK(f, val)
    BY <1>4, <1>8, <2>1 DEF EdgeCalled, Clearable
  <2> QED
    BY <1>1, <1>4, <2>1, <2>2, TouchedOK DEF Noted
<1>9. CASE WhereCalled(f)
  BY <1>1, <1>9, PredicatesOK DEF WhereCalled, BuilderOK
<1> QED
  BY <1>3, <1>5, <1>6, <1>7, <1>8, <1>9

LEMMA FilledOK ==
  ASSUME CodeOK(Code), clock \in 0 .. MaxClock, NEW m, BuilderOK(m)
  PROVE  BuilderOK(Defaults(m))
<1>1. PICK n : n = Defaults(m)
  OBVIOUS
<1>2. /\ Alike(m, n) /\ n.cleared = m.cleared /\ n.edgeCleared = m.edgeCleared
      /\ \A f \in Fields :
           /\ n.val[f] = IF Fills(m, f) THEN {Supply(m.kind, clock)[f]} ELSE m.val[f]
           /\ n.add[f] = IF Fills(m, f) THEN {} ELSE m.add[f]
  BY <1>1, DefaultsFill DEF BuilderOK
<1>3. ASSUME NEW f \in Fields
      PROVE  ValueOK(f, n.val[f]) /\ AddOK(f, n.add[f])
  <2>1. CASE Fills(m, f)
    <3>1. Supply(m.kind, clock)[f] \in Values(f)
      BY <2>1 DEF Fills, Supply, CodeOK, DefaultsOK, Values
    <3> QED
      BY <1>2, <2>1, <3>1 DEF ValueOK, AddOK
  <2>2. CASE ~ Fills(m, f)
    BY <1>2, <2>2 DEF BuilderOK
  <2> QED
    BY <2>1, <2>2
<1>4. BuilderOK(n)
  BY <1>2, <1>3 DEF BuilderOK, Alike
<1> QED
  BY <1>1, <1>4

(* A table that can be stored has its columns.                             *)
LEMMA StoredOK ==
  ASSUME RowsOK(rows), NEW m, Insert(m) \/ Change(m)
  PROVE  RowsOK(rows') /\ Len(rows') >= Len(rows)
<1> DEFINE Row == [Fields -> UNION {Column(f) : f \in Fields}]
<1>1. rows \in Seq(Row) /\ Len(rows) \in Nat /\ DOMAIN rows = 1 .. Len(rows)
  BY DEF RowsOK
<1>2. Storable(rows')
  BY DEF Insert, Change
<1>3. \A i \in DOMAIN rows', f \in Fields : rows'[i][f] \in Column(f)
  BY <1>2 DEF Storable
<1>4. CASE Insert(m)
  <2>1. PICK new : new = NewRow(m)
    OBVIOUS
  <2>2. rows' = Append(rows, new)
    BY <1>4, <2>1 DEF Insert
  <2> HIDE DEF Row
  <2>3. Len(rows) + 1 \in DOMAIN rows' /\ rows'[Len(rows) + 1] = new
    BY <1>1, <2>2
  <2> USE DEF Row
  <2>4. new \in Row
    BY <1>3, <2>1, <2>3 DEF NewRow
  <2>5. rows' \in Seq(Row) /\ Len(rows') = Len(rows) + 1
    BY <1>1, <2>2, <2>4
  <2> QED
    BY <1>1, <1>3, <2>5 DEF RowsOK
<1>5. CASE Change(m)
  <2>1. PICK first \in {"set", "clear", "add"}, zero \in BOOLEAN :
          rows' = [i \in DOMAIN rows |->
            IF i \in Matching(m) THEN [f \in Fields |-> Left(m, f, rows[i][f], first, zero)]
            ELSE rows[i]]
    BY <1>5 DEF Change
  <2>2. DOMAIN rows' = DOMAIN rows
    BY <2>1
  <2>3. ASSUME NEW i \in DOMAIN rows
        PROVE  rows'[i] \in Row
    <3>1. CASE i \in Matching(m)
      <4>1. rows'[i] = [f \in Fields |-> Left(m, f, rows[i][f], first, zero)]
        BY <2>1, <3>1
      <4>2. \A f \in Fields : rows'[i][f] \in Column(f)
        BY <1>3, <2>2
      <4> QED
        BY <4>1, <4>2
    <3>2. CASE i \notin Matching(m)
      <4>1. rows'[i] = rows[i]
        BY <2>1, <3>2
      <4> QED
        BY <1>1, <4>1
    <3> QED
      BY <3>1, <3>2
  <2>4. rows' = [i \in 1 .. Len(rows) |-> rows'[i]]
    BY <1>1, <2>1, <2>2
  <2> HIDE DEF Row
  <2>5. rows' \in Seq(Row) /\ Len(rows') = Len(rows)
    BY <1>1, <2>3, <2>4
  <2> QED
    BY <1>1, <1>3, <2>5 DEF RowsOK, Row
<1> QED
  BY <1>4, <1>5

(* A save leaves the mutation as defaults has filled it in, but for its id *)
(* and for being done.                                                     *)
LEMMA SaveKeeps ==
  ASSUME Typing, Save
  PROVE  LET m == Defaults(b)
         IN /\ Alike(b, m) /\ DOMAIN b' = MutationFields
            /\ b'.kind = m.kind /\ b'.val = m.val /\ b'.add = m.add
            /\ b'.cleared = m.cleared /\ b'.edgeCleared = m.edgeCleared
            /\ b'.preds = m.preds /\ b'.asked = m.asked /\ b'.old = m.old
<1>1. PICK m : m = Defaults(b)
  OBVIOUS
<1>2. Alike(b, m)
  BY <1>1, DefaultsFill DEF Typing, BuilderOK
<1>3. \/ event' \in {"failed", "lost"} /\ b' = m
      \/ event' = "saved" /\ \E id : b' = [m EXCEPT !.id = id, !.done = TRUE]
  <2>1. CASE event' = "saved"
    <3>1. b' = [m EXCEPT !.id = IF m.kind = "create" THEN Len(rows') ELSE @, !.done = TRUE]
      BY <1>1, <2>1 DEF Save
    <3>2. PICK id : id = IF m.kind = "create" THEN Len(rows') ELSE m.id
      OBVIOUS
    <3>3. b' = [m EXCEPT !.id = id, !.done = TRUE]
      BY <3>1, <3>2
    <3> QED
      BY <2>1, <3>3
  <2>2. CASE event' # "saved"
    BY <1>1, <2>2 DEF Save
  <2> QED
    BY <2>1, <2>2
<1>4. CASE event' \in {"failed", "lost"} /\ b' = m
  BY <1>1, <1>2, <1>4 DEF Alike, Shape
<1>5. CASE event' = "saved" /\ \E id : b' = [m EXCEPT !.id = id, !.done = TRUE]
  <2>1. PICK id : b' = [m EXCEPT !.id = id, !.done = TRUE]
    BY <1>5
  <2> QED
    BY <1>1, <1>2, <1>5, <2>1 DEF Alike, Shape, MutationFields
<1> QED
  BY <1>3, <1>4, <1>5

LEMMA SaveTyped ==
  ASSUME Typing, Save
  PROVE  /\ BuilderOK(b') /\ LogShape(log') /\ RowsOK(rows')
         /\ event' \in {"none", "saved", "failed", "lost"}
<1>1. PICK m : m = Defaults(b)
  OBVIOUS
<1>2. BuilderOK(m)
  BY <1>1, EveryCode, FilledOK DEF Typing
<1>3. \/ event' = "failed" /\ UNCHANGED rows
      \/ event' \in {"saved", "lost"} /\ (Insert(m) \/ Change(m))
  BY <1>1 DEF Save
<1>4. BuilderOK(b')
  BY <1>1, <1>2, SaveKeeps DEF BuilderOK, Shape, MutationFields
<1>5. LogShape(log')
  BY DEF Save, Typing, LogShape, LogFields
<1>6. RowsOK(rows')
  BY <1>3, StoredOK DEF Typing
<1> QED
  BY <1>3, <1>4, <1>5, <1>6

(* Asking for old values touches nothing else.                             *)
LEMMA AskLeaves ==
  ASSUME Shape(b), LogShape(log), AskOld
  PROVE  /\ Shape(b') /\ b'.kind = b.kind /\ b'.id = b.id /\ b'.val = b.val /\ b'.add = b.add
         /\ b'.cleared = b.cleared /\ b'.edgeCleared = b.edgeCleared /\ b'.preds = b.preds
         /\ b'.done = b.done /\ b'.asked = TRUE
         /\ b'.old = {} \/ (b'.old = Found(rows, b.id) /\ ~ b.done)
         /\ LogShape(log') /\ log'.added = log.added /\ log'.olds = log.olds
         /\ log'.want = log.want /\ log'.clash = log.clash /\ log'.tested = log.tested
         /\ log'.tried = log.tried
<1>1. PICK old : /\ b' = [b EXCEPT !.asked = TRUE, !.old = old]
                 /\ old = {} \/ (old = Found(rows, b.id) /\ ~ b.done)
  BY DEF AskOld
<1>2. PICK calls : log' = [log EXCEPT !.calls = calls]
  BY DEF AskOld, LogShape, LogFields
<1> QED
  BY <1>1, <1>2 DEF Shape, MutationFields, LogShape, LogFields

(* Another session changes one cell, to what the schema demands.           *)
LEMMA OthersWrite ==
  ASSUME Typing, OtherWrites
  PROVE  /\ b' = b /\ RowsOK(rows') /\ DOMAIN rows' = DOMAIN rows
         /\ \A i \in DOMAIN rows, f \in Fields :
              rows'[i][f] = rows[i][f] \/ rows'[i][f] \in Valid(f) \cup (Column(f) \cap {Null})
         /\ LogShape(log') /\ log'.added = log.added /\ log'.olds = log.olds \cup Unread
         /\ log'.want = log.want /\ log'.clash = log.clash /\ log'.tested = log.tested
         /\ log'.tried = log.tried
<1> DEFINE Row == [Fields -> UNION {Column(f) : f \in Fields}]
<1>1. rows \in Seq(Row) /\ Len(rows) \in Nat /\ DOMAIN rows = 1 .. Len(rows)
  BY DEF Typing, RowsOK
<1>2. PICK j \in DOMAIN rows, g \in focus \ Code.immutable :
        \E v \in Valid(g) \cup (Column(g) \cap {Null}) :
          rows' = [rows EXCEPT ![j][g] = v]
  BY DEF OtherWrites
<1>3. PICK v \in Valid(g) \cup (Column(g) \cap {Null}) : rows' = [rows EXCEPT ![j][g] = v]
  BY <1>2
<1>4. \A i \in DOMAIN rows : rows[i] \in Row
  BY <1>1
<1> DEFINE new == [rows[j] EXCEPT ![g] = v]
<1>5. DOMAIN new = Fields /\ \A f \in Fields : new[f] = IF f = g THEN v ELSE rows[j][f]
  BY <1>4
<1>6. rows' = [i \in DOMAIN rows |-> IF i = j THEN new ELSE rows[i]]
  BY <1>1, <1>3
<1> HIDE DEF new
<1>7. DOMAIN rows' = DOMAIN rows /\ \A i \in DOMAIN rows : rows'[i] = IF i = j THEN new ELSE rows[i]
  BY <1>6
<1>8. \A i \in DOMAIN rows', f \in Fields : rows'[i][f] \in Column(f)
  BY DEF OtherWrites, Storable
<1>9. new \in Row
  <2>1. \A f \in Fields : new[f] \in Column(f)
    BY <1>7, <1>8
  <2>2. new = [f \in Fields |-> new[f]]
    BY <1>4 DEF new
  <2> QED
    BY <2>1, <2>2
<1>10. RowsOK(rows')
  <2>1. \A i \in 1 .. Len(rows) : rows'[i] \in Row
    BY <1>1, <1>4, <1>7, <1>9
  <2>2. rows' = [i \in 1 .. Len(rows) |-> rows'[i]]
    BY <1>1, <1>6, <1>7
  <2> HIDE DEF Row
  <2>3. rows' \in Seq(Row)
    BY <1>1, <2>1, <2>2
  <2> QED
    BY <1>8, <2>3 DEF RowsOK, Row
<1>11. PICK calls, olds : /\ olds = log.olds \cup Unread
                          /\ log' = [log EXCEPT !.calls = calls, !.olds = olds]
  <2>1. PICK calls, olds : calls = log.calls + 1 /\ olds = log.olds \cup Unread
    OBVIOUS
  <2>2. log' = [log EXCEPT !.calls = calls, !.olds = olds]
    BY <2>1 DEF OtherWrites, Typing, LogShape, LogFields
  <2> QED
    BY <2>1, <2>2
<1>12. /\ LogShape(log') /\ log'.added = log.added /\ log'.olds = log.olds \cup Unread
       /\ log'.want = log.want /\ log'.clash = log.clash /\ log'.tested = log.tested
       /\ log'.tried = log.tried
  BY <1>11 DEF Typing, LogShape, LogFields
<1>13. b' = b
  BY DEF OtherWrites
<1> QED
  BY <1>3, <1>5, <1>7, <1>10, <1>12, <1>13

LEMMA TypingInit == Init => Typing
<1> SUFFICES ASSUME Init PROVE Typing
  OBVIOUS
<1>1. CodeOK(Code) /\ entity \in Entities
  BY EveryCode DEF Init
<1>2. BuilderOK(b) /\ LogShape(log)
  BY FreshOK, FreshLog DEF Init
<1>3. \A f \in Fields : /\ SampleRow(1, FALSE)[f] \in Column(f)
                         /\ SampleRow(2, TRUE)[f] \in Column(f)
  <2> TAKE f \in Fields
  <2>1. \A n \in 1 .. 3 : Sample(f, n) \in Values(f)
    BY <1>1, SampleValid, FieldFacts
  <2>2. Sample(f, 1) \in Values(f) /\ Sample(f, 2) \in Values(f)
    BY <2>1
  <2> QED
    BY <2>2 DEF SampleRow, Column
<1>4. RowsOK(rows)
  <2>1. PICK r, s : r = SampleRow(1, FALSE) /\ s = SampleRow(2, TRUE)
    OBVIOUS
  <2>2. rows = <<r, s>>
    BY <2>1 DEF Init
  <2>3. \A f \in Fields : r[f] \in Column(f) /\ s[f] \in Column(f)
    BY <1>3, <2>1
  <2>4. /\ r \in [Fields -> UNION {Column(f) : f \in Fields}]
        /\ s \in [Fields -> UNION {Column(f) : f \in Fields}]
    BY <2>1, <2>3 DEF SampleRow
  <2> QED
    BY <2>2, <2>3, <2>4 DEF RowsOK
<1>5. focus \subseteq Fields /\ clock \in 0 .. MaxClock /\ event = "none"
  BY FieldAssumption DEF Init
<1> QED
  BY <1>1, <1>2, <1>4, <1>5 DEF Typing

LEMMA TypingStep == Typing /\ [Next]_vars => Typing'
<1> SUFFICES ASSUME Typing, [Next]_vars PROVE Typing'
  OBVIOUS
<1>1. CodeOK(Code)
  BY EveryCode DEF Typing
<1> DEFINE Fine == /\ UNCHANGED <<entity, focus>>
                   /\ clock' \in 0 .. MaxClock /\ event' \in {"none", "saved", "failed", "lost"}
                   /\ LogShape(log') /\ BuilderOK(b') /\ RowsOK(rows')
<1>2. ASSUME b.kind = "none", Create
      PROVE  BuilderOK(b') /\ LogShape(log')
  <2> DEFINE given == Code.requires \ (focus \cup DOMAIN Code.defaults[clock])
             val == [f \in Fields |-> IF f \in given THEN {Sample(f, 3)} ELSE {}]
             want == [f \in Fields |-> IF f \in given THEN [how |-> "set", val |-> {Sample(f, 3)}]
                                       ELSE Keep]
  <2>1. /\ b' = [Mutation("create", 0) EXCEPT !.val = val]
        /\ log' = [Log(log.calls, log.added, {}) EXCEPT !.want = want]
    BY <1>2 DEF Create
  <2>2. \A f \in Fields : ValueOK(f, val[f])
    BY <1>1, SampleValid, FieldFacts DEF ValueOK
  <2>3. DOMAIN val = Fields /\ DOMAIN want = Fields
    OBVIOUS
  <2> HIDE DEF val, want
  <2>4. BuilderOK(b')
    BY <2>1, <2>2, <2>3 DEF BuilderOK, Mutation, Shape, MutationFields, AddOK
  <2>5. LogShape(log')
    BY <2>1, <2>3 DEF LogShape, LogFields, Log
  <2> QED
    BY <2>4, <2>5
<1>3. ASSUME Update \/ UpdateOneID \/ UpdateOne \/ Drop
      PROVE  BuilderOK(b') /\ LogShape(log')
  <2>1. CASE Update \/ Drop
    BY <2>1, FreshOK, FreshLog DEF Update, Drop
  <2>2. CASE UpdateOneID \/ UpdateOne
    <3>1. PICK id, old, olds :
            /\ \/ b' = Mutation("updateOne", id)
               \/ b' = [Mutation("updateOne", id) EXCEPT !.asked = TRUE, !.old = old]
            /\ log' = Log(log.calls, log.added, olds)
      BY <2>2 DEF UpdateOneID, UpdateOne
    <3> QED
      BY <3>1, FreshOK, FreshLog
  <2> QED
    BY <1>3, <2>1, <2>2
<1>4. ASSUME AskOld
      PROVE  BuilderOK(b') /\ LogShape(log')
  <2>1. Shape(b) /\ LogShape(log)
    BY DEF Typing, BuilderOK
  <2> QED
    BY <1>4, <2>1, AskLeaves DEF Typing, BuilderOK, Shape, MutationFields
<1>5. CASE /\ UNCHANGED <<entity, focus, rows, clock>> /\ event' = "none"
           /\ Create \/ Update \/ UpdateOneID \/ UpdateOne \/ Call \/ AskOld \/ Drop
  <2>1. BuilderOK(b') /\ LogShape(log')
    BY <1>2, <1>3, <1>4, <1>5, CallTyped DEF Create
  <2> QED
    BY <1>5, <2>1, TypingNext DEF Typing
<1>6. CASE Save /\ UNCHANGED <<entity, focus, clock>>
  BY <1>6, SaveTyped, TypingNext DEF Typing
<1>7. CASE Tick /\ UNCHANGED <<entity, focus>>
  BY <1>7, TypingNext, FieldAssumption DEF Tick, Typing
<1>9. CASE OtherWrites /\ UNCHANGED <<entity, focus, clock>> /\ event' = "none"
  <2>1. BuilderOK(b') /\ LogShape(log') /\ RowsOK(rows')
    BY <1>9, OthersWrite DEF Typing
  <2> QED
    BY <1>9, <2>1, TypingNext DEF Typing
<1>8. CASE UNCHANGED vars
  BY <1>8, TypingNext DEF vars, Typing
<1> QED
  BY <1>5, <1>6, <1>7, <1>8, <1>9 DEF Next

LEMMA AlwaysTyping == Spec => []Typing
BY TypingInit, TypingStep, PTL DEF Spec

(* The table and the mutation stay within the types of the generated code: *)
(* every cell is a value of its column or a NULL that the column allows, a *)
(* field holds at most one value, only numbers are added to, only what the *)
(* code can clear is cleared, and predicates speak of their own fields     *)
(* (mutation.go:204-307, team_update.go:286-330).                          *)
THEOREM BuilderTyping == Spec => []TypeOK
BY AlwaysTyping, TypingIsTyped, PTL

-----------------------------------------------------------------------------
(* Old values.                                                             *)

LEMMA CallLeaves ==
  ASSUME Ready, Call
  PROVE  /\ b'.kind = b.kind /\ b'.id = b.id /\ b'.done = b.done /\ b'.asked = b.asked
         /\ b'.old = b.old /\ log'.olds = log.olds /\ log'.added = log.added
         /\ log'.tried = log.tried
<1>1. PICK f \in Fields :
        \/ \E v \in Values(f) : SetCalled(f, v)
        \/ AddCalled(f) \/ EmptiedCalled(f) \/ EdgeCalled(f) \/ WhereCalled(f)
  BY CallDoes
<1>2. CASE \E v \in Values(f) : SetCalled(f, v)
  BY <1>2 DEF SetCalled, Touched, Alike, Noted
<1>3. CASE AddCalled(f)
  BY <1>3 DEF AddCalled, Touched, Alike, Noted
<1>4. CASE EmptiedCalled(f)
  BY <1>4 DEF EmptiedCalled, Touched, Alike, Noted
<1>5. CASE EdgeCalled(f)
  BY <1>5 DEF EdgeCalled, Touched, Alike, Noted
<1>6. CASE WhereCalled(f)
  BY <1>6 DEF WhereCalled
<1> QED
  BY <1>1, <1>2, <1>3, <1>4, <1>5, <1>6

LEMMA SaveLogs ==
  ASSUME LogShape(log), Save
  PROVE  /\ LogShape(log') /\ log'.olds = log.olds \cup Unread /\ log'.want = log.want
         /\ log'.clash = log.clash /\ log'.tested = log.tested /\ log'.tried = TRUE
         /\ log'.added = log.added \cup {f \in Fields : b.add[f] # {}}
<1>1. PICK calls, olds, more : /\ calls = log.calls + 1
                               /\ olds = log.olds \cup Unread
                               /\ more = log.added \cup {f \in Fields : b.add[f] # {}}
  OBVIOUS
<1>2. log' = [log EXCEPT !.calls = calls, !.tried = TRUE, !.olds = olds, !.added = more]
  BY <1>1 DEF Save, LogShape, LogFields
<1> QED
  BY <1>1, <1>2 DEF LogShape, LogFields

(* As long as nothing was asked and no save was answered, the row that a   *)
(* question would read is among the versions noted, whoever wrote it.      *)
OldInv ==
  /\ OldPrecedesSave
  /\ b.kind = "updateOne" /\ ~ b.asked /\ ~ b.done => Found(rows, b.id) \subseteq log.olds

LEMMA OldInit == Init => OldInv
BY DEF Init, OldInv, OldPrecedesSave, Mutation

(* A step that writes notes the version it leaves.                         *)
LEMMA WriteNotes ==
  ASSUME OldInv, b'.old = b.old, log'.olds = log.olds \cup Unread
  PROVE  /\ b'.old \subseteq log'.olds
         /\ b'.kind = "updateOne" /\ ~ b'.asked /\ ~ b'.done =>
              Found(rows', b'.id) \subseteq log'.olds
BY DEF OldInv, OldPrecedesSave, Unread

LEMMA OldStep == Typing /\ OldInv /\ [Next]_vars => OldInv'
<1> SUFFICES ASSUME Typing, OldInv, [Next]_vars PROVE OldInv'
  OBVIOUS
<1>1. Ready /\ Shape(b) /\ LogShape(log)
  BY TypingReady DEF Ready
<1>2. /\ b'.old \subseteq log'.olds
      /\ b'.kind = "updateOne" /\ ~ b'.asked /\ ~ b'.done =>
           Found(rows', b'.id) \subseteq log'.olds
  <2>1. CASE Update \/ Drop
    BY <2>1 DEF Update, Drop, Mutation
  <2>2. CASE Create
    <3>1. PICK val : b' = [Mutation("create", 0) EXCEPT !.val = val]
      BY <2>2 DEF Create
    <3> QED
      BY <3>1 DEF Mutation
  <2>3. CASE UpdateOneID /\ UNCHANGED rows
    <3>1. PICK id : /\ b' = Mutation("updateOne", id)
                    /\ log' = Log(log.calls, log.added, Found(rows, id))
      BY <2>3 DEF UpdateOneID
    <3>2. b'.id = id /\ b'.old = {} /\ log'.olds = Found(rows, id)
      BY <3>1 DEF Mutation, Log
    <3> QED
      BY <2>3, <3>2
  <2>4. CASE UpdateOne
    <3>1. PICK id, node :
            /\ b' = [Mutation("updateOne", id) EXCEPT !.asked = TRUE, !.old = {node}]
            /\ log' = Log(log.calls, log.added, {node})
      BY <2>4 DEF UpdateOne
    <3>2. b'.asked /\ b'.old = {node} /\ log'.olds = {node}
      BY <3>1 DEF Mutation, Log
    <3> QED
      BY <3>2
  <2>5. CASE Call /\ UNCHANGED rows
    BY <1>1, <2>5, CallLeaves DEF OldInv, OldPrecedesSave
  <2>6. CASE AskOld
    <3>1. b.kind = "updateOne" /\ ~ b.asked
      BY <2>6 DEF AskOld
    <3> QED
      BY <1>1, <2>6, <3>1, AskLeaves DEF OldInv
  <2>7. CASE Save
    <3>1. b'.old = b.old
      BY <2>7, SaveKeeps DEF Alike
    <3> QED
      BY <1>1, <2>7, <3>1, SaveLogs, WriteNotes
  <2>8. CASE OtherWrites
    BY <2>8, OthersWrite, WriteNotes
  <2>9. CASE UNCHANGED <<rows, b, log>>
    BY <2>9 DEF OldInv, OldPrecedesSave
  <2> QED
    BY <2>1, <2>2, <2>3, <2>4, <2>5, <2>6, <2>7, <2>8, <2>9 DEF Next, Tick, vars
<1> QED
  BY <1>2 DEF OldInv, OldPrecedesSave, Found

(* What OldX answers is the caller's entity, or a version that the row had *)
(* before a save of this builder was answered: written by another session  *)
(* perhaps, or by a save of the builder whose answer was lost, but never   *)
(* what a save has reported as done (mutation.go:84-110,                   *)
(* team_update.go:901-909).                                                *)
THEOREM OldValuesPrecede == Spec => []OldPrecedesSave
<1>1. Spec => []OldInv
  BY AlwaysTyping, OldInit, OldStep, PTL DEF Spec
<1> QED
  BY <1>1, PTL DEF OldInv

-----------------------------------------------------------------------------
(* What a save writes.                                                     *)

(* The columns of a row that an update assigns: what was set, NULL for     *)
(* what was cleared, and sums.                                             *)
SetTo(m, f) == IF f \in Code.spec[m.kind].set \cup Code.edges THEN m.val[f] ELSE {}
NulledTo(m, f) ==
  IF f \in Code.spec[m.kind].clear \cap m.cleared \/ f \in m.edgeCleared THEN {Null} ELSE {}
SumTo(m, f, old, zero) ==
  IF f \notin Code.spec[m.kind].add THEN {}
  ELSE {IF old # Null THEN old + d ELSE IF zero THEN d ELSE Null : d \in m.add[f]}

LEMMA LeftIs ==
  ASSUME NEW m, NEW f, NEW old, NEW first \in {"set", "clear", "add"}, NEW zero
  PROVE  LET all == SetTo(m, f) \cup NulledTo(m, f) \cup SumTo(m, f, old, zero)
         IN IF all = {} THEN Left(m, f, old, first, zero) = old
            ELSE Left(m, f, old, first, zero) \in all
<1>1. PICK set, clear, add : /\ set = SetTo(m, f) /\ clear = NulledTo(m, f)
                             /\ add = SumTo(m, f, old, zero)
  OBVIOUS
<1> DEFINE a == [set |-> set, clear |-> clear, add |-> add]
           all == set \cup clear \cup add
<1>2. Assigned(m, f, old, zero) = a
  BY <1>1 DEF Assigned, SetTo, NulledTo, SumTo
<1>3. Left(m, f, old, first, zero) =
        IF a[first] # {} THEN CHOOSE v \in a[first] : TRUE
        ELSE IF all # {} THEN CHOOSE v \in all : TRUE ELSE old
  BY <1>2 DEF Left
<1>4. a[first] \subseteq all
  OBVIOUS
<1> HIDE DEF a, all
<1>5. CASE a[first] # {}
  <2>1. Left(m, f, old, first, zero) = CHOOSE v \in a[first] : TRUE
    BY <1>3, <1>5
  <2>2. (CHOOSE v \in a[first] : TRUE) \in a[first]
    BY <1>5
  <2>3. Left(m, f, old, first, zero) \in all /\ all # {}
    BY <1>4, <2>1, <2>2
  <2> QED
    BY <1>1, <2>3 DEF all
<1>6. CASE a[first] = {} /\ all # {}
  <2>1. Left(m, f, old, first, zero) = CHOOSE v \in all : TRUE
    BY <1>3, <1>6
  <2>2. (CHOOSE v \in all : TRUE) \in all
    BY <1>6
  <2> QED
    BY <1>1, <1>6, <2>1, <2>2 DEF all
<1>7. CASE all = {}
  <2>1. Left(m, f, old, first, zero) = old
    BY <1>3, <1>4, <1>7
  <2> QED
    BY <1>1, <1>7, <2>1 DEF all
<1> QED
  BY <1>5, <1>6, <1>7

(* The two ways a save changes the table, column by column.                *)
InsertedFrom(m) ==
  LET new == Len(rows) + 1
  IN /\ m.kind = "create" /\ ~ m.done /\ Len(rows') = new /\ DOMAIN rows' = 1 .. new
     /\ \A i \in DOMAIN rows : rows'[i] = rows[i]
     /\ \A f \in Fields : rows'[new][f] = IF m.val[f] # {} THEN Written(m, f) ELSE Null

ChangedFrom(m) ==
  /\ m.kind \in {"update", "updateOne"} /\ DOMAIN rows' = DOMAIN rows
  /\ \A i \in DOMAIN rows \ Matching(m) : rows'[i] = rows[i]
  /\ \E zero : \A i \in Matching(m), f \in Fields :
       LET all == SetTo(m, f) \cup NulledTo(m, f) \cup SumTo(m, f, rows[i][f], zero)
       IN IF all = {} THEN rows'[i][f] = rows[i][f] ELSE rows'[i][f] \in all

LEMMA SavedRows ==
  ASSUME Typing, Save, event' \in {"saved", "lost"}
  PROVE  LET m == Defaults(b)
         IN Checked(m) /\ Storable(rows') /\ (InsertedFrom(m) \/ ChangedFrom(m))
<1>1. PICK m : m = Defaults(b)
  OBVIOUS
<1>2. Checked(m) /\ (Insert(m) \/ Change(m))
  BY <1>1 DEF Save
<1>3. Storable(rows')
  BY <1>2 DEF Insert, Change
<1>4. CASE Insert(m)
  <2>1. PICK new : new = NewRow(m)
    OBVIOUS
  <2>2. rows' = Append(rows, new) /\ m.kind = "create" /\ ~ m.done
    BY <1>4, <2>1 DEF Insert
  <2>3. \A f \in Fields : new[f] = IF m.val[f] # {} THEN Written(m, f) ELSE Null
    BY <2>1, EveryCode DEF NewRow, Typing, CodeOK, StatementsOK, Fields
  <2>4. rows \in Seq([Fields -> UNION {Column(f) : f \in Fields}])
    BY DEF Typing, RowsOK
  <2>5. /\ Len(rows') = Len(rows) + 1 /\ DOMAIN rows' = 1 .. Len(rows) + 1
        /\ \A i \in DOMAIN rows : rows'[i] = rows[i]
        /\ rows'[Len(rows) + 1] = new
    BY <2>2, <2>4
  <2> QED
    BY <1>1, <1>2, <1>3, <2>2, <2>3, <2>5 DEF InsertedFrom
<1>5. CASE Change(m)
  <2>1. PICK first \in {"set", "clear", "add"}, zero \in BOOLEAN :
          rows' = [i \in DOMAIN rows |->
            IF i \in Matching(m) THEN [f \in Fields |-> Left(m, f, rows[i][f], first, zero)]
            ELSE rows[i]]
    BY <1>5 DEF Change
  <2>2. m.kind \in {"update", "updateOne"} /\ DOMAIN rows' = DOMAIN rows
    BY <1>5, <2>1 DEF Change
  <2>3. \A i \in DOMAIN rows \ Matching(m) : rows'[i] = rows[i]
    BY <2>1
  <2>4. ASSUME NEW i \in Matching(m), NEW f \in Fields
        PROVE  LET all == SetTo(m, f) \cup NulledTo(m, f) \cup SumTo(m, f, rows[i][f], zero)
               IN IF all = {} THEN rows'[i][f] = rows[i][f] ELSE rows'[i][f] \in all
    <3>1. i \in DOMAIN rows
      BY DEF Matching
    <3>2. rows'[i][f] = Left(m, f, rows[i][f], first, zero)
      BY <2>1, <3>1
    <3> QED
      BY <3>2, LeftIs
  <2> QED
    BY <1>1, <1>2, <1>3, <2>2, <2>3, <2>4 DEF ChangedFrom
<1> QED
  BY <1>2, <1>4, <1>5

(* What a check has let through is valid.                                  *)
LEMMA CheckedValid ==
  ASSUME CodeOK(Code), NEW m, BuilderOK(m), Checked(m), m.kind # "none", NEW f \in Fields,
         m.kind # "create" => f \in Code.spec[m.kind].set \cup Code.edges
  PROVE  m.val[f] \subseteq Valid(f)
<1>1. m.val[f] \subseteq Values(f)
  BY DEF BuilderOK, ValueOK
<1>2. CASE f \in DOMAIN Code.validator
  <2>1. CASE m.kind = "create"
    BY <1>2, <2>1 DEF Checked
  <2>2. CASE m.kind \in {"update", "updateOne"}
    <3>1. f \in Code.checks[m.kind]
      BY <1>2, <2>2 DEF CodeOK, ChecksOK
    <3> QED
      BY <2>2, <3>1 DEF Checked
  <2> QED
    BY <2>1, <2>2 DEF BuilderOK
<1> QED
  BY <1>1, <1>2 DEF Valid

-----------------------------------------------------------------------------
(* The schema.                                                             *)

Demanded(f) == Valid(f) \cup (Column(f) \cap {Null})

LEMMA SaveKeepsSchema ==
  ASSUME Typing, SchemaKept, Save, event' \in {"saved", "lost"},
         NEW i \in DOMAIN rows', NEW f \in Fields, f \notin log'.added
  PROVE  rows'[i][f] \in Demanded(f)
<1>1. PICK m : m = Defaults(b)
  OBVIOUS
<1>2. CodeOK(Code) /\ BuilderOK(m)
  BY <1>1, EveryCode, FilledOK DEF Typing
<1>3. Checked(m) /\ Storable(rows') /\ (InsertedFrom(m) \/ ChangedFrom(m))
  BY <1>1, SavedRows
<1>4. f \notin log.added /\ b.add[f] = {}
  BY SaveLogs DEF Typing
<1>5. m.add[f] = {}
  BY <1>1, <1>4, DefaultsFill DEF Typing, BuilderOK
<1>6. rows'[i][f] \in Column(f)
  BY <1>3 DEF Storable
<1>7. m.kind # "none"
  BY <1>3 DEF InsertedFrom, ChangedFrom
<1>8. i \in DOMAIN rows => rows[i][f] \in Demanded(f)
  BY <1>4 DEF SchemaKept, Demanded
<1>9. CASE InsertedFrom(m)
  <2>1. i \in DOMAIN rows \/ i = Len(rows) + 1
    BY <1>9 DEF InsertedFrom, Typing, RowsOK
  <2>2. CASE i \in DOMAIN rows
    BY <1>8, <1>9, <2>2 DEF InsertedFrom
  <2>3. CASE i = Len(rows) + 1 /\ m.val[f] # {}
    <3>1. rows'[i][f] = Written(m, f)
      BY <1>9, <2>3 DEF InsertedFrom
    <3>2. Written(m, f) \in m.val[f]
      BY <2>3 DEF Written
    <3>3. m.val[f] \subseteq Valid(f)
      BY <1>2, <1>3, <1>7, <1>9, CheckedValid DEF InsertedFrom
    <3> QED
      BY <3>1, <3>2, <3>3 DEF Demanded
  <2>4. CASE i = Len(rows) + 1 /\ m.val[f] = {}
    <3>1. rows'[i][f] = Null
      BY <1>9, <2>4 DEF InsertedFrom
    <3> QED
      BY <1>6, <3>1 DEF Demanded
  <2> QED
    BY <2>1, <2>2, <2>3, <2>4
<1>10. CASE ChangedFrom(m)
  <2>1. i \in DOMAIN rows
    BY <1>10 DEF ChangedFrom
  <2>2. CASE i \notin Matching(m)
    BY <1>8, <1>10, <2>1, <2>2 DEF ChangedFrom
  <2>3. CASE i \in Matching(m)
    <3>1. PICK zero :
            LET all == SetTo(m, f) \cup NulledTo(m, f) \cup SumTo(m, f, rows[i][f], zero)
            IN IF all = {} THEN rows'[i][f] = rows[i][f] ELSE rows'[i][f] \in all
      BY <1>10, <2>3 DEF ChangedFrom
    <3>2. SumTo(m, f, rows[i][f], zero) = {}
      BY <1>5 DEF SumTo
    <3>3. \/ rows'[i][f] = rows[i][f] \/ rows'[i][f] \in SetTo(m, f)
          \/ rows'[i][f] \in NulledTo(m, f)
      BY <3>1, <3>2
    <3>4. ASSUME rows'[i][f] \in SetTo(m, f)
          PROVE  rows'[i][f] \in Demanded(f)
      <4>1. f \in Code.spec[m.kind].set \cup Code.edges /\ rows'[i][f] \in m.val[f]
        BY <3>4 DEF SetTo
      <4>2. m.val[f] \subseteq Valid(f)
        BY <1>2, <1>3, <1>7, <4>1, CheckedValid
      <4> QED
        BY <4>1, <4>2 DEF Demanded
    <3>5. ASSUME rows'[i][f] \in NulledTo(m, f)
          PROVE  rows'[i][f] \in Demanded(f)
      BY <1>6, <3>5 DEF NulledTo, Demanded
    <3> QED
      BY <1>8, <2>1, <3>3, <3>4, <3>5
  <2> QED
    BY <2>2, <2>3
<1> QED
  BY <1>3, <1>9, <1>10

LEMMA SchemaInit == Init => SchemaKept
<1> SUFFICES ASSUME Init PROVE SchemaKept
  OBVIOUS
<1>1. CodeOK(Code)
  BY EveryCode DEF Init
<1>2. ASSUME NEW f \in Fields
      PROVE  SampleRow(1, FALSE)[f] \in Demanded(f) /\ SampleRow(2, TRUE)[f] \in Demanded(f)
  <2>1. Sample(f, 1) \in Valid(f) /\ Sample(f, 2) \in Valid(f)
    BY <1>1, SampleValid
  <2> QED
    BY <2>1 DEF SampleRow, Demanded, Column
<1>3. PICK r, s : r = SampleRow(1, FALSE) /\ s = SampleRow(2, TRUE)
  OBVIOUS
<1>4. rows = <<r, s>>
  BY <1>3 DEF Init
<1>5. \A f \in Fields : r[f] \in Demanded(f) /\ s[f] \in Demanded(f)
  BY <1>2, <1>3
<1>6. ASSUME NEW i \in DOMAIN rows, NEW f \in Fields
      PROVE  rows[i][f] \in Demanded(f)
  <2>1. rows[i] = r \/ rows[i] = s
    BY <1>4
  <2> QED
    BY <1>5, <2>1
<1> QED
  BY <1>6 DEF SchemaKept, Demanded

LEMMA SchemaStep == Typing /\ SchemaKept /\ [Next]_vars => SchemaKept'
<1> SUFFICES ASSUME Typing, SchemaKept, [Next]_vars PROVE SchemaKept'
  OBVIOUS
<1>1. Code' = Code
  BY SameCode DEF Next, vars
<1>2. \A i \in DOMAIN rows', f \in Fields : f \in log'.added \/ rows'[i][f] \in Demanded(f)
  <2>1. CASE Save /\ event' \in {"saved", "lost"}
    BY <2>1, SaveKeepsSchema
  <2>2. CASE UNCHANGED rows /\ log.added \subseteq log'.added
    BY <2>2 DEF SchemaKept, Demanded
  <2>3. CASE Save /\ event' \notin {"saved", "lost"}
    <3>1. UNCHANGED rows
      BY <2>3 DEF Save
    <3>2. log.added \subseteq log'.added
      BY <2>3, SaveLogs DEF Typing
    <3> QED
      BY <2>2, <3>1, <3>2
  <2>4. CASE UNCHANGED rows /\ (Create \/ Update \/ UpdateOneID \/ UpdateOne \/ Drop)
    <3>1. ASSUME Update \/ UpdateOneID \/ UpdateOne \/ Drop
          PROVE  log'.added = log.added
      <4>1. \E olds : log' = Log(log.calls, log.added, olds)
        BY <3>1 DEF Update, UpdateOneID, UpdateOne, Drop
      <4> QED
        BY <4>1 DEF Log
    <3>2. ASSUME Create
          PROVE  log'.added = log.added
      <4>1. PICK want : log' = [Log(log.calls, log.added, {}) EXCEPT !.want = want]
        BY <3>2 DEF Create
      <4> QED
        BY <4>1 DEF Log
    <3> QED
      BY <2>2, <2>4, <3>1, <3>2
  <2>5. CASE UNCHANGED rows /\ Call
    BY <2>2, <2>5, TypingReady, CallLeaves
  <2>6. CASE UNCHANGED rows /\ UNCHANGED log
    BY <2>2, <2>6
  <2>7. CASE UNCHANGED rows /\ AskOld
    BY <2>2, <2>7, AskLeaves DEF Typing, BuilderOK
  <2>8. CASE OtherWrites
    BY <2>8, OthersWrite DEF SchemaKept, Demanded
  <2> QED
    BY <2>1, <2>3, <2>4, <2>5, <2>6, <2>7, <2>8 DEF Next, Tick, vars
<1> QED
  BY <1>1, <1>2 DEF SchemaKept, Demanded, Valid, Column, Fields, Values, Has

(* Whatever is set, added, cleared and reset, in whatever order, and saved *)
(* again after a failure, rows satisfy the schema but in columns that AddX *)
(* touched: the check of an update covers every column it can assign that  *)
(* has a validator, and nothing checks a sum (team_update.go:286,          *)
(* user_update.go:386).                                                    *)
THEOREM SchemaIsKept == Spec => []SchemaKept
BY AlwaysTyping, SchemaInit, SchemaStep, PTL DEF Spec

-----------------------------------------------------------------------------
(* What was called decides what is written.                                *)

(* A field that no call has set holds nothing, or what an earlier save,    *)
(* which failed, has filled in.                                            *)
Filled(f, m, l, now) ==
  \/ m.val[f] = {}
  \/ /\ l.tried
     /\ \E t \in 0 .. now : f \in DOMAIN Supply(m.kind, t) /\ m.val[f] = {Supply(m.kind, t)[f]}

Emptied(f, m) == Has(f, "clear") /\ f \in m.cleared

(* The mutation holds of a field what its last call asked for.             *)
FollowsSet(f, m, l) ==
  LET w == l.want[f]
  IN /\ w.how = "set" /\ m.val[f] = w.val /\ m.add[f] = {} /\ ~ Emptied(f, m)
     /\ \E v \in Values(f) : w.val = {v}
FollowsKeep(f, m, l, now) ==
  l.want[f].how = "keep" /\ Filled(f, m, l, now) /\ m.add[f] = {} /\ ~ Emptied(f, m)
FollowsNull(f, m, l, now) ==
  /\ l.want[f].how = "null" /\ Filled(f, m, l, now) /\ m.add[f] = {}
  /\ Emptied(f, m) \/ f \in m.edgeCleared
FollowsAdd(f, m, l) ==
  LET w == l.want[f]
  IN /\ w.how = "add" /\ m.val[f] = {} /\ m.add[f] = w.val /\ ~ Emptied(f, m)
     /\ f \in Code[m.kind].add /\ \E n \in w.val : n \in Nat /\ w.val = {n}

Follows(f, m, l, now) ==
  \/ FollowsSet(f, m, l) \/ FollowsKeep(f, m, l, now)
  \/ FollowsNull(f, m, l, now) \/ FollowsAdd(f, m, l)

(* A field that a predicate has compared does not hold NULL where the      *)
(* predicate holds.                                                        *)
Tested(f, m) == \E p \in m.preds : p.field = f /\ Null \notin p.accepts

CallsOK(m, l, now) ==
  m.kind # "none" =>
    /\ \A f \in Fields \ l.clash : Follows(f, m, l, now)
    /\ \A f \in l.tested : Tested(f, m)

CallsInv == CallsOK(b, log, clock)

(* Fields are followed as before where nothing of them has changed.        *)
LEMMA FollowsOn ==
  ASSUME NEW m, NEW n, NEW l, NEW k, NEW now, NEW g, Follows(g, m, l, now),
         n.kind = m.kind, n.val[g] = m.val[g], n.add[g] = m.add[g],
         g \in n.cleared <=> g \in m.cleared, g \in n.edgeCleared <=> g \in m.edgeCleared,
         k.want[g] = l.want[g], k.tried = l.tried
  PROVE  Follows(g, n, k, now)
<1>1. Filled(g, m, l, now) => Filled(g, n, k, now)
  BY DEF Filled
<1>2. Emptied(g, m) <=> Emptied(g, n)
  BY DEF Emptied
<1>3. CASE FollowsSet(g, m, l)
  BY <1>2, <1>3 DEF Follows, FollowsSet
<1>4. CASE FollowsKeep(g, m, l, now)
  BY <1>1, <1>2, <1>4 DEF Follows, FollowsKeep
<1>5. CASE FollowsNull(g, m, l, now)
  BY <1>1, <1>2, <1>5 DEF Follows, FollowsNull
<1>6. CASE FollowsAdd(g, m, l)
  BY <1>2, <1>6 DEF Follows, FollowsAdd
<1> QED
  BY <1>3, <1>4, <1>5, <1>6 DEF Follows

(* What is special of an edge, of a number, and of the defaults.           *)
LEMMA RefreshDomain ==
  ASSUME CodeOK(Code), NEW t \in 0 .. MaxClock
  PROVE  /\ DOMAIN Code.refresh[t] = {"update_time"} /\ Code.refresh[t]["update_time"] = t
         /\ "update_time" \in Fields
<1>1. Code.refresh[t] = [update_time |-> t] /\ "update_time" \in Fields
  BY DEF CodeOK, ClocksOK, Fields
<1> QED
  BY <1>1

LEMMA EdgeFacts ==
  ASSUME CodeOK(Code), NEW f \in Code.edges
  PROVE  /\ f \in Fields /\ ~ Has(f, "clear") /\ ~ Has(f, "add")
         /\ \A t \in 0 .. MaxClock : f \notin DOMAIN Code.refresh[t]
<1>1. f \in Fields /\ Code.fields[f] = Key
  BY DEF CodeOK, StatementsOK, Fields
<1>2. "clear" \notin Key.methods /\ "add" \notin Key.methods /\ Key # Time
  BY DEF Key, Time
<1>3. \A t \in 0 .. MaxClock : DOMAIN Code.refresh[t] = {"update_time"}
  BY RefreshDomain
<1>4. f # "update_time"
  BY <1>1, <1>2 DEF CodeOK, ClocksOK
<1> QED
  BY <1>1, <1>2, <1>3, <1>4 DEF Has

LEMMA NumberFacts ==
  ASSUME CodeOK(Code), NEW kind \in {"create", "update", "updateOne"},
         NEW f \in Fields, f \in Code[kind].add
  PROVE  /\ kind \in {"update", "updateOne"} /\ f \in Code.spec[kind].add
         /\ \A t \in 0 .. MaxClock : f \notin DOMAIN Code.refresh[t]
<1>1. Code.fields[f].kind = "number"
  BY DEF CodeOK, AddsOK, Fields
<1>2. f # "update_time"
  BY <1>1, KindOf DEF CodeOK, ClocksOK
<1>3. kind # "create" /\ f \in Code.spec[kind].add
  BY DEF CodeOK, StatementsOK
<1> QED
  BY <1>2, <1>3, RefreshDomain

LEMMA RefreshFacts ==
  ASSUME CodeOK(Code)
  PROVE  ~ Has("update_time", "clear") /\ "update_time" \notin Code.edges
<1>1. Code.fields["update_time"] = Time /\ "clear" \notin Time.methods
  BY ClearMethods DEF CodeOK, ClocksOK
<1>2. 0 \in 0 .. MaxClock
  BY FieldAssumption
<1> QED
  BY <1>1, <1>2, RefreshDomain, EdgeFacts DEF Has

LEMMA AutoFacts ==
  ASSUME CodeOK(Code), NEW kind \in {"create", "update", "updateOne"},
         NEW s \in 0 .. MaxClock, NEW t \in 0 .. MaxClock, NEW f \in DOMAIN Supply(kind, s)
  PROVE  f \in DOMAIN Supply(kind, t) /\ f \in Fields
<1>1. CASE kind = "create"
  <2>1. f \in DOMAIN Code.defaults[s]
    BY <1>1 DEF Supply
  <2>2. f \in DOMAIN Code.defaults[t]
    BY <2>1 DEF CodeOK, ClocksOK
  <2>3. f \in Fields
    BY <2>1 DEF CodeOK, DefaultsOK, Fields
  <2> QED
    BY <1>1, <2>2, <2>3 DEF Supply
<1>2. CASE kind # "create"
  BY <1>2, RefreshDomain DEF Supply
<1> QED
  BY <1>1, <1>2

(* A call on a field leaves what other fields hold.                        *)
LEMMA OthersFollow ==
  ASSUME CallsInv, b.kind # "none", NEW f \in Fields, NEW val, NEW add, NEW cleared, NEW edges,
         NEW how, NEW want, NEW clash,
         Touched(b, b', f, val, add, cleared, edges), Noted(log, log', f, how, want, clash),
         cleared \ {f} = b.cleared \ {f}, edges \ {f} = b.edgeCleared \ {f},
         clash \ {f} = log.clash \ {f}, f \in clash \/ Follows(f, b', log', clock)
  PROVE  CallsOK(b', log', clock)
<1>1. ASSUME NEW g \in Fields \ log'.clash
      PROVE  Follows(g, b', log', clock)
  <2>1. CASE g = f
    BY <1>1, <2>1 DEF Noted
  <2>2. CASE g # f
    <3>1. Follows(g, b, log, clock)
      BY <1>1, <2>2 DEF Noted, CallsInv, CallsOK
    <3>2. /\ b'.kind = b.kind /\ b'.val[g] = b.val[g] /\ b'.add[g] = b.add[g]
          /\ b'.cleared = cleared /\ b'.edgeCleared = edges
          /\ log'.want[g] = log.want[g] /\ log'.tried = log.tried
      BY <1>1, <2>2 DEF Touched, Alike, Noted
    <3>3. g \in cleared <=> g \in b.cleared
      BY <2>2
    <3>4. g \in edges <=> g \in b.edgeCleared
      BY <2>2
    <3> QED
      BY <3>1, <3>2, <3>3, <3>4, FollowsOn
  <2> QED
    BY <2>1, <2>2
<1>2. \A g \in log'.tested : Tested(g, b')
  BY DEF CallsInv, CallsOK, Tested, Touched, Alike, Noted
<1> QED
  BY <1>1, <1>2 DEF CallsOK

LEMMA CallFollows ==
  ASSUME Typing, CallsInv, Call
  PROVE  CallsOK(b', log', clock)
<1>1. CodeOK(Code) /\ Ready /\ BuilderOK(b)
  BY TypingReady DEF Ready, Typing
<1>2. b.kind \in {"create", "update", "updateOne"} /\ b.kind # "none"
  BY <1>1 DEF Call, BuilderOK
<1>3. PICK f \in Fields :
        \/ \E v \in Values(f) : SetCalled(f, v)
        \/ AddCalled(f) \/ EmptiedCalled(f) \/ EdgeCalled(f) \/ WhereCalled(f)
  BY <1>1, CallDoes
<1>4. f \in Code.edges => ~ Has(f, "clear") /\ ~ Has(f, "add")
  BY <1>1, EdgeFacts
<1>5. f \notin log.clash => Follows(f, b, log, clock)
  BY <1>2 DEF CallsInv, CallsOK
<1>6. ASSUME NEW v \in Values(f), SetCalled(f, v)
      PROVE  CallsOK(b', log', clock)
  <2>1. PICK cleared, clash :
          /\ Touched(b, b', f, {v}, {}, cleared, b.edgeCleared)
          /\ Noted(log, log', f, "set", {v}, clash)
          /\ cleared \ {f} = b.cleared \ {f} /\ cleared \subseteq b.cleared
          /\ clash \ {f} = log.clash \ {f}
          /\ f \notin clash => \/ f \notin cleared \/ f \in Code.edges
                               \/ f \notin log.clash /\ log.want[f].how # "null"
    BY <1>6 DEF SetCalled
  <2>2. ASSUME f \notin clash
        PROVE  ~ Emptied(f, b')
    <3>1. b'.cleared = cleared
      BY <2>1 DEF Touched
    <3>2. CASE f \notin cleared \/ f \in Code.edges
      BY <1>4, <3>1, <3>2 DEF Emptied
    <3>3. CASE f \notin log.clash /\ log.want[f].how # "null"
      <4>1. ~ Emptied(f, b)
        BY <1>5, <3>3 DEF Follows, FollowsSet, FollowsKeep, FollowsNull, FollowsAdd
      <4> QED
        BY <2>1, <3>1, <4>1 DEF Emptied
    <3> QED
      BY <2>1, <2>2, <3>2, <3>3
  <2>3. f \notin clash => FollowsSet(f, b', log')
    BY <2>1, <2>2 DEF FollowsSet, Touched, Noted
  <2>4. f \in clash \/ Follows(f, b', log', clock)
    BY <2>3 DEF Follows
  <2> QED
    BY <1>2, <2>1, <2>4, OthersFollow
<1>7. CASE AddCalled(f)
  <2> DEFINE sum == IF b.add[f] = {} THEN {1} ELSE {x + 1 : x \in b.add[f]}
  <2>1. PICK val, clash :
          /\ Touched(b, b', f, b.val[f], sum, b.cleared, b.edgeCleared)
          /\ Noted(log, log', f, "add", val, clash) /\ clash \ {f} = log.clash \ {f}
          /\ f \notin clash =>
               /\ f \notin log.clash
               /\ \/ log.want[f].how = "keep" /\ val = {1}
                  \/ log.want[f].how = "add" /\ val = {x + 1 : x \in log.want[f].val}
    BY <1>7 DEF AddCalled
  <2>2. f \in Code[b.kind].add
    BY <1>7 DEF AddCalled
  <2>3. /\ b.kind \in {"update", "updateOne"}
        /\ \A t \in 0 .. MaxClock : f \notin DOMAIN Code.refresh[t]
    BY <1>1, <1>2, <2>2, NumberFacts
  <2>4. ASSUME f \notin clash
        PROVE  FollowsAdd(f, b', log')
    <3>1. /\ b'.kind = b.kind /\ b'.cleared = b.cleared /\ b'.val[f] = b.val[f] /\ b'.add[f] = sum
          /\ log'.want[f].how = "add" /\ log'.want[f].val = val
      BY <2>1 DEF Touched, Alike, Noted
    <3>2. CASE FollowsKeep(f, b, log, clock)
      <4>1. b.val[f] = {}
        <5>1. \A t \in 0 .. clock : f \notin DOMAIN Supply(b.kind, t)
          BY <2>3, FieldAssumption DEF Supply, Typing
        <5> QED
          BY <3>2, <5>1 DEF FollowsKeep, Filled
      <4>2. b.add[f] = {} /\ ~ Emptied(f, b) /\ log.want[f].how = "keep"
        BY <3>2 DEF FollowsKeep
      <4>3. sum = {1} /\ val = {1}
        BY <2>1, <2>4, <4>2
      <4> HIDE DEF sum
      <4> QED
        BY <2>2, <3>1, <4>1, <4>2, <4>3 DEF FollowsAdd, Emptied
    <3>3. CASE FollowsAdd(f, b, log)
      <4>1. PICK n \in Nat : b.add[f] = {n} /\ log.want[f].val = {n}
        BY <3>3 DEF FollowsAdd
      <4>2. b.val[f] = {} /\ ~ Emptied(f, b) /\ log.want[f].how = "add"
        BY <3>3 DEF FollowsAdd
      <4>3. val = {x + 1 : x \in {n}}
        BY <2>1, <2>4, <4>1, <4>2
      <4>4. sum = {n + 1} /\ val = {n + 1} /\ n + 1 \in Nat
        BY <4>1, <4>3
      <4> HIDE DEF sum
      <4> QED
        BY <2>2, <3>1, <4>2, <4>4 DEF FollowsAdd, Emptied
    <3> QED
      BY <1>5, <2>1, <2>4, <3>2, <3>3 DEF Follows, FollowsSet, FollowsNull
  <2>5. f \in clash \/ Follows(f, b', log', clock)
    BY <2>4 DEF Follows
  <2> HIDE DEF sum
  <2> QED
    BY <1>2, <2>1, <2>5, OthersFollow
<1>8. CASE EmptiedCalled(f)
  <2>1. PICK cleared, how :
          /\ Touched(b, b', f, {}, {}, cleared, b.edgeCleared)
          /\ Noted(log, log', f, how, {}, log.clash \ {f})
          /\ cleared \ {f} = b.cleared \ {f}
          /\ \/ how = "null" /\ Has(f, "clear") /\ f \in cleared
             \/ how = "keep" /\ (f \notin cleared \/ f \in Code.edges)
    BY <1>8 DEF EmptiedCalled
  <2>2. Follows(f, b', log', clock)
    BY <1>4, <2>1 DEF Follows, FollowsKeep, FollowsNull, Filled, Emptied, Touched, Noted
  <2>3. (log.clash \ {f}) \ {f} = log.clash \ {f}
    OBVIOUS
  <2> QED
    BY <1>2, <2>1, <2>2, <2>3, OthersFollow
<1>9. CASE EdgeCalled(f)
  <2>1. PICK val, cleared, edges, how, clash :
          /\ Touched(b, b', f, val, b.add[f], cleared, edges)
          /\ Noted(log, log', f, how, {}, clash)
          /\ cleared \ {f} = b.cleared \ {f} /\ edges \ {f} = b.edgeCleared \ {f}
          /\ clash \ {f} = log.clash \ {f}
          /\ \/ how = "null" /\ f \in edges /\ (f \notin clash => val = {})
             \/ how = "keep" /\ val = {}
    BY <1>9 DEF EdgeCalled
  <2>2. ~ Has(f, "clear") /\ b.add[f] = {}
    BY <1>1, <1>4, <1>9 DEF EdgeCalled, BuilderOK, AddOK
  <2>3. f \in clash \/ Follows(f, b', log', clock)
    BY <2>1, <2>2 DEF Follows, FollowsKeep, FollowsNull, Filled, Emptied, Touched, Noted
  <2> QED
    BY <1>2, <2>1, <2>3, OthersFollow
<1>10. CASE WhereCalled(f)
  <2>1. PICK p \in Predicates(f) :
          /\ b'.preds = b.preds \cup {p} /\ b'.kind = b.kind /\ b'.val = b.val
          /\ b'.add = b.add /\ b'.cleared = b.cleared /\ b'.edgeCleared = b.edgeCleared
          /\ log'.want = log.want /\ log'.clash = log.clash /\ log'.tried = log.tried
          /\ log'.tested = IF p.nil THEN log.tested ELSE log.tested \cup {f}
    BY <1>10 DEF WhereCalled
  <2>2. \A g \in Fields \ log'.clash : Follows(g, b', log', clock)
    <3> TAKE g \in Fields \ log'.clash
    <3>1. Follows(g, b, log, clock)
      BY <1>2, <2>1 DEF CallsInv, CallsOK
    <3> QED
      BY <2>1, <3>1, FollowsOn
  <2>3. \A g \in log'.tested : Tested(g, b')
    BY <1>1, <1>2, <2>1, PredicatesOK DEF CallsInv, CallsOK, Tested
  <2> QED
    BY <2>2, <2>3 DEF CallsOK
<1> QED
  BY <1>3, <1>6, <1>7, <1>8, <1>9, <1>10

LEMMA CallsInit == Init => CallsInv
BY DEF Init, CallsInv, CallsOK, Mutation

(* A builder nobody has called follows.                                    *)
LEMMA FreshFollows ==
  ASSUME NEW kind, NEW id, NEW old, NEW calls, NEW added, NEW olds, NEW now, NEW m, NEW l,
         \/ m = Mutation(kind, id)
         \/ m = [Mutation(kind, id) EXCEPT !.asked = TRUE, !.old = old],
         l = Log(calls, added, olds)
  PROVE  CallsOK(m, l, now)
<1>1. /\ \A f \in Fields : m.val[f] = {} /\ m.add[f] = {}
      /\ m.cleared = {}
  <2>1. CASE m = Mutation(kind, id)
    BY <2>1 DEF Mutation
  <2>2. CASE m = [Mutation(kind, id) EXCEPT !.asked = TRUE, !.old = old]
    BY <2>2 DEF Mutation
  <2> QED
    BY <2>1, <2>2
<1>2. /\ \A f \in Fields : l.want[f].how = "keep"
      /\ l.tested = {}
  BY DEF Log, Keep
<1>3. \A f \in Fields : FollowsKeep(f, m, l, now)
  BY <1>1, <1>2 DEF FollowsKeep, Filled, Emptied
<1> QED
  BY <1>2, <1>3 DEF CallsOK, Follows

LEMMA CreateFollows ==
  ASSUME Typing, Create
  PROVE  CallsOK(b', log', clock)
<1> DEFINE given == Code.requires \ (focus \cup DOMAIN Code.defaults[clock])
           val == [f \in Fields |-> IF f \in given THEN {Sample(f, 3)} ELSE {}]
           want == [f \in Fields |-> IF f \in given THEN [how |-> "set", val |-> {Sample(f, 3)}]
                                     ELSE Keep]
<1>1. CodeOK(Code)
  BY EveryCode DEF Typing
<1>2. \A f \in Fields : Sample(f, 3) \in Values(f)
  BY <1>1, SampleValid, FieldFacts
<1>3. /\ b' = [Mutation("create", 0) EXCEPT !.val = val]
      /\ log' = [Log(log.calls, log.added, {}) EXCEPT !.want = want]
  BY DEF Create
<1>4. \A f \in Fields :
        \/ /\ want[f].how = "set" /\ want[f].val = val[f] /\ \E v \in Values(f) : val[f] = {v}
        \/ want[f].how = "keep" /\ val[f] = {}
  BY <1>2 DEF Keep
<1> HIDE DEF val, want
<1>5. /\ b'.val = val /\ b'.cleared = {} /\ \A f \in Fields : b'.add[f] = {}
      /\ log'.want = want /\ log'.tested = {}
  BY <1>3 DEF Mutation, Log
<1>6. ASSUME NEW f \in Fields
      PROVE  Follows(f, b', log', clock)
  <2>1. ~ Emptied(f, b') /\ b'.add[f] = {}
    BY <1>5 DEF Emptied
  <2>2. CASE /\ want[f].how = "set" /\ want[f].val = val[f] /\ \E v \in Values(f) : val[f] = {v}
    BY <1>5, <2>1, <2>2 DEF Follows, FollowsSet
  <2>3. CASE want[f].how = "keep" /\ val[f] = {}
    BY <1>5, <2>1, <2>3 DEF Follows, FollowsKeep, Filled
  <2> QED
    BY <1>4, <2>2, <2>3
<1> QED
  BY <1>5, <1>6 DEF CallsOK

(* What a save fills in is followed: the field was not set.                *)
LEMMA FillFollows ==
  ASSUME Typing, CallsInv, Save
  PROVE  CallsOK(b', log', clock)
<1>1. PICK m : m = Defaults(b)
  OBVIOUS
<1>2. CodeOK(Code) /\ BuilderOK(b)
  BY EveryCode DEF Typing
<1>3. /\ Alike(b, m) /\ m.cleared = b.cleared /\ m.edgeCleared = b.edgeCleared
      /\ \A f \in Fields :
           /\ m.val[f] = IF Fills(b, f) THEN {Supply(b.kind, clock)[f]} ELSE b.val[f]
           /\ m.add[f] = IF Fills(b, f) THEN {} ELSE b.add[f]
  BY <1>1, <1>2, DefaultsFill DEF BuilderOK
<1>4. /\ b'.kind = m.kind /\ b'.preds = m.preds /\ b'.val = m.val /\ b'.add = m.add
      /\ b'.cleared = m.cleared /\ b'.edgeCleared = m.edgeCleared
  BY <1>1, SaveKeeps
<1>5. b.kind # "none" /\ b.kind \in {"create", "update", "updateOne"}
  BY <1>2 DEF Save, BuilderOK
<1>6. /\ log'.want = log.want /\ log'.clash = log.clash /\ log'.tested = log.tested
      /\ log'.tried = TRUE
  BY SaveLogs DEF Typing
<1>7. clock \in 0 .. clock /\ clock \in 0 .. MaxClock
  BY FieldAssumption DEF Typing
<1>8. ASSUME NEW f \in Fields \ log.clash
      PROVE  Follows(f, b', log', clock)
  <2>1. Follows(f, b, log, clock)
    BY <1>5 DEF CallsInv, CallsOK
  <2>2. Emptied(f, b') <=> Emptied(f, b)
    BY <1>3, <1>4 DEF Emptied
  <2>3. Filled(f, b, log, clock) => Filled(f, b', log', clock)
    <3>1. CASE Fills(b, f)
      <4>1. f \in DOMAIN Supply(b.kind, clock) /\ b'.val[f] = {Supply(b.kind, clock)[f]}
        BY <1>3, <1>4, <3>1 DEF Fills
      <4>2. b'.kind = b.kind
        BY <1>3, <1>4 DEF Alike
      <4> QED
        BY <1>6, <1>7, <4>1, <4>2 DEF Filled
    <3>2. CASE ~ Fills(b, f)
      <4>1. b'.kind = b.kind /\ b'.val[f] = b.val[f]
        BY <1>3, <1>4, <3>2 DEF Alike
      <4> QED
        BY <1>6, <4>1 DEF Filled
    <3> QED
      BY <3>1, <3>2
  <2>4. b.add[f] = {} => b'.add[f] = {}
    BY <1>3, <1>4
  <2>5. CASE FollowsSet(f, b, log)
    <3>1. b'.val[f] = b.val[f]
      BY <1>3, <1>4, <2>5 DEF FollowsSet, Fills
    <3> QED
      BY <1>6, <2>2, <2>4, <2>5, <3>1 DEF FollowsSet, Follows
  <2>6. CASE FollowsKeep(f, b, log, clock)
    BY <1>6, <2>2, <2>3, <2>4, <2>6 DEF FollowsKeep, Follows
  <2>7. CASE FollowsNull(f, b, log, clock)
    BY <1>3, <1>4, <1>6, <2>2, <2>3, <2>4, <2>7 DEF FollowsNull, Follows
  <2>8. CASE FollowsAdd(f, b, log)
    <3>1. f \in Code[b.kind].add
      BY <2>8 DEF FollowsAdd
    <3>2. ~ Fills(b, f)
      BY <1>2, <1>5, <1>7, <3>1, NumberFacts DEF Fills, Supply
    <3>3. b'.val[f] = b.val[f] /\ b'.add[f] = b.add[f] /\ b'.kind = b.kind
      BY <1>3, <1>4, <3>2 DEF Alike
    <3> QED
      BY <1>6, <2>2, <2>8, <3>3 DEF FollowsAdd, Follows
  <2> QED
    BY <2>1, <2>5, <2>6, <2>7, <2>8 DEF Follows
<1>9. \A f \in log.tested : Tested(f, b')
  BY <1>3, <1>4, <1>5 DEF CallsInv, CallsOK, Tested, Alike
<1> QED
  BY <1>6, <1>8, <1>9 DEF CallsOK

(* Time only adds to what an earlier save may have filled in.              *)
LEMMA TickFollows ==
  ASSUME Typing, CallsInv, Tick
  PROVE  CallsOK(b', log', clock')
<1>1. UNCHANGED <<b, log>> /\ \A t \in 0 .. clock : t \in 0 .. clock'
  BY FieldAssumption DEF Tick, Typing
<1>2. \A f : Filled(f, b, log, clock) => Filled(f, b, log, clock')
  BY <1>1 DEF Filled
<1>3. \A f : Follows(f, b, log, clock) => Follows(f, b, log, clock')
  BY <1>2 DEF Follows, FollowsKeep, FollowsNull
<1> QED
  BY <1>1, <1>3 DEF CallsInv, CallsOK

LEMMA CallsStep == Typing /\ CallsInv /\ [Next]_vars => CallsInv'
<1> SUFFICES ASSUME Typing, CallsInv, [Next]_vars PROVE CallsInv'
  OBVIOUS
<1>1. Code' = Code
  BY SameCode DEF Next, vars
<1>2. CallsOK(b', log', clock')
  <2>1. CASE Create /\ UNCHANGED clock
    BY <2>1, CreateFollows
  <2>2. CASE Update \/ Drop
    BY <2>2, FreshFollows DEF Update, Drop
  <2>3. CASE UpdateOneID \/ UpdateOne
    <3>1. PICK id, old, olds :
            /\ \/ b' = Mutation("updateOne", id)
               \/ b' = [Mutation("updateOne", id) EXCEPT !.asked = TRUE, !.old = old]
            /\ log' = Log(log.calls, log.added, olds)
      BY <2>3 DEF UpdateOneID, UpdateOne
    <3> QED
      BY <3>1, FreshFollows
  <2>4. CASE Call /\ UNCHANGED clock
    BY <2>4, CallFollows
  <2>5. CASE (AskOld \/ OtherWrites) /\ UNCHANGED clock
    <3>1. Shape(b) /\ LogShape(log)
      BY DEF Typing, BuilderOK
    <3>2. /\ b'.kind = b.kind /\ b'.preds = b.preds /\ b'.val = b.val /\ b'.add = b.add
          /\ b'.cleared = b.cleared /\ b'.edgeCleared = b.edgeCleared
          /\ log'.want = log.want /\ log'.clash = log.clash /\ log'.tested = log.tested
          /\ log'.tried = log.tried
      BY <2>5, <3>1, AskLeaves, OthersWrite
    <3>3. ASSUME b.kind # "none", NEW f \in Fields \ log.clash
          PROVE  Follows(f, b', log', clock)
      <4>1. Follows(f, b, log, clock)
        BY <3>3 DEF CallsInv, CallsOK
      <4> QED
        BY <3>2, <4>1, FollowsOn
    <3>4. ASSUME b.kind # "none", NEW f \in log.tested
          PROVE  Tested(f, b')
      BY <3>2, <3>4 DEF CallsInv, CallsOK, Tested
    <3> QED
      BY <2>5, <3>2, <3>3, <3>4 DEF CallsOK
  <2>6. CASE Save /\ UNCHANGED clock
    BY <2>6, FillFollows
  <2>7. CASE Tick
    BY <2>7, TickFollows
  <2>8. CASE UNCHANGED vars
    BY <2>8 DEF vars, CallsInv
  <2> QED
    BY <2>1, <2>2, <2>3, <2>4, <2>5, <2>6, <2>7, <2>8 DEF Next
<1> QED
  BY <1>1, <1>2
     DEF CallsInv, CallsOK, Follows, FollowsSet, FollowsKeep, FollowsNull, FollowsAdd, Filled,
         Emptied, Tested, Supply, Fields, Values, Has

LEMMA AlwaysCalls == Spec => []CallsInv
BY AlwaysTyping, CallsInit, CallsStep, PTL DEF Spec

(* An update that was let through does to a column what was meant.         *)
LEMMA UpdateMeant ==
  ASSUME Typing, CallsInv, Save, event' \in {"saved", "lost"}, b.kind # "create",
         NEW f \in Fields \ log.clash,
         NEW i \in Matching(b)
  PROVE  rows'[i][f] \in Meant(f, rows[i][f])
<1>1. PICK m : m = Defaults(b)
  OBVIOUS
<1>2. CodeOK(Code) /\ BuilderOK(b) /\ f \in Fields
  BY EveryCode DEF Typing
<1>3. /\ Alike(b, m) /\ m.cleared = b.cleared /\ m.edgeCleared = b.edgeCleared
      /\ m.val[f] = IF Fills(b, f) THEN {Supply(b.kind, clock)[f]} ELSE b.val[f]
      /\ m.add[f] = IF Fills(b, f) THEN {} ELSE b.add[f]
  BY <1>1, <1>2, DefaultsFill DEF BuilderOK
<1>4. m.kind = b.kind /\ b.kind \in {"update", "updateOne"}
  BY <1>2, <1>3 DEF Save, BuilderOK, Alike
<1>5. Checked(m) /\ Storable(rows') /\ ChangedFrom(m)
  BY <1>1, <1>4, SavedRows DEF InsertedFrom
<1>6. i \in Matching(m) /\ i \in DOMAIN rows /\ i \in DOMAIN rows'
  BY <1>3, <1>5 DEF Matching, Alike, ChangedFrom
<1>7. PICK zero :
        LET all == SetTo(m, f) \cup NulledTo(m, f) \cup SumTo(m, f, rows[i][f], zero)
        IN IF all = {} THEN rows'[i][f] = rows[i][f] ELSE rows'[i][f] \in all
  BY <1>2, <1>5, <1>6 DEF ChangedFrom
<1>8. rows'[i][f] \in Column(f)
  BY <1>2, <1>5, <1>6 DEF Storable
<1>9. Follows(f, b, log, clock)
  BY <1>4 DEF CallsInv, CallsOK
(* A column whose edge is cleared cannot be stored.                        *)
<1>10. ~ Emptied(f, b) => NulledTo(m, f) = {} \/ (f \in Code.edges /\ NulledTo(m, f) = {Null})
  <2>1. f \in Code.spec[m.kind].clear => Has(f, "clear")
    BY <1>2, <1>4 DEF CodeOK, StatementsOK, Has
  <2> QED
    BY <1>2, <1>3, <2>1 DEF NulledTo, Emptied, BuilderOK
<1>11. f \in Code.edges => rows'[i][f] # Null
  BY <1>2, <1>8, EdgeFacts, FieldFacts DEF Column
<1>12. f \in Code.edges /\ NulledTo(m, f) # {} => m.val[f] = {}
  <2>1. f \in Code.edges => ~ Has(f, "clear")
    BY <1>2, EdgeFacts
  <2>2. f \in Code.spec[m.kind].clear => Has(f, "clear")
    BY <1>2, <1>4 DEF CodeOK, StatementsOK, Has
  <2>3. f \in Code.edges /\ NulledTo(m, f) # {} => f \in m.edgeCleared
    BY <2>1, <2>2 DEF NulledTo
  <2> QED
    BY <1>4, <1>5, <2>3 DEF Checked
<1>13. f \notin Code.immutable => SetTo(m, f) = m.val[f]
  BY <1>2, <1>4 DEF SetTo, CodeOK, StatementsOK, Fields
<1>14. CASE f \in Code.immutable
  <2>1. /\ f \notin Code.spec[m.kind].set /\ f \notin Code.edges
        /\ f \notin Code.spec[m.kind].clear /\ f \notin Code.spec[m.kind].add
    BY <1>2, <1>4, <1>14 DEF CodeOK, StatementsOK
  <2>2. SetTo(m, f) = {} /\ NulledTo(m, f) = {} /\ SumTo(m, f, rows[i][f], zero) = {}
    BY <1>2, <1>3, <2>1 DEF SetTo, NulledTo, SumTo, BuilderOK
  <2>3. rows'[i][f] = rows[i][f]
    BY <1>7, <2>2
  <2> QED
    BY <1>14, <2>3 DEF Meant
<1>15. f \in DOMAIN Code.refresh[clock] <=> f = "update_time"
  BY <1>2, RefreshDomain DEF Typing
<1>16. ASSUME f # "update_time"
       PROVE  /\ m.val[f] = b.val[f] /\ m.add[f] = b.add[f]
              /\ Filled(f, b, log, clock) => b.val[f] = {}
  <2>1. \A t \in 0 .. clock : f \notin DOMAIN Supply(b.kind, t)
    <3>1. \A t \in 0 .. clock : t \in 0 .. MaxClock
      BY FieldAssumption DEF Typing
    <3> QED
      BY <1>2, <1>4, <1>16, <3>1, RefreshDomain DEF Supply
  <2>2. clock \in 0 .. clock
    BY FieldAssumption DEF Typing
  <2> QED
    BY <1>3, <2>1, <2>2 DEF Fills, Filled
<1>17. CASE f \notin Code.immutable /\ FollowsSet(f, b, log)
  <2>1. m.val[f] = log.want[f].val /\ m.val[f] # {}
    BY <1>3, <1>17 DEF FollowsSet, Fills
  <2>2. SumTo(m, f, rows[i][f], zero) = {}
    BY <1>3, <1>17 DEF FollowsSet, SumTo
  <2>3. NulledTo(m, f) = {}
    BY <1>10, <1>12, <1>17, <2>1 DEF FollowsSet
  <2>4. rows'[i][f] \in log.want[f].val /\ log.want[f].how = "set"
    BY <1>7, <1>13, <1>17, <2>1, <2>2, <2>3 DEF FollowsSet
  <2> QED
    BY <1>17, <2>4 DEF Meant
<1>18. CASE f \notin Code.immutable /\ FollowsKeep(f, b, log, clock)
  <2>1. m.add[f] = {} /\ ~ Emptied(f, b) /\ log.want[f].how = "keep"
    BY <1>3, <1>18 DEF FollowsKeep
  <2>2. SumTo(m, f, rows[i][f], zero) = {}
    BY <2>1 DEF SumTo
  <2>3. CASE f # "update_time"
    <3>1. m.val[f] = {}
      BY <1>16, <1>18, <2>3 DEF FollowsKeep
    <3>2. rows'[i][f] = rows[i][f]
      BY <1>7, <1>10, <1>11, <1>13, <1>18, <2>1, <2>2, <3>1
    <3> QED
      BY <1>15, <1>18, <2>1, <2>3, <3>2 DEF Meant
  <2>4. CASE f = "update_time"
    <3>1. NulledTo(m, f) = {}
      BY <1>2, <1>10, <2>1, <2>4, RefreshFacts
    <3>2. \E t \in 0 .. clock : m.val[f] = {t} /\ (~ log.tried => t = clock)
      <4>1. \A t \in 0 .. clock : Supply(b.kind, t)[f] = t
        <5>1. \A t \in 0 .. clock : t \in 0 .. MaxClock
          BY FieldAssumption DEF Typing
        <5> QED
          BY <1>2, <1>4, <2>4, <5>1, RefreshDomain DEF Supply
      <4>2. clock \in 0 .. clock
        BY FieldAssumption DEF Typing
      <4>3. f \in DOMAIN Supply(b.kind, clock)
        BY <1>4, <1>15, <2>4 DEF Supply
      <4>4. CASE b.val[f] = {}
        BY <1>3, <4>1, <4>2, <4>3, <4>4 DEF Fills
      <4>5. CASE b.val[f] # {}
        <5>1. PICK t \in 0 .. clock : b.val[f] = {Supply(b.kind, t)[f]} /\ log.tried
          BY <1>18, <4>5 DEF FollowsKeep, Filled
        <5> QED
          BY <1>3, <4>1, <4>5, <5>1 DEF Fills
      <4> QED
        BY <4>4, <4>5
    <3>3. PICK t \in 0 .. clock : m.val[f] = {t} /\ (~ log.tried => t = clock)
      BY <3>2
    <3>4. rows'[i][f] = t
      BY <1>7, <1>13, <1>18, <2>2, <3>1, <3>3
    <3> QED
      BY <1>15, <1>18, <2>1, <2>4, <3>3, <3>4 DEF Meant
  <2> QED
    BY <2>3, <2>4
<1>19. CASE f \notin Code.immutable /\ FollowsNull(f, b, log, clock)
  <2>1. m.add[f] = {} /\ log.want[f].how = "null" /\ (Emptied(f, b) \/ f \in b.edgeCleared)
    BY <1>3, <1>19 DEF FollowsNull
  <2>2. f # "update_time"
    BY <1>2, <2>1, RefreshFacts DEF Emptied, BuilderOK
  <2>3. m.val[f] = {}
    BY <1>16, <1>19, <2>2 DEF FollowsNull
  <2>4. NulledTo(m, f) = {Null}
    <3>1. Has(f, "clear") => f \in Code.spec[m.kind].clear
      BY <1>2, <1>4 DEF CodeOK, StatementsOK, Has, Fields
    <3> QED
      BY <1>3, <2>1, <3>1 DEF NulledTo, Emptied
  <2>5. SetTo(m, f) = {} /\ SumTo(m, f, rows[i][f], zero) = {}
    BY <2>1, <2>3 DEF SetTo, SumTo
  <2>6. rows'[i][f] = Null
    BY <1>7, <2>4, <2>5
  <2> QED
    BY <1>19, <2>1, <2>6 DEF Meant
<1>20. CASE f \notin Code.immutable /\ FollowsAdd(f, b, log)
  <2>1. /\ log.want[f].how = "add" /\ b.val[f] = {} /\ b.add[f] = log.want[f].val
        /\ ~ Emptied(f, b) /\ f \in Code[b.kind].add
    BY <1>20 DEF FollowsAdd
  <2>2. PICK n \in Nat : log.want[f].val = {n}
    BY <1>20 DEF FollowsAdd
  <2>3. f \in Code.spec[m.kind].add /\ f # "update_time"
    <3>1. clock \in 0 .. MaxClock
      BY DEF Typing
    <3> QED
      BY <1>2, <1>4, <1>15, <2>1, <3>1, NumberFacts
  <2>4. m.val[f] = {} /\ m.add[f] = {n}
    BY <1>16, <2>1, <2>2, <2>3
  <2>5. f \notin Code.edges
    BY <1>2, <2>1, <2>2, EdgeFacts DEF BuilderOK, AddOK
  <2>6. SetTo(m, f) = {} /\ NulledTo(m, f) = {}
    BY <1>10, <2>1, <2>4, <2>5 DEF SetTo
  <2>7. SumTo(m, f, rows[i][f], zero) =
          {IF rows[i][f] # Null THEN rows[i][f] + n ELSE IF zero THEN n ELSE Null}
    BY <2>3, <2>4 DEF SumTo
  <2>8. rows'[i][f] =
          IF rows[i][f] # Null THEN rows[i][f] + n ELSE IF zero THEN n ELSE Null
    BY <1>7, <2>6, <2>7
  <2>9. Meant(f, rows[i][f]) =
          IF rows[i][f] = Null THEN {Null} \cup {n} ELSE {rows[i][f] + d : d \in {n}}
    BY <1>20, <2>1, <2>2 DEF Meant
  <2> QED
    BY <2>8, <2>9
<1> QED
  BY <1>9, <1>14, <1>17, <1>18, <1>19, <1>20 DEF Follows

(* A new row holds what was meant.                                         *)
LEMMA InsertMeant ==
  ASSUME Typing, CallsInv, Save, event' \in {"saved", "lost"}, b.kind = "create",
         NEW f \in Fields \ log.clash
  PROVE  rows'[Len(rows')][f] \in MeantNew(f)
<1>1. PICK m : m = Defaults(b)
  OBVIOUS
<1>2. CodeOK(Code) /\ BuilderOK(b) /\ f \in Fields /\ clock \in 0 .. MaxClock
  BY EveryCode DEF Typing
<1>3. Alike(b, m) /\ m.val[f] = IF Fills(b, f) THEN {Supply(b.kind, clock)[f]} ELSE b.val[f]
  BY <1>1, <1>2, DefaultsFill DEF BuilderOK
<1>4. InsertedFrom(m)
  BY <1>1, <1>3, SavedRows DEF ChangedFrom, Alike
<1>5. rows'[Len(rows')][f] = IF m.val[f] # {} THEN Written(m, f) ELSE Null
  BY <1>2, <1>4 DEF InsertedFrom
<1>6. Follows(f, b, log, clock)
  BY DEF CallsInv, CallsOK
<1> DEFINE d == Code.defaults[clock]
<1>7. CASE FollowsSet(f, b, log)
  <2>1. PICK v : b.val[f] = {v} /\ log.want[f].val = {v} /\ log.want[f].how = "set"
    BY <1>7 DEF FollowsSet
  <2>2. m.val[f] = {v}
    BY <1>3, <2>1 DEF Fills
  <2>3. rows'[Len(rows')][f] = v
    BY <1>5, <2>2 DEF Written
  <2> QED
    BY <2>1, <2>3 DEF MeantNew
<1>8. CASE FollowsAdd(f, b, log)
  BY <1>2, <1>8, NumberFacts DEF FollowsAdd
<1>9. CASE FollowsKeep(f, b, log, clock) \/ FollowsNull(f, b, log, clock)
  <2>1. log.want[f].how # "set" /\ Filled(f, b, log, clock)
    BY <1>9 DEF FollowsKeep, FollowsNull
  <2>2. \A t \in 0 .. clock : t \in 0 .. MaxClock
    BY <1>2, FieldAssumption
  <2>3. \A t \in 0 .. MaxClock : Supply(b.kind, t) = Code.defaults[t]
    BY DEF Supply
  <2>4. CASE f \notin DOMAIN d
    <3>1. \A t \in 0 .. clock : f \notin DOMAIN Supply(b.kind, t)
      BY <1>2, <2>2, <2>3, <2>4, AutoFacts
    <3>2. b.val[f] = {} /\ ~ Fills(b, f)
      BY <1>2, <2>1, <2>3, <2>4, <3>1 DEF Filled, Fills
    <3>3. rows'[Len(rows')][f] = Null
      BY <1>3, <1>5, <3>2
    <3> QED
      BY <2>1, <2>4, <3>3 DEF MeantNew
  <2>5. CASE f \in DOMAIN d
    <3>1. PICK t \in 0 .. clock : m.val[f] = {Code.defaults[t][f]} /\ (~ log.tried => t = clock)
      <4>1. CASE b.val[f] = {}
        <5>1. Fills(b, f)
          BY <1>2, <2>3, <2>5, <4>1 DEF Fills
        <5>2. clock \in 0 .. clock
          BY <1>2, FieldAssumption
        <5> QED
          BY <1>2, <1>3, <2>3, <5>1, <5>2
      <4>2. CASE b.val[f] # {}
        <5>1. PICK t \in 0 .. clock : log.tried /\ b.val[f] = {Supply(b.kind, t)[f]}
          BY <2>1, <4>2 DEF Filled
        <5> QED
          BY <1>3, <2>2, <2>3, <4>2, <5>1 DEF Fills
      <4> QED
        BY <4>1, <4>2
    <3>2. rows'[Len(rows')][f] = Code.defaults[t][f]
      BY <1>5, <3>1 DEF Written
    <3>3. t \in 0 .. MaxClock /\ f \in DOMAIN Code.defaults[t]
      <4>1. t \in 0 .. MaxClock
        BY <2>2
      <4> QED
        BY <1>2, <2>5, <4>1 DEF CodeOK, ClocksOK
    <3>4. Code.defaults[t][f] = IF Code.fields[f].kind = "time" THEN t ELSE d[f]
      BY <1>2, <3>3 DEF CodeOK, ClocksOK
    <3>5. MeantNew(f) = IF log.tried /\ Code.fields[f].kind = "time" THEN 0 .. clock ELSE {d[f]}
      BY <2>1, <2>5 DEF MeantNew
    <3> HIDE DEF d
    <3>6. ~ log.tried => Code.defaults[t][f] = d[f]
      BY <3>1 DEF d
    <3> QED
      BY <3>2, <3>4, <3>5, <3>6
  <2> QED
    BY <2>4, <2>5
<1> QED
  BY <1>6, <1>7, <1>8, <1>9 DEF Follows

LEMMA SaveObeys ==
  ASSUME Typing, CallsInv, Save, event' \in {"saved", "lost"}, b.kind # "create", NEW i \in DOMAIN rows,
         \/ b.kind = "updateOne" /\ i # b.id
         \/ i \notin Matching(b)
         \/ \E f \in log.tested : rows[i][f] = Null
  PROVE  rows'[i] = rows[i]
<1>1. PICK m : m = Defaults(b)
  OBVIOUS
<1>2. Alike(b, m)
  BY <1>1, DefaultsFill DEF Typing, BuilderOK
<1>3. ChangedFrom(m)
  BY <1>1, <1>2, SavedRows DEF InsertedFrom, Alike
<1>4. Matching(m) = Matching(b)
  BY <1>2 DEF Matching, Alike
<1>5. ASSUME NEW f \in log.tested, rows[i][f] = Null
      PROVE  i \notin Matching(b)
  <2>1. PICK p \in b.preds : p.field = f /\ Null \notin p.accepts
    BY DEF CallsInv, CallsOK, Save, Tested
  <2> QED
    BY <1>5, <2>1 DEF Matching
<1>6. i \notin Matching(b)
  BY <1>5 DEF Matching
<1> QED
  BY <1>3, <1>4, <1>6 DEF ChangedFrom

(* A save writes to each column what the last call on it said, whatever    *)
(* was called before, and whatever an earlier save that failed or was not  *)
(* answered has filled in; it leaves alone the rows that the predicates do not hold of, NULLs  *)
(* among them (mutation.go:204-307, team_update.go:286-449).               *)
THEOREM CallsAreObeyed == Spec => CallsDecide
<1> DEFINE Decided ==
      event' \in {"saved", "lost"} =>
        IF b.kind = "create"
        THEN \A f \in Fields \ log.clash : rows'[Len(rows')][f] \in MeantNew(f)
        ELSE \A i \in DOMAIN rows :
               IF \/ b.kind = "updateOne" /\ i # b.id
                  \/ i \notin Matching(b)
                  \/ \E f \in log.tested : rows[i][f] = Null
               THEN rows'[i] = rows[i]
               ELSE \A f \in Fields \ log.clash : rows'[i][f] \in Meant(f, rows[i][f])
<1>1. Typing /\ CallsInv /\ [Next]_vars => [Decided]_vars
  <2> SUFFICES ASSUME Typing, CallsInv, Next PROVE Decided
    OBVIOUS
  <2> SUFFICES ASSUME event' \in {"saved", "lost"} PROVE Decided
    OBVIOUS
  <2>1. Save
    BY DEF Next, Tick
  <2>2. CASE b.kind = "create"
    BY <2>1, <2>2, InsertMeant
  <2>3. CASE b.kind # "create"
    <3>1. ASSUME NEW i \in DOMAIN rows,
                 \/ b.kind = "updateOne" /\ i # b.id
                 \/ i \notin Matching(b)
                 \/ \E f \in log.tested : rows[i][f] = Null
          PROVE  rows'[i] = rows[i]
      BY <2>1, <2>3, <3>1, SaveObeys
    <3>2. ASSUME NEW i \in Matching(b), NEW f \in Fields \ log.clash
          PROVE  rows'[i][f] \in Meant(f, rows[i][f])
      BY <2>1, <2>3, UpdateMeant
    <3> QED
      BY <2>3, <3>1, <3>2
  <2> QED
    BY <2>2, <2>3
<1> QED
  BY <1>1, AlwaysTyping, AlwaysCalls, PTL DEF Spec, CallsDecide
=============================================================================
