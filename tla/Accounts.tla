------------------------------ MODULE Accounts ------------------------------
(***************************************************************************)
(* The table of users and the requests that write it: Register and Update  *)
(* of the user service (internal/module/user/service.go) with the          *)
(* statements of its repository (repo/user_repo.go).  A user's id is its   *)
(* place in the table: ids are given at the insert and no row is removed.  *)
(* Passwords and the optional profile columns play no part here.           *)
(***************************************************************************)
EXTENDS Naturals, Sequences, FiniteSets

CONSTANTS
  Procs,          \* requests in flight
  Admins,         \* the ids of administrators: no code changes a role
  Names, Codes,   \* user accounts and planet codes
  TagLists,       \* tag texts that parse: non-empty sequences of tags
  NoTags,         \* the empty tag text
  Junk,           \* a tag text that parses to no tags
  Registrations,  \* what clients register: [account, code]
  Forms,          \* the bodies of updates: [account, code, tags]
  Seeds,          \* tables that earlier requests have left
  MaxUsers,       \* bound on the table
  MaxWrites,      \* bound on the writing requests
  MaxTime         \* bound on the clock

Texts == TagLists \cup {NoTags, Junk}

(* codeBy and saw are there for the properties only: who wrote the planet  *)
(* code, and how long the table was when the registration looked for it.   *)
UserRow ==
  [account : Names, code : Codes, tags : Texts, deleted : BOOLEAN,
   updated : 0 .. MaxTime, codeBy : {"register", "update"}, saw : 0 .. MaxUsers]

ASSUME AccountAssumption ==
  /\ NoTags # Junk /\ {NoTags, Junk} \cap TagLists = {}
  /\ \A t \in TagLists : Len(t) \in Nat \ {0} /\ DOMAIN t = 1 .. Len(t)
  /\ Registrations \subseteq [account : Names, code : Codes]
  /\ Forms \subseteq [account : Names, code : Codes, tags : Texts]
  /\ MaxUsers \in Nat /\ MaxWrites \in Nat /\ MaxTime \in Nat
  /\ \A s \in Seeds :
       /\ s \in Seq(UserRow) /\ Len(s) <= MaxUsers
       /\ \A i, j \in DOMAIN s : i # j => s[i].account # s[j].account
       /\ \A i, j \in DOMAIN s :
            i < j /\ s[i].code = s[j].code
            => "update" \in {s[i].codeBy, s[j].codeBy} \/ s[j].saw < i

VARIABLES
  users,   \* the table
  now,     \* the clock
  writes,  \* writing requests so far (for the bound)
  pc,      \* pc[p]: the statement request p sends next
  form     \* form[p]: what the request asks for

accountVars == <<users, now, writes, pc, form>>

NoForm == [account |-> "", code |-> "", tags |-> NoTags, target |-> 0, saw |-> 0]

AccountStages == {"idle", "code", "create", "write"}

AccountTypeOK ==
  /\ users \in Seq(UserRow) /\ Len(users) <= MaxUsers
  /\ now \in 0 .. MaxTime /\ writes \in 0 .. MaxWrites
  /\ form \in [Procs -> [account : Names \cup {""}, code : Codes \cup {""},
                         tags : Texts, target : 0 .. MaxUsers, saw : 0 .. MaxUsers]]

AccountInit ==
  /\ users \in Seeds
  /\ now = 0 /\ writes = 0
  /\ pc = [p \in Procs |-> "idle"]
  /\ form = [p \in Procs |-> NoForm]

-----------------------------------------------------------------------------
(* ParseTags: a text that is no JSON list of strings has no tags.          *)
ParseTags(text) == IF text \in TagLists THEN text ELSE <<>>

(* ExistsByAccount and the unique index look at every row, deleted or not. *)
AccountTaken(account) == \E i \in DOMAIN users : users[i].account = account

(* ExistsByPlanetCode.                                                     *)
CodeTaken(code) == \E i \in DOMAIN users : users[i].code = code

(* The request of p is over.                                               *)
Over(p) ==
  /\ pc' = [pc EXCEPT ![p] = "idle"]
  /\ form' = [form EXCEPT ![p] = NoForm]

Registering == {p \in Procs : pc[p] \in {"code", "create"}}

(* Register, ExistsByAccount: a name that is taken ends the request.       *)
RegisterAccount(p) ==
  /\ pc[p] = "idle" /\ writes < MaxWrites
  /\ Len(users) + Cardinality(Registering) < MaxUsers
  /\ \E r \in Registrations :
       /\ ~ AccountTaken(r.account)
       /\ form' = [form EXCEPT ![p].account = r.account, ![p].code = r.code]
  /\ pc' = [pc EXCEPT ![p] = "code"]
  /\ writes' = writes + 1
  /\ UNCHANGED <<users, now>>

(* Mutant: the planet code is not looked for.                              *)
RegisterCodeUnchecked(p) ==
  /\ pc[p] = "code"
  /\ pc' = [pc EXCEPT ![p] = "create"]
  /\ form' = [form EXCEPT ![p].saw = Len(users)]
  /\ UNCHANGED <<users, now, writes>>

(* Register, ExistsByPlanetCode.                                           *)
RegisterCode(p) ==
  /\ pc[p] = "code"
  /\ IF CodeTaken(form[p].code)
     THEN Over(p)
     ELSE /\ pc' = [pc EXCEPT ![p] = "create"]
          /\ form' = [form EXCEPT ![p].saw = Len(users)]
  /\ UNCHANGED <<users, now, writes>>

(* Register, Create: the unique index on user_account may still refuse.    *)
RegisterCreate(p) ==
  /\ pc[p] = "create"
  /\ IF AccountTaken(form[p].account)
     THEN UNCHANGED users
     ELSE users' = Append(users,
            [account |-> form[p].account, code |-> form[p].code, tags |-> NoTags,
             deleted |-> FALSE, updated |-> now, codeBy |-> "register",
             saw |-> form[p].saw])
  /\ Over(p)
  /\ UNCHANGED <<now, writes>>

(* Update: caller and target are read and the permission is checked; rows  *)
(* are never removed, so nothing that was read can change its answer.      *)
StartUpdate(p) ==
  /\ pc[p] = "idle" /\ writes < MaxWrites
  /\ \E caller, target \in DOMAIN users, f \in Forms :
       /\ caller \in Admins \/ caller = target
       /\ form' = [form EXCEPT ![p] = [account |-> f.account, code |-> f.code,
                                       tags |-> f.tags, target |-> target, saw |-> 0]]
  /\ pc' = [pc EXCEPT ![p] = "write"]
  /\ writes' = writes + 1
  /\ UNCHANGED <<users, now>>

(* repo.Update writes account, planet code and tags whatever they are; the *)
(* index refuses an account of another row, nothing refuses a planet code. *)
UpdateWrite(p) ==
  /\ pc[p] = "write"
  /\ LET f == form[p]
     IN IF \E i \in DOMAIN users \ {f.target} : users[i].account = f.account
        THEN UNCHANGED users
        ELSE users' = [users EXCEPT ![f.target] =
               [@ EXCEPT !.account = f.account, !.code = f.code, !.tags = f.tags,
                         !.updated = now, !.codeBy = "update"]]
  /\ Over(p)
  /\ UNCHANGED <<now, writes>>

(* A statement fails and the request with it.                              *)
RequestFails(p) ==
  /\ pc[p] \in {"code", "create", "write"}
  /\ Over(p)
  /\ UNCHANGED <<users, now, writes>>

(* An operator deletes a user in the database: no code of the server does. *)
SoftDelete(i) ==
  /\ ~ users[i].deleted /\ writes < MaxWrites
  /\ users' = [users EXCEPT ![i].deleted = TRUE]
  /\ writes' = writes + 1
  /\ UNCHANGED <<now, pc, form>>

Tick == now < MaxTime /\ now' = now + 1 /\ UNCHANGED <<users, writes, pc, form>>

AccountStep(p) ==
  \/ RegisterAccount(p) \/ RegisterCode(p) \/ RegisterCreate(p)
  \/ StartUpdate(p) \/ UpdateWrite(p) \/ RequestFails(p)

-----------------------------------------------------------------------------
(* Two users share a planet code only if an update wrote it, or if the     *)
(* later of them looked for it before the earlier was inserted             *)
(* (service.go:48-54, 70; the column has no unique index).                 *)
PlanetCodeExplained ==
  \A i, j \in DOMAIN users :
    i < j /\ users[i].code = users[j].code
    => "update" \in {users[i].codeBy, users[j].codeBy} \/ users[j].saw < i
=============================================================================
