---------------------------- MODULE MCTeamService ----------------------------
(* Instances of TeamService for TLC.                                       *)
EXTENDS TeamServiceInv, TLC

Form(max, status, pw) ==
  [max |-> max, status |-> status, pw |-> pw, expire |-> MaxTime + 1]
Edit(status, pw) == [status |-> status, pw |-> pw, expire |-> Absent]

(* Public teams of two or three places; sizes the service must refuse.     *)
TwoPlaces == {Form(2, "public", Absent)}
AnySize == {Form(n, "public", Absent) : n \in 0 .. MaxTeamMembers + 1}
ThreePlaces == {Form(3, "public", Absent)}

(* Teams of every visibility, with and without a password given.           *)
AllForms ==
  {Form(2, s, pw) : s \in Statuses, pw \in Passwords \cup {Absent}}

(* An update that changes nothing the model keeps (a new name, say).       *)
Rename == {Edit(Absent, Absent)}

(* Every change of status and password, and of the expiry.                 *)
PolicyEdits ==
  {Edit(s, pw) : s \in Statuses \cup {Absent},
                 pw \in Passwords \cup {Empty, Absent}}
  \cup {[status |-> Absent, pw |-> Absent, expire |-> x] : x \in {0, MaxTime + 1}}

WriteHandlers == {"add", "join", "quit", "delete", "update"}
RosterHandlers == WriteHandlers \ {"update"}
PolicyHandlers == WriteHandlers \ {"quit"}

(* Users, requests and teams are interchangeable where no constant names them. *)
ProcSymmetry == Permutations(Procs)
UserTeamSymmetry == Permutations(Users) \cup Permutations(Teams)
Symmetry == Permutations(Users) \cup Permutations(Procs)
=============================================================================
