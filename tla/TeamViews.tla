----------------------------- MODULE TeamViews -----------------------------
(***************************************************************************)
(* The reading routes of the team API as one client meets them             *)
(* (internal/module/team/http/handler.go, service.go, repo/team_repo.go):  *)
(* its session, the middleware that looks at it, visibility, the lists and *)
(* their pages.  Every other request is a step of TeamRoster, the atomic   *)
(* specification TeamService implements, and falls between two statements  *)
(* of the client's request.  A team's id is its place in the order of      *)
(* creation.                                                               *)
(***************************************************************************)
EXTENDS TeamRoster, Sequences, FiniteSetsExt

CONSTANTS
  Admins,           \* users with the administrator's role
  NewRows,          \* what creations and edits leave in a team's row
  MaxRows,          \* bound on the ids user_team gives
  Sizes, Filters,   \* page sizes and status filters that clients send
  NoFilter,         \* no status filter
  defaultPageSize,  \* page.go
  maxPageSize       \* page.go

ASSUME ViewAssumption ==
  /\ Teams \subseteq Nat \ {0} /\ Admins \subseteq Users
  /\ NewRows \subseteq TeamRow /\ NoFilter \notin Statuses
  /\ Filters \subseteq Statuses \cup {NoFilter} /\ Sizes \subseteq Int
  /\ defaultPageSize \in Nat \ {0} /\ maxPageSize \in Nat \ {0}
  /\ defaultPageSize <= maxPageSize

VARIABLES
  session,   \* the user that Redis stores for the client's cookie
  pc,        \* the statement the client's request sends next
  req,       \* the request: route, filter, team, page, size; viewer and admin
  found,     \* the ids ListTeamIDsByUser returned, the rows that were read, their total
  answer,    \* what the client gets: a sequence of teams with HasJoinNum and HasJoin
  tour,      \* the client's walk through the pages (it keeps what it has seen)
  entitled,  \* teams the client might see at some moment of the request (history)
  mine       \* teams it was a member of all the time (history)

clientVars == <<session, pc, req, found, answer, tour, entitled, mine>>
vars == <<dbVars, clientVars>>

Open == {"get", "list", "page"}
AuthRequired == {"my/create", "my/join"}
NoReq == [route |-> "none", filter |-> NoFilter, team |-> 0, page |-> 0, size |-> 0,
          viewer |-> Nobody, admin |-> FALSE]
NoneFound == [ids |-> {}, rows |-> <<>>, total |-> 0, counts |-> <<>>]
NoTour == [on |-> FALSE, filter |-> NoFilter, page |-> 0, size |-> 0, seen |-> {}, through |-> {},
           disturbed |-> FALSE]
Shown == [id : Teams, status : Statuses, leader : Users, num : Nat, hasJoin : BOOLEAN]

TypeOK ==
  /\ DataTypeOK
  /\ session \in Users \cup {Nobody}
  /\ pc \in {"idle", "count", "ids", "rows", "counts", "joined", "answered",
             "toured"}
  /\ req \in [route : Open \cup AuthRequired \cup {"none"}, filter : Filters \cup {NoFilter},
              team : Teams \cup {0}, page : Nat, size : Sizes \cup {0},
              viewer : Users \cup {Nobody}, admin : BOOLEAN]
  /\ found.ids \subseteq Teams /\ found.rows \in Seq([id : Teams, row : TeamRow])
  /\ found.total \in Nat /\ found.counts \in Seq(Nat)
  /\ answer \in Seq(Shown)
  /\ tour.seen \subseteq Teams /\ tour.through \subseteq Teams
  /\ entitled \subseteq Teams /\ mine \subseteq Teams

Init ==
  /\ DataInit
  /\ session = Nobody /\ pc = "idle" /\ req = NoReq /\ found = NoneFound
  /\ answer = <<>> /\ tour = NoTour /\ entitled = {} /\ mine = {}

-----------------------------------------------------------------------------
(* Sessions.                                                               *)

(* Login stores the user, but an error of session.Save is dropped.         *)
Login ==
  /\ pc = "idle" /\ ~ tour.on
  /\ session' \in Users \cup {session}
  /\ UNCHANGED <<dbVars, pc, req, found, answer, tour>>

(* Logout is behind AuthRequired; here too an error of Save is dropped.    *)
Logout ==
  /\ pc = "idle" /\ ~ tour.on /\ session # Nobody
  /\ session' = Nobody
  /\ UNCHANGED <<dbVars, pc, req, found, answer, tour>>

(* GetLoginUserID: only AuthRequired puts the session's user where the     *)
(* handlers look for it.                                                   *)
LoginUserID(route) == IF route \in AuthRequired THEN session ELSE Nobody

-----------------------------------------------------------------------------
(* What the queries return.                                                *)
Now == 0
Private(t) == teams[t].status = "private"

(* buildListPreds.  An empty list of ids filters nothing.                  *)
Matches(tab, t, filter, owner, ids, includePrivate) ==
  /\ tab[t].state = "active" /\ tab[t].expire > Now
  /\ ids # {} => t \in ids
  /\ owner # Nobody => tab[t].leader = owner
  /\ filter # NoFilter => tab[t].status = filter
  /\ includePrivate \/ tab[t].status # "private"

(* The rows of these teams, the latest first: n - 1 are later than the     *)
(* n-th.                                                                   *)
Rows(S) ==
  [n \in 1 .. Cardinality(S) |->
     LET t == CHOOSE t \in S : Cardinality({k \in S : k > t}) = n - 1
     IN [id |-> t, row |-> teams[t]]]

ListedIn(tab, filter, includePrivate) ==
  {t \in Teams : Matches(tab, t, filter, Nobody, {}, includePrivate)}
Listed(filter, includePrivate) == ListedIn(teams, filter, includePrivate)

(* PageRequest.normalize, Offset and Limit.                                *)
PageSize(size) == IF size <= 0 THEN defaultPageSize ELSE Min({size, maxPageSize})
PageNum(page) == IF page <= 0 THEN 1 ELSE page

(* Mutant: page 1 begins after the first page.                             *)
OffsetOnePage(page, size) == PageNum(page) * PageSize(size)

Offset(page, size) == (PageNum(page) - 1) * PageSize(size)
Limit(size) == PageSize(size)

(* PageResponse.Pages.                                                     *)
Pages(total, size) == (total + PageSize(size) - 1) \div PageSize(size)

-----------------------------------------------------------------------------
(* The reading requests.                                                   *)

(* The client sends a request; the middleware refuses it, or the handler   *)
(* determines who is asking.                                               *)
Request(route, filter, team, page, size) ==
  /\ route \in AuthRequired => session # Nobody
  /\ req' = [route |-> route, filter |-> filter, team |-> team, page |-> page,
             size |-> size, viewer |-> LoginUserID(route),
             admin |-> LoginUserID(route) \in Admins]
  /\ pc' = CASE route = "page" -> "count" [] route = "my/join" -> "ids" [] OTHER -> "rows"
  /\ UNCHANGED <<dbVars, session, found, answer>>

(* A list of private teams is refused to anyone but administrators.        *)
Refused(route, filter) ==
  /\ route \in {"list", "page"} /\ filter = "private"
  /\ LoginUserID(route) \notin Admins

Ask ==
  /\ pc = "idle" /\ ~ tour.on
  /\ \/ \E t \in Teams : Request("get", NoFilter, t, 0, 0)
     \/ \E route \in {"list"} \cup AuthRequired, f \in Filters :
          ~ Refused(route, f) /\ Request(route, f, 0, 0, 0)
  /\ UNCHANGED tour

(* The client walks through all pages, one request for each.               *)
StartTour ==
  /\ pc = "idle" /\ ~ tour.on
  /\ \E f \in Filters, s \in Sizes :
       /\ ~ Refused("page", f) /\ Request("page", f, 0, 0, s)
       /\ tour' = [NoTour EXCEPT !.on = TRUE, !.filter = f, !.page = 1,
                                   !.size = s, !.through = Listed(f, FALSE)]

NextPage ==
  /\ pc = "idle" /\ tour.on
  /\ Request("page", tour.filter, 0, tour.page, tour.size)
  /\ UNCHANGED tour

(* repo.ListPage: Count, then the page, two statements.                    *)
Count ==
  /\ pc = "count"
  /\ found' = [found EXCEPT !.total = Cardinality(Listed(req.filter, req.admin))]
  /\ pc' = "rows"
  /\ UNCHANGED <<dbVars, session, req, answer, tour>>

(* Mutant: the query selects the membership's own id.                      *)
IdsOfRows ==
  /\ pc = "ids"
  /\ LET ids == {m.id : m \in RowsBy(req.viewer)}
     IN /\ found' = [found EXCEPT !.ids = ids]
        /\ pc' = IF ids = {} THEN "answered" ELSE "rows"
  /\ UNCHANGED <<dbVars, session, req, answer, tour>>

(* Mutant: ListMyJoin without its early return.                            *)
IdsAnyway ==
  /\ pc = "ids"
  /\ found' = [found EXCEPT !.ids = {m.team : m \in RowsBy(req.viewer)}]
  /\ pc' = "rows"
  /\ UNCHANGED <<dbVars, session, req, answer, tour>>

(* ListTeamIDsByUser; somebody without teams gets an empty list at once.   *)
Ids ==
  /\ pc = "ids"
  /\ LET ids == {m.team : m \in RowsBy(req.viewer)}
     IN /\ found' = [found EXCEPT !.ids = ids]
        /\ pc' = IF ids = {} THEN "answered" ELSE "rows"
  /\ UNCHANGED <<dbVars, session, req, answer, tour>>

(* The query for the teams themselves.                                     *)
ReadRows ==
  /\ pc = "rows" /\ req.route # "get"
  /\ LET rows ==
           CASE req.route = "list" -> Rows(Listed(req.filter, req.admin))
             [] req.route = "page" ->
                  LET all == Rows(Listed(req.filter, req.admin))
                      from == Offset(req.page, req.size)
                  IN SubSeq(all, from + 1, Min({Len(all), from + Limit(req.size)}))
             [] req.route = "my/create" ->
                  Rows({t \in Teams : Matches(teams, t, req.filter, req.viewer, {}, TRUE)})
             [] req.route = "my/join" ->
                  Rows({t \in Teams : Matches(teams, t, req.filter, Nobody, found.ids, TRUE)})
     IN /\ found' = [found EXCEPT !.rows = rows]
        /\ pc' = IF rows = <<>> THEN "answered" ELSE "counts"
  /\ UNCHANGED <<dbVars, session, req, answer, tour>>

(* Mutant: who is not asked for a login passes.                            *)
CanViewAnyone(t) == ~ Private(t) \/ req.admin \/ req.viewer \in {Nobody, teams[t].leader}

(* canViewTeam.  Its last question is a statement of its own, but it comes *)
(* only for a viewer, and the one route that asks never has one.           *)
CanView(t) ==
  \/ ~ Private(t) \/ req.admin \/ teams[t].leader = req.viewer
  \/ req.viewer # Nobody /\ RowsIn(req.viewer, t) # {}

(* GetByID.                                                                *)
ReadTeam ==
  /\ pc = "rows" /\ req.route = "get"
  /\ IF Active(req.team) /\ CanView(req.team)
     THEN /\ found' = [found EXCEPT !.rows = Rows({req.team})]
          /\ pc' = "counts"
     ELSE /\ pc' = "answered" /\ UNCHANGED found
  /\ UNCHANGED <<dbVars, session, req, answer, tour>>

(* toTeamUserVOs, CountMembersByTeamIDs.                                   *)
Counts ==
  /\ pc = "counts"
  /\ found' = [found EXCEPT !.counts =
       [n \in DOMAIN found.rows |-> Cardinality(RowsOf(found.rows[n].id))]]
  /\ pc' = "joined"
  /\ UNCHANGED <<dbVars, session, req, answer, tour>>

(* toTeamUserVOs, JoinedTeamIDs (not asked for an unknown viewer), and the *)
(* answer.                                                                 *)
Joined ==
  /\ pc = "joined"
  /\ answer' = [n \in DOMAIN found.rows |->
       LET t == found.rows[n].id
       IN [id |-> t, status |-> found.rows[n].row.status,
           leader |-> found.rows[n].row.leader, num |-> found.counts[n],
           hasJoin |-> req.viewer # Nobody /\ RowsIn(req.viewer, t) # {}]]
  /\ pc' = "answered"
  /\ UNCHANGED <<dbVars, session, req, found, tour>>

(* The client takes the answer, or the error of a statement, and goes on   *)
(* to the next page while the total promises one.                          *)
TakeAnswer ==
  /\ pc = "answered"
  /\ answer' = <<>> /\ found' = NoneFound /\ req' = NoReq
  /\ IF tour.on
     THEN /\ tour' = [tour EXCEPT !.seen = @ \cup {answer[n].id : n \in DOMAIN answer},
                                  !.page = @ + 1]
          /\ IF tour.page >= Pages(found.total, tour.size)
             THEN pc' = "toured" ELSE pc' = "idle"
     ELSE pc' = "idle" /\ UNCHANGED tour
  /\ UNCHANGED <<dbVars, session>>

EndTour ==
  /\ pc = "toured" /\ pc' = "idle" /\ tour' = NoTour
  /\ UNCHANGED <<dbVars, session, req, found, answer>>

(* Every statement may fail; the client gives up.                          *)
ReadFails ==
  /\ pc \notin {"idle", "answered", "toured"}
  /\ pc' = "idle" /\ req' = NoReq /\ found' = NoneFound /\ tour' = NoTour
  /\ UNCHANGED <<dbVars, session, answer>>

Read ==
  \/ Ask \/ StartTour \/ NextPage \/ Count \/ Ids \/ ReadRows \/ ReadTeam
  \/ Counts \/ Joined \/ TakeAnswer \/ EndTour \/ ReadFails

-----------------------------------------------------------------------------
(* What the others do.                                                     *)

Roster ==
  \E t \in Teams :
    \/ \E u \in Users :
         \/ /\ rowSeq < MaxRows /\ \A s \in Teams : s < t => teams[s].state # "none"
            /\ \E row \in NewRows : teams' = [teams EXCEPT ![t] = [row EXCEPT !.leader = u]]
            /\ Create(u, t)
         \/ rowSeq < MaxRows /\ Enter(u, t)
         \/ Leave(u, t) \/ HandOver(u, t) \/ Disband(u, t)
    \/ /\ \E row \in NewRows :
            teams' = [teams EXCEPT ![t] = [@ EXCEPT !.status = row.status,
                                                    !.pw = row.pw, !.expire = row.expire]]
       /\ Active(t) /\ Edit(t)

(* What a walk under way notes of it.                                      *)
Others ==
  /\ Roster
  /\ LET before == ListedIn(teams, tour.filter, FALSE)
         after == ListedIn(teams', tour.filter, FALSE)
     IN tour' = IF ~ tour.on THEN tour
                ELSE [tour EXCEPT !.through = @ \cap after,
                        !.disturbed = \/ @
                                      \/ before \ after # {}
                                      \/ after \ before # {} /\ pc = "rows"]
  /\ UNCHANGED <<session, pc, req, found, answer>>

(* The teams that the client may see, and those it is a member of.         *)
May == {t \in Teams : \/ ~ Private(t) \/ teams[t].leader = session
                      \/ session \in Admins \/ RowsIn(session, t) # {}}
Own == {t \in Teams : session # Nobody /\ RowsIn(session, t) # {}}

Track ==
  /\ entitled' = CASE pc' \in {"idle", "toured"} -> {}
                   [] pc = "idle" /\ pc' # "idle" -> May'
                   [] pc = "answered" /\ pc' = "answered" -> entitled
                   [] OTHER -> entitled \cup May'
  /\ mine' = CASE pc' \in {"idle", "toured"} -> {}
               [] pc = "idle" /\ pc' # "idle" -> Own'
               [] pc = "answered" /\ pc' = "answered" -> mine
               [] OTHER -> mine \cap Own'

Next == (Login \/ Logout \/ Read \/ Others) /\ Track

Spec == Init /\ [][Next]_vars

-----------------------------------------------------------------------------
(* No answer shows a private team to a client that at no moment of the     *)
(* request led it, was a member or an administrator, and to whom it was    *)
(* never open (canViewTeam, buildListPreds, ListMyJoin).                   *)
PrivateHidden ==
  pc = "answered" => \A n \in DOMAIN answer : answer[n].id \in entitled

(* A client that walks through the pages until the total promises no more  *)
(* has seen every team that was listed all the time, unless a team left    *)
(* the list meanwhile or entered it between a page's two statements        *)
(* (page.go, team_repo.go:176-180).                                        *)
PagesTile ==
  pc = "toured" /\ ~ tour.disturbed => tour.through \subseteq tour.seen

(* Who is logged in sees on every route which teams it has joined: the     *)
(* comment at internal/httpapi/team.go:18.                                 *)
LoginSeesOwn ==
  pc = "answered" =>
    \A n \in DOMAIN answer : answer[n].id \in mine => answer[n].hasJoin
=============================================================================
