---------------------------- MODULE ProjectAccess ----------------------------
(***************************************************************************)
(* Who may do what with a project: rbac_service.py, and the project and     *)
(* member operations that it guards (project_service.py).                   *)
(*                                                                         *)
(* A user's role in a project comes from two sources.  The token names      *)
(* Keycloak groups, and the project's row keeps the name of its group; the  *)
(* table project_members has explicit roles.  The API's processes share     *)
(* the database and nothing else: a request looks the project and the rows  *)
(* up, decides, and writes later.                                          *)
(***************************************************************************)
EXTENDS Integers, Sequences, SequencesExt

CONSTANTS
    Workers,      \* the API's processes
    Users,
    RealmAdmins,  \* users whose token has the realm role admin
    Groups,       \* Keycloak groups; a group stands for its id and for its name
    EndAlike,     \* pairs of groups of which one's name ends with the other's
    Tokens,       \* the groups claims that tokens may carry
    Projects

None == "none"

Roles      == {"viewer", "editor", "owner"}
GroupRoles == {"viewer", "editor", "admin"}

\* A path of the claim: a group and its subgroup's role, or the group alone.
Claims == [group : Groups, role : GroupRoles \cup {"flat"}]

ASSUME UsersAssumption  == RealmAdmins \subseteq Users /\ None \notin Users
ASSUME GroupsAssumption == None \notin Groups /\ EndAlike \subseteq Groups \X Groups
ASSUME TokensAssumption == Tokens \subseteq Seq(Claims)

VARIABLES
    project,  \* project[p]: the project's row
    members,  \* members[p][u]: the role in the row of u, or None
    request   \* request[w]: the request that worker w is at

vars == <<project, members, request>>

-----------------------------------------------------------------------------
(* Roles from a token.                                                     *)

\* ROLE_ORDER, which has no "admin".
RoleOrder(r) == IF r = "editor" THEN 2 ELSE IF r = "viewer" THEN 1 ELSE 0

Higher(old, new) == old = None \/ RoleOrder(new) > RoleOrder(old)

EnterClaim(roles, c) ==
    IF c.role = "flat"
    THEN [roles EXCEPT ![c.group] = IF @ = None THEN "viewer" ELSE @]
    ELSE [roles EXCEPT ![c.group] = IF Higher(@, c.role) THEN c.role ELSE @]

parse_group_roles(token) == FoldLeft(EnterClaim, [g \in Groups |-> None], token)

\* The role in the named group, or else in the first group that ends alike.
FindGroupRole(token, name) ==
    LET roles == parse_group_roles(token)
        alike == SelectSeq(token, LAMBDA c : <<c.group, name>> \in EndAlike)
    IN  IF name = None THEN None
        ELSE IF roles[name] = None /\ alike # <<>> THEN roles[Head(alike).group]
        ELSE roles[name]

\* A realm admin is owner everywhere, a group admin in the group's projects; then the
\* row counts, then owner_id, then a plain member of the group views.
Resolve(user, token, prj, name, row) ==
    LET group == FindGroupRole(token, name) IN
    IF user \in RealmAdmins \/ group = "admin" THEN "owner"
    ELSE IF row # None THEN row
    ELSE IF prj.owner = user THEN "owner"
    ELSE IF group # None THEN "viewer"
    ELSE None

\* Mutant: the list goes by the group's id.
Listed_ById(user, token, prj, row) ==
    \/ user \in RealmAdmins \/ prj.owner = user \/ row # None
    \/ prj.group # None /\ parse_group_roles(token)[prj.group] # None

\* list_projects: owned, with a row, or of a group that the token names; the group's
\* column of the project may itself hold a name.
Listed(user, token, prj, row) ==
    \/ user \in RealmAdmins \/ prj.owner = user \/ row # None
    \/ prj.name # None /\ parse_group_roles(token)[prj.name] # None
    \/ prj.byName /\ prj.group # None /\ parse_group_roles(token)[prj.group] # None

-----------------------------------------------------------------------------
(* Projects and requests.                                                  *)

\* byName: the column for the group's id holds its name.
Project == [state  : {"fresh", "live", "deleted"},
            owner  : Users \cup {None},
            group  : Groups \cup {None},
            byName : BOOLEAN,
            name   : Groups \cup {None}]

\* What a request asks for; the API takes no "owner" for a role.
Bodies ==
    [op : {"add", "change"}, target : Users, role : {"viewer", "editor"},
     group : {None}, byName : {FALSE}]
    \cup [op : {"remove"}, target : Users, role : {None}, group : {None}, byName : {FALSE}]
    \cup [op : {"move"}, target : {None}, role : {None}, group : Groups, byName : BOOLEAN]
    \cup [op : {"delete"}, target : {None}, role : {None}, group : {None}, byName : {FALSE}]

NoBody == [op |-> None, target |-> None, role |-> None, group |-> None, byName |-> FALSE]

\* name: of the project's group, as looked up; group: whose name Keycloak is asked for,
\* by its id.  found: the row of the target that was looked up is still there.
Request == [step  : {"idle", "fetch", "decide", "write"},
            user  : Users \cup {None},
            token : Tokens \cup {<<>>},
            on    : Projects \cup {None},
            body  : Bodies \cup {NoBody},
            group : Groups \cup {None},
            name  : Groups \cup {None},
            found : BOOLEAN]

Idle == [step |-> "idle", user |-> None, token |-> <<>>, on |-> None, body |-> NoBody,
         group |-> None, name |-> None, found |-> FALSE]

Fresh == [state |-> "fresh", owner |-> None, group |-> None, byName |-> FALSE, name |-> None]

NoRows == [u \in Users |-> None]

TypeOK ==
    /\ project \in [Projects -> Project]
    /\ members \in [Projects -> [Users -> Roles \cup {None}]]
    /\ request \in [Workers -> Request]

\* A project is yet to be made, or it is from before the two-tier roles: the
\* migration gave its owner a row, and the name of its group is not known.
Init ==
    /\ project \in [Projects -> {Fresh} \cup
            {[state |-> "live", owner |-> u, group |-> g, byName |-> n, name |-> None] :
                u \in Users, g \in Groups, n \in BOOLEAN}]
    /\ members = [p \in Projects |-> [u \in Users |->
            IF project[p].owner = u THEN "owner" ELSE None]]
    /\ request = [w \in Workers |-> Idle]

Live(p) == project[p].state = "live"

End(w) == request' = [request EXCEPT ![w] = Idle]

-----------------------------------------------------------------------------
(* Operations.                                                             *)

\* One transaction: the project and its creator's row, realm admins excepted.  When
\* Keycloak does not answer, the name is missing, and the id of a group given by name.
create_project(u, token, p, g) ==
    /\ project[p] = Fresh
    /\ u \in RealmAdmins \/ parse_group_roles(token)[g] # None
    /\ \E name \in {g, None}, byName \in BOOLEAN :
          /\ byName => name = None
          /\ project' = [project EXCEPT ![p] =
                [state |-> "live", owner |-> u, group |-> g, byName |-> byName, name |-> name]]
    /\ members' = [members EXCEPT ![p] =
          IF u \in RealmAdmins THEN NoRows ELSE [NoRows EXCEPT ![u] = "owner"]]
    /\ UNCHANGED request

\* The role of the requester, by the name that was looked up and the row of now.
RoleOf(r) == Resolve(r.user, r.token, project[r.on], r.name, members[r.on][r.user])

\* Mutant: an editor may manage members.
Allows_Editor(role, op) == role \in {"owner", "editor"}

Allows(role, op) ==
    role = "owner" \/ (op = "move" /\ role = "editor")

\* Mutant: the owner's row is like any other.
Changeable_Any(p, u) == members[p][u] # None

Changeable(p, u) == members[p][u] \notin {None, "owner"}

\* The project is looked up; the name of its group may have to be asked for.  Who asks
\* for what is chosen at the decision; for a realm admin nothing is asked, as when
\* Keycloak does not answer.
Receive(w, p) ==
    /\ request[w] = Idle
    /\ Live(p)
    /\ request' = [request EXCEPT ![w] =
          [Idle EXCEPT !.step = IF project[p].name = None THEN "fetch" ELSE "decide",
                       !.on = p, !.name = project[p].name,
                       !.group = IF project[p].name = None /\ ~project[p].byName
                                 THEN project[p].group ELSE None]]
    /\ UNCHANGED <<project, members>>

\* Keycloak knows the name of the id, which is stored with the project; or it does not
\* answer.  When the project is gone the request fails.
FetchName(w) ==
    LET r == request[w] IN
    /\ r.step = "fetch"
    /\ \/ /\ Live(r.on) /\ r.group # None
          /\ project' = [project EXCEPT ![r.on].name = r.group]
          /\ request' = [request EXCEPT ![w] =
                [r EXCEPT !.step = "decide", !.name = r.group, !.group = None]]
       \/ ~Live(r.on) /\ End(w) /\ UNCHANGED project
       \/ /\ request' = [request EXCEPT ![w] = [r EXCEPT !.step = "decide", !.group = None]]
          /\ UNCHANGED project
    /\ UNCHANGED members

\* Allowed, and the row to change there and not the owner's: on to the write.  What is
\* refused changes nothing.
Decide(w, u, token, body) ==
    LET r == [request[w] EXCEPT !.step = "write", !.user = u, !.token = token, !.body = body,
                                !.found = body.op \in {"change", "remove"}]
    IN
    /\ request[w].step = "decide"
    /\ Allows(RoleOf(r), body.op)
    /\ body.op = "add" => body.target # u
    /\ body.op \in {"change", "remove"} => Changeable(r.on, body.target)
    /\ request' = [request EXCEPT ![w] = r]
    /\ UNCHANGED <<project, members>>

\* The request is refused, or only reads.
Refuse(w) ==
    /\ request[w].step = "decide"
    /\ End(w)
    /\ UNCHANGED <<project, members>>

\* The rows of these users of p are deleted: requests that hold one hold nothing now.
DropRows(w, p, users) ==
    /\ members' = [members EXCEPT ![p] = [u \in Users |-> IF u \in users THEN None ELSE @[u]]]
    /\ request' = [v \in Workers |->
          IF v = w THEN Idle
          ELSE [request[v] EXCEPT !.found = @ /\ ~(request[v].on = p /\ request[v].body.target \in users)]]

\* One row per project and user, of a project that exists; or the commit fails.
add_member(w) ==
    LET r == request[w] IN
    /\ r.step = "write" /\ r.body.op = "add"
    /\ members' = IF Live(r.on) /\ members[r.on][r.body.target] = None
                  THEN [members EXCEPT ![r.on][r.body.target] = r.body.role]
                  ELSE members
    /\ End(w)
    /\ UNCHANGED project

\* Mutant: an upsert.
update_member_role_Upsert(w) ==
    LET r == request[w] IN
    /\ r.step = "write" /\ r.body.op = "change"
    /\ members' = [members EXCEPT ![r.on][r.body.target] = r.body.role]
    /\ End(w)
    /\ UNCHANGED project

\* The update goes to the row that was looked up, by its id.
update_member_role(w) ==
    LET r == request[w] IN
    /\ r.step = "write" /\ r.body.op = "change"
    /\ members' = IF r.found THEN [members EXCEPT ![r.on][r.body.target] = r.body.role]
                  ELSE members
    /\ End(w)
    /\ UNCHANGED project

remove_member(w) ==
    LET r == request[w] IN
    /\ r.step = "write" /\ r.body.op = "remove"
    /\ IF r.found THEN DropRows(w, r.on, {r.body.target}) ELSE End(w) /\ UNCHANGED members
    /\ UNCHANGED project

\* The group's column changes to what was given, the stored name does not.
update_project(w) ==
    LET r == request[w] IN
    /\ r.step = "write" /\ r.body.op = "move"
    /\ project' = IF ~Live(r.on) THEN project
                  ELSE [project EXCEPT ![r.on] =
                          [@ EXCEPT !.group = r.body.group, !.byName = r.body.byName]]
    /\ End(w)
    /\ UNCHANGED members

\* With all its rows.
delete_project(w) ==
    LET r == request[w] IN
    /\ r.step = "write" /\ r.body.op = "delete"
    /\ project' = [project EXCEPT ![r.on].state = "deleted"]
    /\ DropRows(w, r.on, Users)

-----------------------------------------------------------------------------
Next ==
    \/ \E u \in Users, token \in Tokens, p \in Projects, g \in Groups :
          create_project(u, token, p, g)
    \/ \E w \in Workers :
          \/ \E p \in Projects : Receive(w, p)
          \/ FetchName(w) \/ Refuse(w)
          \/ \E u \in Users, token \in Tokens, body \in Bodies : Decide(w, u, token, body)
          \/ add_member(w) \/ update_member_role(w) \/ remove_member(w)
          \/ update_project(w) \/ delete_project(w)

Spec == Init /\ [][Next]_vars

\* resolve_batch, by which the page of the list tells the reader's role in each project: the
\* list's own copy of the resolver's decisions, from rows that are fetched together.
ResolveBatch(user, token) ==
    LET group(p) == FindGroupRole(token, project[p].name)
        own(p)   == IF members[p][user] = None /\ project[p].owner = user THEN "owner"
                    ELSE members[p][user]
    IN  [p \in Projects |->
            IF user \in RealmAdmins \/ group(p) = "admin" THEN "owner"
            ELSE IF own(p) = None /\ group(p) # None THEN "viewer"
            ELSE own(p)]

-----------------------------------------------------------------------------
(* Properties.                                                             *)

\* The owner of a project can manage it as long as it exists, whatever group admins
\* and racing requests do to its rows; a realm admin has no row to be protected.
OwnerKeepsControl ==
    \A p \in Projects : Live(p) /\ project[p].owner \notin RealmAdmins =>
        \A token \in Tokens :
            Resolve(project[p].owner, token, project[p], project[p].name,
                    members[p][project[p].owner]) = "owner"

\* Rights are checked before the write, and hold when it comes: whoever changes a
\* member may do so at that moment.
ChangeIsAuthorized ==
    [][\A p \in Projects, u \in Users :
          Live(p) /\ Live(p)' /\ members'[p][u] # members[p][u] =>
              \E w \in Workers : request[w].step = "write" /\ request[w].on = p
                               /\ RoleOf(request[w]) = "owner"]_vars

\* Who was removed stays so until added anew, also by requests that saw the row.
RemovedStaysRemoved ==
    [][\A p \in Projects, u \in Users :
          Live(p) /\ members[p][u] = None /\ members'[p][u] # None =>
              \E w \in Workers : request[w].body.op = "add" /\ request[w].body.target = u]_vars

\* The list shows no project that its reader could not open, provided that the column
\* for the group's id holds an id: the list also compares it with names, access does not.
\* The role that it shows is the one that a request would have.
ListedAreViewable ==
    \A u \in Users, token \in Tokens :
        LET shown == ResolveBatch(u, token) IN
        \A p \in Projects :
            Live(p) /\ ~project[p].byName /\ Listed(u, token, project[p], members[p][u]) =>
                /\ shown[p] # None
                /\ shown[p] = Resolve(u, token, project[p], project[p].name, members[p][u])
=============================================================================
