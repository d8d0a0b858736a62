---------------------------- MODULE ProjectProofs ----------------------------
(***************************************************************************)
(* Projects, as people share them and as scripts make them.                 *)
(*                                                                         *)
(* ProjectAccess, for any number of users, groups, projects and processes:  *)
(* the owner of a project keeps it, and a member's row changes only by the  *)
(* hand of one who may change it at that moment.  A right that was checked  *)
(* can be lost before the write if it came from the requester's row.  It is *)
(* not, because the only rows with that right are the owners', those are    *)
(* never changed, and owner_id is the reason for nobody's rights but a      *)
(* realm admin's.                                                          *)
(*                                                                         *)
(* Seeding, for any number of workers, runs, tries and faults: the API is   *)
(* not healthy before its tables are there, and seed runs complete what is  *)
(* missing and double nothing.  A run that nothing has disturbed has what   *)
(* all the steps behind it are for, and at its end it has all behind it.    *)
(***************************************************************************)
EXTENDS ProjectAccess, Seeding, TLAPS

\* The owner has the owner's row.
OwnersHaveRows ==
    \A p \in Projects : Live(p) /\ project[p].owner \notin RealmAdmins =>
        project[p].owner \in Users /\ members[p][project[p].owner] = "owner"

\* What a request may rest on until it ends.
Rights(r) ==
    \/ r.user \in RealmAdmins
    \/ FindGroupRole(r.token, r.name) = "admin"
    \/ members[r.on][r.user] = "owner"

Sound(r) ==
    /\ r.step # "idle" => r.on \in Projects /\ project[r.on].state # "fresh"
    /\ r.step = "write" =>
          /\ r.user \in Users /\ r.body \in Bodies
          /\ r.body.op \in {"change", "remove"} /\ r.found => Changeable(r.on, r.body.target)
          /\ r.body.op # "move" /\ Live(r.on) => Rights(r)

RequestsSound == \A w \in Workers : Sound(request[w])

IInv == TypeOK /\ OwnersHaveRows /\ RequestsSound

-----------------------------------------------------------------------------
\* What the body of each kind of request holds.
LEMMA BodyParts ==
    ASSUME NEW b \in Bodies
    PROVE  /\ b.op \in {"add", "change", "remove", "move", "delete"}
           /\ b.op \in {"add", "change"} => b.target \in Users /\ b.role \in {"viewer", "editor"}
           /\ b.op = "remove" => b.target \in Users
           /\ b.op = "move" => b.group \in Groups /\ b.byName \in BOOLEAN
  BY DEF Bodies

LEMMA IdleTyped == Idle \in Request /\ Idle.step = "idle"
  BY DEF Idle, Request, NoBody

\* Whoever has the role of an owner has it for good.
LEMMA OwnersHaveRights ==
    ASSUME TypeOK, OwnersHaveRows, NEW r, r.on \in Projects, r.user \in Users,
           Live(r.on), RoleOf(r) = "owner"
    PROVE  Rights(r)
<1>1. CASE r.user \in RealmAdmins \/ FindGroupRole(r.token, r.name) = "admin"
  BY <1>1 DEF Rights
<1>2. CASE ~(r.user \in RealmAdmins \/ FindGroupRole(r.token, r.name) = "admin")
  <2>1. CASE members[r.on][r.user] # None
    BY <1>2, <2>1 DEF RoleOf, Resolve, Rights
  <2>2. CASE members[r.on][r.user] = None
    <3>1. project[r.on].owner # r.user
      BY <1>2, <2>2 DEF OwnersHaveRows, None
    <3>2. RoleOf(r) \in {"viewer", None}
      BY <1>2, <2>2, <3>1 DEF RoleOf, Resolve
    <3> QED
      BY <3>2 DEF None
  <2> QED
    BY <2>1, <2>2
<1> QED
  BY <1>1, <1>2

LEMMA RightsOfOwner ==
    ASSUME NEW r, Rights(r)
    PROVE  RoleOf(r) = "owner"
  BY DEF Rights, RoleOf, Resolve, None

\* A step is safe for the rows if it lets the owners' be, and a project keep its owner.
RowsSafe ==
    \A p \in Projects :
        /\ project[p].state # "fresh" => project'[p].state # "fresh"
        /\ project[p].state # "fresh" /\ project'[p].state = "live" =>
              /\ project[p].state = "live"
              /\ project'[p].owner = project[p].owner
              /\ \A u \in Users : members[p][u] = "owner" => members'[p][u] = "owner"

\* Such a step keeps the requests sound that it leaves alone, but for their found.
SameBut(w) ==
    /\ request'[w].step = request[w].step /\ request'[w].user = request[w].user
    /\ request'[w].token = request[w].token /\ request'[w].on = request[w].on
    /\ request'[w].body = request[w].body /\ request'[w].name = request[w].name

LEMMA OthersSound ==
    ASSUME IInv, RowsSafe, NEW w \in Workers, SameBut(w),
           LET r == request[w] IN
              r.step = "write" /\ r.body.op \in {"change", "remove"} /\ request'[w].found
                  => r.found /\ members'[r.on][r.body.target] \notin {None, "owner"}
    PROVE  Sound(request[w])'
<1> DEFINE r == request[w]
<1> DEFINE s == request'[w]
<1>1. Sound(r)
  BY DEF IInv, RequestsSound
<1>2. s.step # "idle" => s.on \in Projects /\ project'[s.on].state # "fresh"
  BY <1>1 DEF SameBut, Sound, RowsSafe
<1>3. ASSUME s.step = "write"
      PROVE  /\ s.user \in Users /\ s.body \in Bodies
             /\ s.body.op \in {"change", "remove"} /\ s.found
                    => members'[s.on][s.body.target] \notin {None, "owner"}
  BY <1>1, <1>3 DEF SameBut, Sound
<1>4. ASSUME s.step = "write", s.body.op # "move", project'[s.on].state = "live"
      PROVE  \/ s.user \in RealmAdmins
             \/ FindGroupRole(s.token, s.name) = "admin"
             \/ members'[s.on][s.user] = "owner"
  <2>1. Live(r.on) /\ r.on \in Projects /\ r.user \in Users
    BY <1>1, <1>4 DEF SameBut, Sound, RowsSafe, Live
  <2>2. Rights(r)
    BY <1>1, <1>4, <2>1 DEF SameBut, Sound
  <2>3. members[r.on][r.user] = "owner" => members'[r.on][r.user] = "owner"
    BY <1>4, <2>1 DEF RowsSafe, Live, SameBut
  <2> QED
    BY <2>2, <2>3 DEF Rights, SameBut
<1> QED
  BY <1>2, <1>3, <1>4 DEF Sound, Rights, Changeable, Live

\* The same for a step that ends the request of w and leaves the others alone.
LEMMA EndSound ==
    ASSUME IInv, RowsSafe, NEW w \in Workers, End(w),
           \A v \in Workers : LET r == request[v] IN
              v # w /\ r.step = "write" /\ r.body.op \in {"change", "remove"} /\ r.found
                  => members'[r.on][r.body.target] \notin {None, "owner"}
    PROVE  RequestsSound' /\ request' \in [Workers -> Request]
<1>1. request' \in [Workers -> Request]
  BY IdleTyped DEF IInv, TypeOK, End
<1>2. request'[w] = Idle
  BY DEF IInv, TypeOK, End
<1>3. Sound(request[w])'
  BY <1>2, IdleTyped DEF Sound
<1>4. ASSUME NEW v \in Workers, v # w
      PROVE  Sound(request[v])'
  <2>1. request'[v] = request[v]
    BY <1>4 DEF IInv, TypeOK, End
  <2>2. SameBut(v)
    BY <2>1 DEF SameBut
  <2> QED
    BY <1>4, <2>1, <2>2, OthersSound
<1> QED
  BY <1>1, <1>3, <1>4 DEF RequestsSound

\* The same for a step that deletes rows and tells the requests that hold them.
LEMMA DropSound ==
    ASSUME IInv, RowsSafe, NEW w \in Workers, NEW p \in Projects, NEW users \in SUBSET Users,
           DropRows(w, p, users)
    PROVE  /\ RequestsSound' /\ request' \in [Workers -> Request]
           /\ members' \in [Projects -> [Users -> Roles \cup {None}]]
<1>1. members' \in [Projects -> [Users -> Roles \cup {None}]]
  BY DEF DropRows, IInv, TypeOK
<1>2. request' \in [Workers -> Request]
  <2>1. ASSUME NEW v \in Workers
        PROVE  request'[v] \in Request
    <3>1. CASE v = w
      BY <3>1, IdleTyped DEF DropRows
    <3>2. CASE v # w
      <4>1. PICK f \in BOOLEAN : request'[v] = [request[v] EXCEPT !.found = f]
        BY <3>2 DEF DropRows, IInv, TypeOK, Request
      <4> QED
        BY <4>1 DEF IInv, TypeOK, Request
    <3> QED
      BY <3>1, <3>2
  <2> QED
    BY <2>1 DEF DropRows
<1>3. Sound(request[w])'
  BY IdleTyped DEF DropRows, Sound
<1>4. ASSUME NEW v \in Workers, v # w
      PROVE  Sound(request[v])'
  <2>1. /\ SameBut(v)
        /\ request'[v].found =>
              request[v].found /\ ~(request[v].on = p /\ request[v].body.target \in users)
    BY <1>4 DEF SameBut, DropRows, IInv, TypeOK, Request
  <2>2. ASSUME request[v].step = "write", request[v].body.op \in {"change", "remove"},
               request'[v].found
        PROVE  /\ request[v].found
               /\ members'[request[v].on][request[v].body.target] \notin {None, "owner"}
    <3>1. /\ request[v].found /\ Changeable(request[v].on, request[v].body.target)
          /\ request[v].on \in Projects /\ request[v].body.target \in Users
      BY <2>1, <2>2, BodyParts DEF IInv, RequestsSound, Sound
    <3>2. members'[request[v].on][request[v].body.target]
            = members[request[v].on][request[v].body.target]
      BY <2>1, <2>2, <3>1 DEF DropRows, IInv, TypeOK
    <3> QED
      BY <3>1, <3>2 DEF Changeable
  <2> QED
    BY <2>1, <2>2, OthersSound
<1> QED
  BY <1>1, <1>2, <1>3, <1>4 DEF RequestsSound

\* A safe step that makes no project keeps the owners' rows.
LEMMA OwnersKept ==
    ASSUME IInv, RowsSafe,
           \A p \in Projects : project[p].state = "fresh" => project'[p].state # "live"
    PROVE  OwnersHaveRows'
  BY DEF IInv, OwnersHaveRows, RowsSafe, Live

\* What a request that is about to write holds.
LEMMA WriteParts ==
    ASSUME IInv, NEW w \in Workers, request[w].step = "write"
    PROVE  /\ request[w].on \in Projects /\ project[request[w].on].state # "fresh"
           /\ request[w].user \in Users /\ request[w].body \in Bodies
  BY DEF IInv, RequestsSound, Sound

-----------------------------------------------------------------------------
LEMMA CreateKeeps ==
    ASSUME IInv, NEW u \in Users, NEW token \in Tokens, NEW p \in Projects, NEW g \in Groups,
           create_project(u, token, p, g)
    PROVE  IInv'
<1>1. PICK name \in {g, None}, byName \in BOOLEAN :
          project' = [project EXCEPT ![p] =
              [state |-> "live", owner |-> u, group |-> g, byName |-> byName, name |-> name]]
  BY DEF create_project
<1>2. /\ project[p].state = "fresh" /\ project'[p].state = "live" /\ project'[p].owner = u
      /\ \A q \in Projects : q # p => project'[q] = project[q]
  BY <1>1 DEF create_project, Fresh, IInv, TypeOK
<1>3. /\ members' \in [Projects -> [Users -> Roles \cup {None}]]
      /\ u \notin RealmAdmins => members'[p][u] = "owner"
      /\ \A q \in Projects : q # p => members'[q] = members[q]
  BY DEF create_project, NoRows, Roles, IInv, TypeOK
<1>4. TypeOK'
  <2>1. [state |-> "live", owner |-> u, group |-> g, byName |-> byName, name |-> name]
           \in Project
    BY DEF Project
  <2>2. project' \in [Projects -> Project]
    BY <1>1, <2>1 DEF IInv, TypeOK
  <2> QED
    BY <1>3, <2>2 DEF create_project, IInv, TypeOK
<1>5. RowsSafe
  BY <1>2, <1>3 DEF RowsSafe
<1>6. OwnersHaveRows'
  <2>1. ASSUME NEW q \in Projects, q # p, project'[q].state = "live",
               project'[q].owner \notin RealmAdmins
        PROVE  project'[q].owner \in Users /\ members'[q][project'[q].owner] = "owner"
    BY <1>2, <1>3, <2>1 DEF IInv, OwnersHaveRows, Live
  <2> QED
    BY <1>2, <1>3, <2>1 DEF OwnersHaveRows, Live
<1>7. ASSUME NEW w \in Workers
      PROVE  Sound(request[w])'
  <2>1. SameBut(w) /\ request'[w].found = request[w].found
    BY DEF SameBut, create_project
  <2>2. ASSUME request[w].step = "write", request[w].body.op \in {"change", "remove"},
               request[w].found
        PROVE  members'[request[w].on][request[w].body.target] \notin {None, "owner"}
    BY <1>2, <1>3, <2>2, WriteParts DEF IInv, RequestsSound, Sound, Changeable
  <2> QED
    BY <1>5, <2>1, <2>2, OthersSound
<1> QED
  BY <1>4, <1>6, <1>7 DEF IInv, RequestsSound

\* A step of w that leaves the rows alone and keeps every project's state and owner.
QuietStep(w) ==
    /\ UNCHANGED members
    /\ \A p \in Projects : /\ project'[p].state = project[p].state
                           /\ project'[p].owner = project[p].owner
    /\ \A v \in Workers : v # w => request'[v] = request[v]

LEMMA QuietKeeps ==
    ASSUME IInv, NEW w \in Workers, QuietStep(w), TypeOK', Sound(request[w])'
    PROVE  IInv'
<1>1. RowsSafe
  BY DEF QuietStep, RowsSafe
<1>2. OwnersHaveRows'
  BY <1>1, OwnersKept DEF QuietStep
<1>3. ASSUME NEW v \in Workers, v # w
      PROVE  Sound(request[v])'
  <2>1. request'[v] = request[v] /\ SameBut(v)
    BY <1>3 DEF QuietStep, SameBut
  <2>2. request[v].step = "write" /\ request[v].body.op \in {"change", "remove"}
           /\ request[v].found
             => members'[request[v].on][request[v].body.target] \notin {None, "owner"}
    BY DEF QuietStep, IInv, RequestsSound, Sound, Changeable
  <2> QED
    BY <1>1, <2>1, <2>2, OthersSound
<1> QED
  BY <1>2, <1>3 DEF IInv, RequestsSound

LEMMA ReceiveKeeps ==
    ASSUME IInv, NEW w \in Workers, NEW p \in Projects, Receive(w, p)
    PROVE  IInv'
<1> DEFINE st == IF project[p].name = None THEN "fetch" ELSE "decide"
<1> DEFINE asked == IF project[p].name = None /\ ~project[p].byName
                    THEN project[p].group ELSE None
<1> DEFINE r == [Idle EXCEPT !.step = st, !.on = p, !.name = project[p].name, !.group = asked]
<1>1. r \in Request /\ r.step # "write" /\ r.on = p
  BY DEF Idle, Request, NoBody, IInv, TypeOK, Project
<1>2. request' = [request EXCEPT ![w] = r]
  BY DEF Receive
<1>3. project[p].state # "fresh"
  BY DEF Receive, Live
<1> HIDE DEF r
<1>4. request'[w] = r /\ TypeOK'
  BY <1>1, <1>2 DEF Receive, IInv, TypeOK
<1>5. QuietStep(w)
  BY <1>2 DEF QuietStep, Receive, IInv, TypeOK
<1>6. Sound(request[w])'
  BY <1>1, <1>3, <1>4 DEF Sound, Receive
<1> QED
  BY <1>4, <1>5, <1>6, QuietKeeps

LEMMA FetchKeeps ==
    ASSUME IInv, NEW w \in Workers, FetchName(w)
    PROVE  IInv'
<1>1. request[w].step = "fetch" /\ request[w].on \in Projects
      /\ project[request[w].on].state # "fresh"
  BY DEF FetchName, IInv, RequestsSound, Sound
<1>2. /\ project' \in [Projects -> Project]
      /\ \A p \in Projects : /\ project'[p].state = project[p].state
                             /\ project'[p].owner = project[p].owner
  <2>1. request[w].group \in Groups \cup {None}
    BY DEF IInv, TypeOK, Request
  <2>2. CASE UNCHANGED project
    BY <2>2 DEF IInv, TypeOK
  <2>3. CASE project' = [project EXCEPT ![request[w].on].name = request[w].group]
    BY <1>1, <2>1, <2>3 DEF IInv, TypeOK, Project
  <2> QED
    BY <2>2, <2>3 DEF FetchName
<1>3. /\ request'[w] \in Request /\ request'[w].step \in {"idle", "decide"}
      /\ request'[w].step = "decide" => request'[w].on = request[w].on
      /\ \A v \in Workers : v # w => request'[v] = request[v]
      /\ request' \in [Workers -> Request]
  <2>1. request[w].group \in Groups \cup {None}
    BY DEF IInv, TypeOK, Request
  <2>2. CASE End(w)
    BY <2>2, IdleTyped DEF End, IInv, TypeOK
  <2>3. ASSUME NEW n \in Groups \cup {None},
               request' = [request EXCEPT ![w] =
                   [request[w] EXCEPT !.step = "decide", !.name = n, !.group = None]]
        PROVE  request'[w] \in Request /\ request'[w].step = "decide"
               /\ request'[w].on = request[w].on
    BY <2>3 DEF IInv, TypeOK, Request
  <2>4. CASE request' = [request EXCEPT ![w] =
                 [request[w] EXCEPT !.step = "decide", !.group = None]]
    <3>1. request[w].name \in Groups \cup {None}
      BY DEF IInv, TypeOK, Request
    <3>2. request' = [request EXCEPT ![w] =
              [request[w] EXCEPT !.step = "decide", !.name = request[w].name, !.group = None]]
      BY <2>4 DEF IInv, TypeOK, Request
    <3>3. request'[w] \in Request /\ request'[w].step = "decide"
          /\ request'[w].on = request[w].on
      BY <3>1, <3>2, <2>3
    <3> QED
      BY <2>4, <3>3 DEF IInv, TypeOK
  <2>5. CASE request' = [request EXCEPT ![w] =
                 [request[w] EXCEPT !.step = "decide", !.name = request[w].group,
                                    !.group = None]]
    <3>1. request'[w] \in Request /\ request'[w].step = "decide"
          /\ request'[w].on = request[w].on
      BY <2>1, <2>5, <2>3
    <3> QED
      BY <2>5, <3>1 DEF IInv, TypeOK
  <2> QED
    BY <2>2, <2>4, <2>5 DEF FetchName
<1>4. TypeOK' /\ QuietStep(w)
  BY <1>2, <1>3 DEF FetchName, IInv, TypeOK, QuietStep
<1>5. Sound(request[w])'
  BY <1>1, <1>2, <1>3 DEF Sound
<1> QED
  BY <1>4, <1>5, QuietKeeps

LEMMA RefuseKeeps ==
    ASSUME IInv, NEW w \in Workers, Refuse(w)
    PROVE  IInv'
<1>1. request'[w] = Idle /\ TypeOK' /\ QuietStep(w)
  BY IdleTyped DEF Refuse, End, IInv, TypeOK, QuietStep
<1>2. Sound(request[w])'
  BY <1>1, IdleTyped DEF Sound
<1> QED
  BY <1>1, <1>2, QuietKeeps

LEMMA DecideKeeps ==
    ASSUME IInv, NEW w \in Workers, NEW u \in Users, NEW token \in Tokens, NEW body \in Bodies,
           Decide(w, u, token, body)
    PROVE  IInv'
<1> DEFINE r == [request[w] EXCEPT !.step = "write", !.user = u, !.token = token,
                                   !.body = body, !.found = body.op \in {"change", "remove"}]
<1>1. request' = [request EXCEPT ![w] = r] /\ request[w].step = "decide"
  BY DEF Decide
<1>2. /\ r \in Request /\ r.step = "write" /\ r.user = u /\ r.body = body
      /\ r.on = request[w].on
  <2> DEFINE f == body.op \in {"change", "remove"}
  <2>1. f \in BOOLEAN /\ request[w] \in Request
    BY DEF IInv, TypeOK
  <2> HIDE DEF f
  <2>2. r = [request[w] EXCEPT !.step = "write", !.user = u, !.token = token,
                               !.body = body, !.found = f]
    BY DEF f
  <2> QED
    BY <2>1, <2>2 DEF Request
<1>3. /\ Allows(RoleOf(r), body.op)
      /\ body.op \in {"change", "remove"} => Changeable(r.on, body.target)
  BY DEF Decide
<1>4. r.on \in Projects /\ project[r.on].state # "fresh"
  BY <1>1, <1>2 DEF IInv, RequestsSound, Sound
<1> HIDE DEF r
<1>5. body.op # "move" /\ Live(r.on) => Rights(r)
  BY <1>2, <1>3, <1>4, OwnersHaveRights DEF Allows, IInv
<1>6. request'[w] = r /\ TypeOK' /\ QuietStep(w)
  BY <1>1, <1>2 DEF Decide, IInv, TypeOK, QuietStep
<1>7. Sound(request[w])'
  BY <1>2, <1>3, <1>4, <1>5, <1>6 DEF Sound, Decide, Changeable, Rights, Live
<1> QED
  BY <1>6, <1>7, QuietKeeps

LEMMA MoveKeeps ==
    ASSUME IInv, NEW w \in Workers, update_project(w)
    PROVE  IInv'
<1>1. /\ request[w].on \in Projects /\ request[w].body.group \in Groups
      /\ request[w].body.byName \in BOOLEAN
  BY WriteParts, BodyParts DEF update_project
<1>2. /\ project' \in [Projects -> Project]
      /\ \A p \in Projects : /\ project'[p].state = project[p].state
                             /\ project'[p].owner = project[p].owner
  <2> DEFINE row == [project[request[w].on] EXCEPT !.group = request[w].body.group,
                                                   !.byName = request[w].body.byName]
  <2>1. project' = project \/ project' = [project EXCEPT ![request[w].on] = row]
    BY DEF update_project
  <2>2. project \in [Projects -> Project]
    BY DEF IInv, TypeOK
  <2>3. /\ row \in Project /\ row.state = project[request[w].on].state
        /\ row.owner = project[request[w].on].owner
    <3>1. PICK old \in Project : old = project[request[w].on]
      BY <1>1, <2>2
    <3>2. row = [old EXCEPT !.group = request[w].body.group, !.byName = request[w].body.byName]
      BY <3>1
    <3> HIDE DEF row
    <3> QED
      BY <1>1, <3>1, <3>2 DEF Project
  <2> HIDE DEF row
  <2> QED
    BY <1>1, <2>1, <2>2, <2>3
<1>3. request'[w] = Idle /\ TypeOK' /\ QuietStep(w)
  BY <1>2, IdleTyped DEF update_project, End, IInv, TypeOK, QuietStep
<1>4. Sound(request[w])'
  BY <1>3, IdleTyped DEF Sound
<1> QED
  BY <1>3, <1>4, QuietKeeps

\* A new row, or a new role in a row that is not the owner's.
LEMMA RowWriteKeeps ==
    ASSUME IInv, NEW w \in Workers, NEW p \in Projects, NEW u \in Users,
           NEW role \in {"viewer", "editor"},
           members' = [members EXCEPT ![p][u] = role], members[p][u] # "owner",
           End(w), UNCHANGED project
    PROVE  IInv'
<1>1. /\ members' \in [Projects -> [Users -> Roles \cup {None}]]
      /\ members'[p][u] = role
      /\ \A q \in Projects, v \in Users : q # p \/ v # u => members'[q][v] = members[q][v]
  BY DEF IInv, TypeOK, Roles
<1>2. RowsSafe
  BY <1>1 DEF RowsSafe
<1>3. OwnersHaveRows'
  BY <1>2, OwnersKept
<1>4. ASSUME NEW v \in Workers, v # w, request[v].step = "write",
             request[v].body.op \in {"change", "remove"}, request[v].found
      PROVE  members'[request[v].on][request[v].body.target] \notin {None, "owner"}
  <2>1. /\ request[v].on \in Projects /\ request[v].body.target \in Users
        /\ members[request[v].on][request[v].body.target] \notin {None, "owner"}
    BY <1>4, WriteParts, BodyParts DEF IInv, RequestsSound, Sound, Changeable
  <2> QED
    BY <1>1, <2>1 DEF None
<1>5. RequestsSound' /\ request' \in [Workers -> Request]
  BY <1>2, <1>4, EndSound
<1> QED
  BY <1>1, <1>3, <1>5 DEF IInv, TypeOK

\* A request that fails at its write.
LEMMA FailedWriteKeeps ==
    ASSUME IInv, NEW w \in Workers, End(w), UNCHANGED <<project, members>>
    PROVE  IInv'
<1>1. request'[w] = Idle /\ TypeOK' /\ QuietStep(w)
  BY IdleTyped DEF End, IInv, TypeOK, QuietStep
<1>2. Sound(request[w])'
  BY <1>1, IdleTyped DEF Sound
<1> QED
  BY <1>1, <1>2, QuietKeeps

LEMMA MemberKeeps ==
    ASSUME IInv, NEW w \in Workers, add_member(w) \/ update_member_role(w)
    PROVE  IInv'
<1>1. /\ request[w].step = "write" /\ request[w].body.op \in {"add", "change"}
      /\ End(w) /\ UNCHANGED project
  BY DEF add_member, update_member_role
<1>2. /\ request[w].on \in Projects /\ request[w].body.target \in Users
      /\ request[w].body.role \in {"viewer", "editor"}
  BY <1>1, WriteParts, BodyParts
<1>3. CASE UNCHANGED members
  BY <1>1, <1>3, FailedWriteKeeps
<1>4. CASE /\ members' = [members EXCEPT ![request[w].on][request[w].body.target]
                               = request[w].body.role]
           /\ members[request[w].on][request[w].body.target] # "owner"
  BY <1>1, <1>2, <1>4, RowWriteKeeps
<1>5. update_member_role(w) /\ request[w].found =>
          members[request[w].on][request[w].body.target] # "owner"
  BY DEF update_member_role, IInv, RequestsSound, Sound, Changeable
<1> QED
  BY <1>3, <1>4, <1>5 DEF add_member, update_member_role, None

LEMMA RemoveKeeps ==
    ASSUME IInv, NEW w \in Workers, remove_member(w)
    PROVE  IInv'
<1> DEFINE p == request[w].on
<1> DEFINE u == request[w].body.target
<1>1. p \in Projects /\ u \in Users /\ UNCHANGED project
  BY WriteParts, BodyParts DEF remove_member
<1>2. CASE ~request[w].found
  BY <1>2, FailedWriteKeeps DEF remove_member
<1>3. CASE request[w].found
  <2>1. DropRows(w, p, {u}) /\ members[p][u] # "owner"
    BY <1>3 DEF remove_member, IInv, RequestsSound, Sound, Changeable
  <2>2. RowsSafe
    BY <1>1, <2>1 DEF RowsSafe, DropRows, IInv, TypeOK
  <2>3. OwnersHaveRows'
    BY <1>1, <2>2, OwnersKept
  <2> QED
    BY <1>1, <2>1, <2>2, <2>3, DropSound DEF IInv, TypeOK
<1> QED
  BY <1>2, <1>3

LEMMA DeleteKeeps ==
    ASSUME IInv, NEW w \in Workers, delete_project(w)
    PROVE  IInv'
<1> DEFINE p == request[w].on
<1>1. p \in Projects /\ project[p].state # "fresh" /\ DropRows(w, p, Users)
  BY WriteParts DEF delete_project
<1>2. /\ project' \in [Projects -> Project] /\ project'[p].state = "deleted"
      /\ \A q \in Projects : q # p => project'[q] = project[q]
  BY <1>1 DEF delete_project, IInv, TypeOK, Project
<1>3. \A q \in Projects : q # p => members'[q] = members[q]
  BY <1>1 DEF DropRows, IInv, TypeOK
<1>4. RowsSafe
  BY <1>2, <1>3 DEF RowsSafe
<1>5. OwnersHaveRows'
  BY <1>2, <1>4, OwnersKept
<1> QED
  BY <1>1, <1>2, <1>4, <1>5, DropSound DEF IInv, TypeOK

-----------------------------------------------------------------------------
LEMMA InitInv == Init => IInv
<1> SUFFICES ASSUME Init PROVE IInv
  OBVIOUS
<1>1. TypeOK
  <2>1. Fresh \in Project
    BY DEF Fresh, Project
  <2>2. \A u \in Users, g \in Groups, n \in BOOLEAN :
           [state |-> "live", owner |-> u, group |-> g, byName |-> n, name |-> None] \in Project
    BY DEF Project
  <2>3. project \in [Projects -> Project]
    BY <2>1, <2>2 DEF Init
  <2> QED
    BY <2>3, IdleTyped DEF Init, TypeOK, Roles
<1>2. OwnersHaveRows
  <2>1. ASSUME NEW p \in Projects, Live(p)
        PROVE  project[p].owner \in Users
    BY <2>1 DEF Init, Live, Fresh
  <2> QED
    BY <2>1 DEF Init, OwnersHaveRows
<1>3. RequestsSound
  BY IdleTyped DEF Init, RequestsSound, Sound
<1> QED
  BY <1>1, <1>2, <1>3 DEF IInv

LEMMA NextInv == IInv /\ [Next]_vars => IInv'
<1> SUFFICES ASSUME IInv, [Next]_vars PROVE IInv'
  OBVIOUS
<1>1. CASE UNCHANGED vars
  BY <1>1 DEF vars, IInv, TypeOK, OwnersHaveRows, RequestsSound, Sound, Rights, Changeable, Live
<1>2. CASE Next
  BY <1>2, CreateKeeps, ReceiveKeeps, FetchKeeps, RefuseKeeps, DecideKeeps, MemberKeeps,
     RemoveKeeps, MoveKeeps, DeleteKeeps DEF Next
<1> QED
  BY <1>1, <1>2

\* Requests about to write rest on rights that last, rows they hold are not an owner's,
\* and every owner but a realm admin has a row.
THEOREM Invariant == Spec => []IInv
  BY InitInv, NextInv, PTL DEF Spec

\* Every row and every request keeps its type.
THEOREM TypeCorrect == Spec => []TypeOK
<1>1. IInv => TypeOK
  BY DEF IInv
<1> QED
  BY Invariant, <1>1, PTL

\* Nobody takes a project from its owner, however many group admins there are.
THEOREM OwnerStays == Spec => []OwnerKeepsControl
<1>1. ASSUME IInv, NEW p \in Projects, Live(p), project[p].owner \notin RealmAdmins,
             NEW token \in Tokens
      PROVE  Resolve(project[p].owner, token, project[p], project[p].name,
                     members[p][project[p].owner]) = "owner"
  BY <1>1 DEF IInv, OwnersHaveRows, Resolve, None
<1>2. IInv => OwnerKeepsControl
  BY <1>1 DEF OwnerKeepsControl
<1> QED
  BY Invariant, <1>2, PTL

\* A row that changes while its project lives is that of a request in its write.
LEMMA RowsChangeByRequest ==
    ASSUME IInv, Next, NEW p \in Projects, NEW u \in Users, Live(p),
           members'[p][u] # members[p][u], project'[p].state = "live" \/ members'[p][u] # None
    PROVE  \E w \in Workers : /\ request[w].step = "write" /\ request[w].on = p
                             /\ request[w].body.op \in {"add", "change", "remove"}
                             /\ (members[p][u] = None =>
                                   request[w].body.op = "add" /\ request[w].body.target = u)
<1>1. ASSUME NEW w \in Workers
      PROVE  /\ \A q \in Projects : ~Receive(w, q)
             /\ ~FetchName(w) /\ ~Refuse(w) /\ ~update_project(w)
             /\ \A v \in Users, token \in Tokens, body \in Bodies : ~Decide(w, v, token, body)
  BY DEF Receive, FetchName, Refuse, update_project, Decide
<1>2. CASE \E v \in Users, token \in Tokens, q \in Projects, g \in Groups :
              create_project(v, token, q, g)
  BY <1>2 DEF create_project, Fresh, Live, IInv, TypeOK
<1>3. CASE \E w \in Workers : delete_project(w)
  <2>1. PICK w \in Workers : delete_project(w)
    BY <1>3
  <2>2. request[w].on \in Projects /\ DropRows(w, request[w].on, Users)
    BY <2>1, WriteParts DEF delete_project
  <2>3. CASE request[w].on = p
    <3>1. members'[p][u] = None
      BY <2>2, <2>3 DEF DropRows, IInv, TypeOK
    <3>2. project'[p].state = "deleted"
      BY <2>1, <2>3 DEF delete_project, IInv, TypeOK, Project
    <3> QED
      BY <3>1, <3>2
  <2> QED
    BY <2>2, <2>3 DEF DropRows, IInv, TypeOK
<1>4. ASSUME NEW w \in Workers, add_member(w) \/ update_member_role(w) \/ remove_member(w)
      PROVE  /\ request[w].step = "write" /\ request[w].on = p
             /\ request[w].body.op \in {"add", "change", "remove"}
             /\ (members[p][u] = None =>
                   request[w].body.op = "add" /\ request[w].body.target = u)
  <2>1. /\ request[w].step = "write" /\ request[w].on \in Projects
        /\ request[w].body.op \in {"add", "change", "remove"}
        /\ request[w].body.target \in Users
    BY <1>4, WriteParts, BodyParts DEF add_member, update_member_role, remove_member
  <2>2. /\ request[w].body.op \in {"change", "remove"} => request[w].found
        /\ request[w].body.op \in {"change", "remove"} /\ request[w].found =>
              members[request[w].on][request[w].body.target] # None
    BY <1>4, <2>1 DEF add_member, update_member_role, remove_member, IInv, RequestsSound, Sound,
                      Changeable
  <2>3. request[w].on = p /\ request[w].body.target = u
    BY <1>4, <2>1 DEF add_member, update_member_role, remove_member, DropRows, IInv, TypeOK
  <2> QED
    BY <2>1, <2>2, <2>3
<1> QED
  BY <1>1, <1>2, <1>3, <1>4 DEF Next

\* Whoever changes a row has the right to at the moment the row changes, not only when
\* the request was checked.
THEOREM ChangesAuthorized == Spec => ChangeIsAuthorized
<1>1. ASSUME IInv, [Next]_vars, NEW p \in Projects, NEW u \in Users, Live(p), Live(p)',
             members'[p][u] # members[p][u]
      PROVE  \E w \in Workers : request[w].step = "write" /\ request[w].on = p
                               /\ RoleOf(request[w]) = "owner"
  <2>1. Next /\ project'[p].state = "live"
    BY <1>1 DEF vars, Live
  <2>2. PICK w \in Workers : /\ request[w].step = "write" /\ request[w].on = p
                            /\ request[w].body.op \in {"add", "change", "remove"}
                            /\ (members[p][u] = None =>
                                  request[w].body.op = "add" /\ request[w].body.target = u)
    BY <1>1, <2>1, RowsChangeByRequest
  <2>3. Rights(request[w])
    BY <1>1, <2>2 DEF IInv, RequestsSound, Sound, Live
  <2> QED
    BY <2>2, <2>3, RightsOfOwner
<1>2. IInv /\ [Next]_vars =>
         [\A p \in Projects, u \in Users :
             Live(p) /\ Live(p)' /\ members'[p][u] # members[p][u] =>
                 \E w \in Workers : request[w].step = "write" /\ request[w].on = p
                                  /\ RoleOf(request[w]) = "owner"]_vars
  BY <1>1
<1> QED
  BY Invariant, <1>2, PTL DEF Spec, ChangeIsAuthorized

\* No request that saw a row brings it back after it was removed.
THEOREM NoneComesBack == Spec => RemovedStaysRemoved
<1>1. ASSUME IInv, [Next]_vars, NEW p \in Projects, NEW u \in Users, Live(p),
             members[p][u] = None, members'[p][u] # None
      PROVE  \E w \in Workers : request[w].body.op = "add" /\ request[w].body.target = u
  <2>1. Next /\ members'[p][u] # members[p][u]
    BY <1>1 DEF vars
  <2>2. project'[p].state = "live" \/ members'[p][u] # None
    BY <1>1
  <2>3. PICK w \in Workers : /\ request[w].step = "write" /\ request[w].on = p
                            /\ request[w].body.op \in {"add", "change", "remove"}
                            /\ (members[p][u] = None =>
                                  request[w].body.op = "add" /\ request[w].body.target = u)
    BY <1>1, <2>1, <2>2, RowsChangeByRequest
  <2> QED
    BY <1>1, <2>3
<1>2. IInv /\ [Next]_vars =>
         [\A p \in Projects, u \in Users :
             Live(p) /\ members[p][u] = None /\ members'[p][u] # None =>
                 \E w \in Workers : request[w].body.op = "add" /\ request[w].body.target = u]_vars
  BY <1>1
<1> QED
  BY Invariant, <1>2, PTL DEF Spec, RemovedStaysRemoved

-----------------------------------------------------------------------------
\* The page of the list and the resolver come to the same role, in their own ways.
LEMMA SameRole ==
    ASSUME NEW u \in Users, NEW token \in Tokens, NEW p \in Projects
    PROVE  ResolveBatch(u, token)[p] =
              Resolve(u, token, project[p], project[p].name, members[p][u])
<1> DEFINE group == FindGroupRole(token, project[p].name)
<1> HIDE DEF group
<1>1. ResolveBatch(u, token)[p] =
        IF u \in RealmAdmins \/ group = "admin" THEN "owner"
        ELSE IF (IF members[p][u] = None /\ project[p].owner = u THEN "owner"
                 ELSE members[p][u]) = None /\ group # None THEN "viewer"
        ELSE IF members[p][u] = None /\ project[p].owner = u THEN "owner"
        ELSE members[p][u]
  BY DEF ResolveBatch, group
<1>2. Resolve(u, token, project[p], project[p].name, members[p][u]) =
        IF u \in RealmAdmins \/ group = "admin" THEN "owner"
        ELSE IF members[p][u] # None THEN members[p][u]
        ELSE IF project[p].owner = u THEN "owner"
        ELSE IF group # None THEN "viewer"
        ELSE None
  BY DEF Resolve, group
<1> QED
  BY <1>1, <1>2 DEF None

\* A project that is listed has a role for its reader, whatever names the group.
LEMMA ListedHaveRole ==
    ASSUME NEW u \in Users, NEW token \in Tokens, NEW p \in Projects,
           ~project[p].byName, Listed(u, token, project[p], members[p][u])
    PROVE  Resolve(u, token, project[p], project[p].name, members[p][u]) # None
<1>1. CASE u \in RealmAdmins \/ project[p].owner = u \/ members[p][u] # None
  BY <1>1 DEF Resolve, None
<1>2. CASE project[p].name # None /\ parse_group_roles(token)[project[p].name] # None
  <2>1. FindGroupRole(token, project[p].name) # None
    BY <1>2 DEF FindGroupRole
  <2> QED
    BY <2>1 DEF Resolve, None
<1> QED
  BY <1>1, <1>2 DEF Listed

\* The list of projects (project_service.py) and the resolver (rbac_service.py) are
\* written apart and agree in every state: what is listed can be opened, with the role
\* that the page shows, where the group's column holds an id.
THEOREM ListedCanBeOpened == Spec => []ListedAreViewable
<1>1. ListedAreViewable
  BY SameRole, ListedHaveRole DEF ListedAreViewable
<1> QED
  BY <1>1, PTL

-----------------------------------------------------------------------------
(* Seeding: the steps of a script and what they are for.                   *)

\* The step by which a run is to have item x.
StepOf(x) == IF x = "memberships" THEN "grants"
             ELSE IF x = "features" THEN "regions" ELSE x

\* The place of a step in seed_data.py's script; a step of seeding.py's has four more than its
\* own, so that no two steps of a script share one.
Rank(s) ==
    IF s = "api" THEN 1
    ELSE IF s = "keycloak" THEN 2
    ELSE IF s = "users" THEN 3
    ELSE IF s = "roles" THEN 4
    ELSE IF s \in {"group", "regions"} THEN 5
    ELSE IF s \in {"subgroups", "watersheds"} THEN 6
    ELSE IF s \in {"grants", "frost"} THEN 7
    ELSE IF s \in {"token", "catalogue"} THEN 8
    ELSE IF s \in {"owner", "stations"} THEN 9
    ELSE IF s \in {"hydro", "demo_group"} THEN 10
    ELSE IF s \in {"members", "demo"} THEN 11
    ELSE IF s = "sensor" THEN 12
    ELSE IF s = "source_owner" THEN 13
    ELSE IF s = "sources" THEN 14
    ELSE IF s = "device_type" THEN 15
    ELSE IF s = "api_type" THEN 16
    ELSE IF s = "parser" THEN 17
    ELSE IF s = "source_sensor" THEN 18
    ELSE IF s = "config" THEN 19
    ELSE IF s = "tests" THEN 20
    ELSE IF s = "function" THEN 21
    ELSE 22

LEMMA ApiRanks == \A m \in 1..22 : Rank(ApiSteps[m]) = m
<1>1. /\ Rank(ApiSteps[1]) = 1
    /\ Rank(ApiSteps[2]) = 2
    /\ Rank(ApiSteps[3]) = 3
    /\ Rank(ApiSteps[4]) = 4
    /\ Rank(ApiSteps[5]) = 5
    /\ Rank(ApiSteps[6]) = 6
    /\ Rank(ApiSteps[7]) = 7
    /\ Rank(ApiSteps[8]) = 8
    /\ Rank(ApiSteps[9]) = 9
    /\ Rank(ApiSteps[10]) = 10
    /\ Rank(ApiSteps[11]) = 11
  BY DEF Rank, ApiSteps
<1>2. /\ Rank(ApiSteps[12]) = 12
    /\ Rank(ApiSteps[13]) = 13
    /\ Rank(ApiSteps[14]) = 14
    /\ Rank(ApiSteps[15]) = 15
    /\ Rank(ApiSteps[16]) = 16
    /\ Rank(ApiSteps[17]) = 17
    /\ Rank(ApiSteps[18]) = 18
    /\ Rank(ApiSteps[19]) = 19
    /\ Rank(ApiSteps[20]) = 20
    /\ Rank(ApiSteps[21]) = 21
    /\ Rank(ApiSteps[22]) = 22
  BY DEF Rank, ApiSteps
<1> QED BY <1>1, <1>2

LEMMA DatabaseRanks == \A m \in 1..7 : Rank(DatabaseSteps[m]) = m + 4
<1>1. /\ Rank(DatabaseSteps[1]) = 5
    /\ Rank(DatabaseSteps[2]) = 6
    /\ Rank(DatabaseSteps[3]) = 7
    /\ Rank(DatabaseSteps[4]) = 8
    /\ Rank(DatabaseSteps[5]) = 9
    /\ Rank(DatabaseSteps[6]) = 10
    /\ Rank(DatabaseSteps[7]) = 11
  BY DEF Rank, DatabaseSteps
<1> QED BY <1>1

LEMMA Lengths ==
    /\ Steps["api"] = ApiSteps /\ DOMAIN ApiSteps = 1..22
    /\ Steps["database"] = DatabaseSteps /\ DOMAIN DatabaseSteps = 1..7
    /\ DOMAIN Steps = {"api", "database"}
<1>1. DOMAIN ApiSteps = 1..22
  BY DEF ApiSteps
<1>2. DOMAIN DatabaseSteps = 1..7
  BY DEF DatabaseSteps
<1>3. Steps["api"] = ApiSteps /\ Steps["database"] = DatabaseSteps /\ DOMAIN Steps = {"api", "database"}
  BY DEF Steps
<1> QED BY <1>1, <1>2, <1>3

LEMMA StepsDiffer ==
    ASSUME NEW k \in DOMAIN Steps, NEW m \in DOMAIN Steps[k], NEW n \in DOMAIN Steps[k],
           Steps[k][m] = Steps[k][n]
    PROVE  m = n
<1>1. CASE k = "api"
  BY <1>1, Lengths, ApiRanks
<1>2. CASE k = "database"
  BY <1>2, Lengths, DatabaseRanks
<1> QED BY <1>1, <1>2, Lengths

LEMMA PromisedByApi ==
    ASSUME NEW x \in Promised["api"]
    PROVE  \E m \in 1..21 : ApiSteps[m] = StepOf(x)
<1> DEFINE Taken(s) == \E m \in 1..21 : ApiSteps[m] = s
<1>1. Taken("users") /\ Taken("roles") /\ Taken("group") /\ Taken("subgroups") /\ Taken("grants")
  BY DEF ApiSteps
<1>2. Taken("hydro") /\ Taken("members") /\ Taken("sensor") /\ Taken("sources") /\ Taken("device_type")
  BY DEF ApiSteps
<1>3. Taken("api_type") /\ Taken("parser") /\ Taken("source_sensor") /\ Taken("config") /\ Taken("function")
  BY DEF ApiSteps
<1>4. Taken(StepOf(x))
  <2> HIDE DEF Taken
  <2>1. CASE x = "memberships"
    BY <2>1, <1>1 DEF StepOf
  <2>2. CASE x # "memberships"
    <3>1. x # "features"
      BY DEF Promised
    <3>2. StepOf(x) = x
      BY <2>2, <3>1 DEF StepOf
    <3> QED BY <3>2, <2>2, <1>1, <1>2, <1>3 DEF Promised
  <2> QED BY <2>1, <2>2
<1> QED BY <1>4

\* All that a run of seeding.py promises comes before its last step.
LEMMA PromisedByDatabase ==
    ASSUME NEW x \in Promised["database"]
    PROVE  \E m \in 1..6 : DatabaseSteps[m] = StepOf(x)
<1> DEFINE Taken(s) == \E m \in 1..6 : DatabaseSteps[m] = s
<1>1. Taken("regions") /\ Taken("watersheds") /\ Taken("catalogue") /\ Taken("demo_group")
  BY DEF DatabaseSteps
<1>2. Taken(StepOf(x))
  <2> HIDE DEF Taken
  <2>1. CASE x = "features"
    BY <2>1, <1>1 DEF StepOf
  <2>2. CASE x # "features"
    <3>1. x # "memberships"
      BY DEF Promised
    <3>2. StepOf(x) = x
      BY <2>2, <3>1 DEF StepOf
    <3> QED BY <3>2, <2>2, <1>1 DEF Promised
  <2> QED BY <2>1, <2>2
<1> QED BY <1>2

\* Who looks for s finds the place where it is.
LEMMA PositionFound ==
    ASSUME run.kind \in DOMAIN Steps, NEW n \in DOMAIN Steps[run.kind]
    PROVE  Position(Steps[run.kind][n]) = n
BY StepsDiffer DEF Position

-----------------------------------------------------------------------------
\* The run has passed step s, be it that it has taken it.
Behind(s) == \E m \in 1..(run.at - 1) : Steps[run.kind][m] = s

\* What the services keep unique.
Unique == Items \ (Sought \cup {"sensor", "source_sensor", "parser"})

RunRecord == [kind : {"none"} \cup DOMAIN Steps, at : Nat, tries : 0..(MaxTries - 1),
              found : {"unknown", "no"}, clean : BOOLEAN]

\* Half of a pair is not taken for the whole.
Stocked ==
    /\ have \in [Items -> Nat] /\ missed \subseteq Sought
    /\ \A x \in Unique : have[x] <= 1
    /\ have["regions"] > 0 => have["features"] > 0
    /\ OneOfEach

RunTyped == run \in RunRecord /\ (Running => run.at \in DOMAIN Steps[run.kind])

\* A run adds what it found missing, and nothing came between, or its look had failed.
Looked ==
    Running /\ run.found # "unknown" =>
        /\ StepName \in Sought
        /\ have[StepName] = 0 \/ StepName \in missed

\* A run that nothing disturbed has what the steps behind it are for.
Completing ==
    Running /\ run.clean => \A x \in Promised[run.kind] : Behind(StepOf(x)) => have[x] > 0

RunOK == RunTyped /\ Looked /\ Completing

\* Nothing is taken away.
Growing == \A x \in Items : have[x] > 0 => have'[x] > 0

LEMMA Named ==
    /\ Sought \subseteq Items /\ Unique \subseteq Items
    /\ Unique \cap Sought = {}
    /\ "features" \in Unique /\ "stations" \in Unique /\ "regions" \in Unique
BY DEF Sought, SeededProjects, Entities, Items, Unique

LEMMA PromisedAreItems == \A k \in DOMAIN Steps : Promised[k] \subseteq Items
<1>1. Promised["api"] \subseteq Items /\ Promised["database"] \subseteq Items
  BY DEF Promised, Items
<1> QED BY <1>1, Lengths

LEMMA MakeKeeps ==
    ASSUME Stocked, NEW xs \in SUBSET Unique, Make(xs), missed' = missed,
           "regions" \in xs => "features" \in xs
    PROVE  /\ Stocked'
           /\ Growing
           /\ \A x \in Sought : have'[x] = have[x]
           /\ \A x \in xs : have'[x] = 1
<1>1. have' \in [Items -> Nat] /\ \A x \in Items : have'[x] = IF x \in xs THEN 1 ELSE have[x]
  BY DEF Make, Stocked
<1>2. /\ \A x \in Sought : have'[x] = have[x]
      /\ \A x \in Unique : have'[x] <= 1
  BY <1>1, Named DEF Stocked
<1>3. \A x \in Items : have[x] > 0 => have'[x] > 0
  BY <1>1
<1>4. have'["regions"] > 0 => have'["features"] > 0
  BY <1>1, <1>3, Named DEF Stocked
<1>5. OneOfEach'
  BY <1>2 DEF OneOfEach, Stocked
<1> QED BY <1>1, <1>2, <1>3, <1>4, <1>5, Named DEF Stocked, Growing

LEMMA AddKeeps ==
    ASSUME Stocked, NEW x \in Items \ Unique, Add(x), missed' = missed,
           x \in Sought => have[x] = 0 \/ x \in missed
    PROVE  Stocked' /\ have'[x] > 0 /\ Growing
<1>1. have' \in [Items -> Nat] /\ \A y \in Items : have'[y] = IF y = x THEN have[x] + 1 ELSE have[y]
  BY DEF Add, Stocked
<1>2. \A y \in Unique : have'[y] = have[y]
  BY <1>1, Named
<1>3. \A y \in Items : have[y] > 0 => have'[y] > 0
  BY <1>1 DEF Stocked
<1>4. OneOfEach'
  BY <1>1, Named DEF OneOfEach, Stocked
<1>5. have'[x] > 0
  BY <1>1 DEF Stocked
<1> QED BY <1>1, <1>2, <1>3, <1>4, <1>5, Named DEF Stocked, Growing

-----------------------------------------------------------------------------
\* What a run may do next.

LEMMA ExitKeeps == ASSUME Exit PROVE RunOK'
<1>1. run' \in RunRecord /\ ~Running'
  BY TriesAssumption, Lengths DEF Exit, NoRun, RunRecord, Running
<1> QED BY <1>1 DEF RunOK, RunTyped, Looked, Completing

\* A run that stays at its step.
LEMMA StayKeeps ==
    ASSUME RunOK, Running, Growing,
           run' \in RunRecord, run'.kind = run.kind, run'.at = run.at,
           run'.clean => run.clean, Looked'
    PROVE  RunOK'
<1>1. RunTyped'
  BY DEF RunOK, RunTyped, Running
<1>2. Completing'
  <2> SUFFICES ASSUME run.clean, NEW x \in Promised[run.kind], Behind(StepOf(x))
               PROVE  have'[x] > 0
    BY DEF Completing, Running, Behind
  <2>1. x \in Items
    BY PromisedAreItems DEF RunOK, RunTyped, RunRecord, Running
  <2> QED BY <2>1 DEF RunOK, Completing, Growing, Running
<1> QED BY <1>1, <1>2 DEF RunOK

\* One that goes on to a step.
LEMMA JumpKeeps ==
    ASSUME RunOK, Running, NEW n \in DOMAIN Steps[run.kind], NEW c \in BOOLEAN,
           Jump(Steps[run.kind][n], c),
           run.clean /\ c => \A x \in Promised[run.kind] :
              (\E m \in 1..(n - 1) : Steps[run.kind][m] = StepOf(x)) => have'[x] > 0
    PROVE  RunOK'
<1>1. run.kind \in DOMAIN Steps /\ n \in Nat
  BY Lengths DEF RunOK, RunTyped, RunRecord, Running
<1>2. run' \in RunRecord /\ run'.kind = run.kind /\ run'.at = n /\ run'.found = "unknown"
      /\ run'.clean = (run.clean /\ c)
  <2>1. Position(Steps[run.kind][n]) = n
    BY <1>1, PositionFound
  <2>2. run \in RunRecord /\ 0 \in 0..(MaxTries - 1)
    BY TriesAssumption DEF RunOK, RunTyped
  <2> QED BY <1>1, <2>1, <2>2 DEF Jump, RunRecord
<1>3. RunTyped' /\ Looked'
  BY <1>2 DEF RunTyped, Looked
<1>4. Completing'
  BY <1>2 DEF Completing, Behind
<1> QED BY <1>3, <1>4 DEF RunOK

\* One that leaves its path has nothing more to complete.
LEMMA LeaveKeeps ==
    ASSUME RunOK, Running, NEW n \in DOMAIN Steps[run.kind], Jump(Steps[run.kind][n], FALSE)
    PROVE  RunOK'
BY JumpKeeps

LEMMA OthersFollow ==
    ASSUME RunTyped, Running, StepName \notin {"demo", "done"}
    PROVE  run.at + 1 \in DOMAIN Steps[run.kind]
<1>1. ApiSteps[22] = "done" /\ DatabaseSteps[7] = "demo"
  BY DEF ApiSteps, DatabaseSteps
<1>2. CASE run.kind = "api"
  BY <1>1, <1>2, Lengths DEF RunTyped, StepName
<1>3. CASE run.kind = "database"
  BY <1>1, <1>3, Lengths DEF RunTyped, StepName
<1> QED BY <1>2, <1>3, Lengths DEF RunTyped, RunRecord, Running

LEMMA ProceedKeeps ==
    ASSUME RunOK, Running, StepName \notin {"demo", "done"}, Growing, NEW c \in BOOLEAN, Proceed(c),
           run.clean /\ c => \A x \in Promised[run.kind] : StepOf(x) = StepName => have'[x] > 0
    PROVE  RunOK'
<1> DEFINE n == run.at + 1
<1>1. n \in DOMAIN Steps[run.kind] /\ run.at \in Nat
  BY OthersFollow DEF RunOK, RunTyped, RunRecord
<1>2. ASSUME run.clean, c, NEW x \in Promised[run.kind],
             NEW m \in 1..(n - 1), Steps[run.kind][m] = StepOf(x)
      PROVE  have'[x] > 0
  <2>1. CASE m = run.at
    BY <1>2, <2>1 DEF StepName
  <2>2. CASE m # run.at
    <3>1. Behind(StepOf(x))
      BY <1>1, <1>2, <2>2 DEF Behind
    <3>2. x \in Items
      BY PromisedAreItems DEF RunOK, RunTyped, RunRecord, Running
    <3> QED BY <1>2, <3>1, <3>2 DEF RunOK, Completing, Growing
  <2> QED BY <2>1, <2>2
<1>3. Jump(Steps[run.kind][n], c)
  BY DEF Proceed
<1> HIDE DEF n
<1> QED BY <1>1, <1>2, <1>3, JumpKeeps

-----------------------------------------------------------------------------
\* Where a run is, by the name of its step.

LEMMA ApiOnly ==
    ASSUME RunTyped, Running, StepName \in {"keycloak", "group", "hydro", "sources", "grants", "config", "done"}
    PROVE  run.kind = "api" /\ Steps[run.kind] = ApiSteps /\ run.at = Rank(StepName)
<1>1. run.kind = "api"
  <2>1. SUFFICES ASSUME run.kind = "database" PROVE FALSE
    BY Lengths DEF RunTyped, RunRecord, Running
  <2>2. run.at \in 1..7 /\ DatabaseSteps[run.at] = StepName
    BY <2>1, Lengths DEF RunTyped, StepName
  <2>3. Rank(StepName) = run.at + 4
    BY <2>2, DatabaseRanks
  <2>4. Rank(StepName) \in {2, 5, 7, 10, 14, 19, 22}
    BY DEF Rank
  <2>5. run.at \in {1, 3, 6}
    BY <2>2, <2>3, <2>4
  <2>6. /\ DatabaseSteps[1] = "regions" /\ DatabaseSteps[3] = "frost"
        /\ DatabaseSteps[6] = "demo_group"
    BY DEF DatabaseSteps
  <2>7. StepName \in {"regions", "frost", "demo_group"}
    BY <2>2, <2>5, <2>6
  <2> QED BY <2>7
<1> QED BY <1>1, Lengths, ApiRanks DEF RunTyped, StepName

LEMMA DatabaseOnly ==
    ASSUME RunTyped, Running, StepName = "frost"
    PROVE  run.kind = "database" /\ Steps[run.kind] = DatabaseSteps /\ run.at + 4 = Rank(StepName)
<1>1. run.kind = "database"
  <2>1. SUFFICES ASSUME run.kind = "api" PROVE FALSE
    BY Lengths DEF RunTyped, RunRecord, Running
  <2>2. run.at \in 1..22 /\ ApiSteps[run.at] = StepName
    BY <2>1, Lengths DEF RunTyped, StepName
  <2>3. Rank(StepName) = run.at
    BY <2>2, ApiRanks
  <2>4. Rank(StepName) = 7
    BY DEF Rank
  <2>5. ApiSteps[7] = "grants"
    BY DEF ApiSteps
  <2> QED BY <2>2, <2>3, <2>4, <2>5
<1> QED BY <1>1, Lengths, DatabaseRanks DEF RunTyped, StepName

\* seed_data.py ends with the QA/QC part.
LEMMA Ending ==
    ASSUME RunTyped, Running, StepName = "config"
    PROVE  /\ run.kind = "api" /\ run.at = 19 /\ DOMAIN Steps[run.kind] = 1..22
           /\ Steps[run.kind][19] = "config" /\ Steps[run.kind][20] = "tests"
           /\ Steps[run.kind][21] = "function" /\ Steps[run.kind][22] = "done"
<1>1. run.kind = "api" /\ Steps[run.kind] = ApiSteps /\ run.at = Rank("config")
  BY ApiOnly
<1>2. Rank("config") = 19
  BY DEF Rank
<1>3. /\ ApiSteps[19] = "config" /\ ApiSteps[20] = "tests"
      /\ ApiSteps[21] = "function" /\ ApiSteps[22] = "done"
  BY DEF ApiSteps
<1> QED BY <1>1, <1>2, <1>3, Lengths

\* Only these steps owe something.
LEMMA Owed ==
    ASSUME NEW k \in DOMAIN Steps, NEW x \in Promised[k], NEW s, StepOf(x) = s
    PROVE  /\ s \notin {"api", "keycloak", "token", "owner", "source_owner", "frost", "tests", "done",
                        "stations", "demo"}
           /\ \/ x = s
              \/ x = "memberships" /\ s = "grants"
              \/ x = "features" /\ s = "regions"
<1>1. \/ x = s
      \/ x = "memberships" /\ s = "grants"
      \/ x = "features" /\ s = "regions"
  BY DEF StepOf
<1>2. CASE k = "api"
  <2>1. x \in Promised["api"]
    BY <1>2
  <2> QED BY <1>1, <2>1 DEF Promised
<1>3. CASE k = "database"
  <2>1. x \in Promised["database"]
    BY <1>3
  <2> QED BY <1>1, <2>1 DEF Promised
<1> QED BY <1>2, <1>3, Lengths

LEMMA StepNamed ==
    ASSUME RunOK, Running, run.found # "unknown"
    PROVE  StepName \in Sought
BY DEF RunOK, Looked

-----------------------------------------------------------------------------
\* What errors lead to.
LEMMA AfterErrorKeeps ==
    ASSUME RunOK, Running, Growing, StepName \notin {"demo", "done"}, AfterError
    PROVE  RunOK'
<1>1. CASE Exit
  BY <1>1, ExitKeeps
<1>2. CASE Proceed(FALSE)
  BY <1>2, ProceedKeeps
<1>3. CASE StepName = "group" /\ Jump("token", FALSE)
  <2>1. Steps[run.kind] = ApiSteps
    BY <1>3, ApiOnly DEF RunOK
  <2>2. ApiSteps[8] = "token"
    BY DEF ApiSteps
  <2>3. 8 \in DOMAIN Steps[run.kind]
    BY <2>1, Lengths
  <2>4. Steps[run.kind][8] = "token" /\ Jump("token", FALSE)
    BY <1>3, <2>1, <2>2
  <2>5. Jump(Steps[run.kind][8], FALSE)
    BY <2>4
  <2> QED BY <2>3, <2>5, LeaveKeeps
<1>4. CASE StepName = "hydro" /\ Jump("source_owner", FALSE)
  <2>1. Steps[run.kind] = ApiSteps
    BY <1>4, ApiOnly DEF RunOK
  <2>2. ApiSteps[13] = "source_owner"
    BY DEF ApiSteps
  <2>3. 13 \in DOMAIN Steps[run.kind]
    BY <2>1, Lengths
  <2>4. Steps[run.kind][13] = "source_owner" /\ Jump("source_owner", FALSE)
    BY <1>4, <2>1, <2>2
  <2>5. Jump(Steps[run.kind][13], FALSE)
    BY <2>4
  <2> QED BY <2>3, <2>5, LeaveKeeps
<1>5. CASE StepName = "sources" /\ Jump("config", FALSE)
  <2>1. Steps[run.kind] = ApiSteps
    BY <1>5, ApiOnly DEF RunOK
  <2>2. ApiSteps[19] = "config"
    BY DEF ApiSteps
  <2>3. 19 \in DOMAIN Steps[run.kind]
    BY <2>1, Lengths
  <2>4. Steps[run.kind][19] = "config" /\ Jump("config", FALSE)
    BY <1>5, <2>1, <2>2
  <2>5. Jump(Steps[run.kind][19], FALSE)
    BY <2>4
  <2> QED BY <2>3, <2>5, LeaveKeeps
<1>6. CASE StepName = "config" /\ (Jump("function", FALSE) \/ Jump("done", FALSE))
  <2>1. 21 \in DOMAIN Steps[run.kind] /\ 22 \in DOMAIN Steps[run.kind]
    BY <1>6, Ending DEF RunOK
  <2>2. Jump(Steps[run.kind][21], FALSE) \/ Jump(Steps[run.kind][22], FALSE)
    BY <1>6, Ending DEF RunOK
  <2> QED BY <2>1, <2>2, LeaveKeeps
<1> QED BY <1>1, <1>2, <1>3, <1>4, <1>5, <1>6 DEF AfterError

-----------------------------------------------------------------------------
\* The steps.

KeepsScript == Stocked' /\ RunOK'

LEMMA EnsureKeeps ==
    ASSUME Stocked, RunOK, NEW s, NEW xs \in SUBSET Unique, Ensure(s, xs),
           s \notin {"demo", "done"}, "regions" \notin xs,
           run.clean => \A x \in Promised[run.kind] : StepOf(x) = s => x \in xs
    PROVE  KeepsScript
<1>1. /\ Stocked' /\ \A x \in xs : have'[x] = 1
      /\ Growing
  BY MakeKeeps DEF Ensure
<1>2. RunOK'
  <2>1. Running /\ StepName = s /\ Proceed(TRUE)
    BY DEF Ensure, At
  <2>2. run.clean => \A x \in Promised[run.kind] : StepOf(x) = StepName => have'[x] > 0
    BY <1>1, <2>1
  <2> QED BY <1>1, <2>1, <2>2, ProceedKeeps
<1> QED BY <1>1, <1>2 DEF KeepsScript

LEMMA OwedHere ==
    ASSUME RunOK, Running, NEW x \in Promised[run.kind], NEW s, StepOf(x) = s,
           s \notin {"grants", "regions"}
    PROVE  x = s
BY Owed DEF RunOK, RunTyped, RunRecord, Running

\* Steps that make the one thing of their name.
LEMMA EnsureOneKeeps ==
    ASSUME Stocked, RunOK, NEW s, Ensure(s, {s}), s \in Unique,
           s \notin {"demo", "done", "grants", "regions"}
    PROVE  KeepsScript
<1>1. Running /\ StepName = s
  BY DEF Ensure, At
<1> QED BY <1>1, EnsureKeeps, OwedHere

LEMMA EnsuresKeep ==
    ASSUME Stocked, RunOK,
           \/ SeedUsers \/ EnsureRoles \/ EnsureGroup \/ EnsureSubgroups \/ SeedMembers
           \/ RegisterDeviceType \/ EnsureDemoGroup \/ SeedTests \/ SeedFunction
    PROVE  KeepsScript
<1>1. {"users", "roles", "group", "subgroups", "members", "device_type", "demo_group", "tests",
       "function"} \subseteq Unique
  BY DEF Unique, Items, Sought, SeededProjects, Entities
<1> QED BY <1>1, EnsureOneKeeps DEF SeedUsers, EnsureRoles, EnsureGroup, EnsureSubgroups, SeedMembers,
       RegisterDeviceType, EnsureDemoGroup, SeedTests, SeedFunction

LEMMA FillKeeps == ASSUME Stocked, RunOK, FillSubgroups PROVE KeepsScript
<1> DEFINE xs == IF have["subgroups"] = 0 THEN {}
                 ELSE {x \in {"grants"} : have["roles"] = 1}
                      \cup {x \in {"memberships"} : have["users"] = 1}
<1>1. {"roles", "users", "subgroups", "grants", "memberships"} \subseteq Unique
  BY DEF Unique, Items, Sought, SeededProjects, Entities
<1>2. xs \subseteq {"grants", "memberships"}
  OBVIOUS
<1>3. Running /\ StepName = "grants" /\ Ensure("grants", xs)
  BY DEF FillSubgroups, Ensure, At
<1>4. run.clean => xs = {"grants", "memberships"}
  <2>1. HAVE run.clean
  <2>2. run.kind = "api" /\ Steps[run.kind] = ApiSteps /\ run.at = 7
    <3>1. Rank("grants") = 7
      BY DEF Rank
    <3> QED BY <1>3, <3>1, ApiOnly DEF RunOK
  <2>3. ApiSteps[3] = "users" /\ ApiSteps[4] = "roles" /\ ApiSteps[6] = "subgroups"
    BY DEF ApiSteps
  <2>4. Behind("users") /\ Behind("roles") /\ Behind("subgroups")
    BY <2>2, <2>3 DEF Behind
  <2>5. \A x \in {"users", "roles", "subgroups"} : StepOf(x) = x /\ x \in Promised["api"]
    BY DEF StepOf, Promised
  <2>6. \A x \in {"users", "roles", "subgroups"} : have[x] > 0
    BY <2>1, <1>3, <2>2, <2>4, <2>5 DEF RunOK, Completing
  <2>7. have["users"] = 1 /\ have["roles"] = 1 /\ have["subgroups"] = 1
    BY <2>6, <1>1, Named DEF Stocked
  <2> QED BY <2>7
<1>5. ASSUME NEW x \in Promised[run.kind], StepOf(x) = "grants" PROVE x \in {"grants", "memberships"}
  BY <1>3, <1>5, Owed DEF RunOK, RunTyped, RunRecord, Running
<1> HIDE DEF xs
<1> QED BY <1>1, <1>2, <1>3, <1>4, <1>5, EnsureKeeps

LEMMA LinkKeeps == ASSUME Stocked, RunOK, LinkRegions PROVE KeepsScript
<1>1. "stations" \in Unique
  BY Named
<1>2. PICK xs \in SUBSET {"stations"} : Ensure("stations", xs)
  BY DEF LinkRegions
<1>3. ASSUME NEW x \in Promised[run.kind] PROVE StepOf(x) # "stations"
  BY <1>2, Owed DEF RunOK, RunTyped, RunRecord, Running, Ensure, At
<1> QED BY <1>1, <1>2, <1>3, EnsureKeeps

-----------------------------------------------------------------------------
\* Steps that wait.

LEMMA StillKeeps ==
    ASSUME Stocked, RunOK, UNCHANGED <<have, missed>>
    PROVE  Stocked' /\ Growing
BY DEF Stocked, OneOfEach, Growing

LEMMA RetryKeeps ==
    ASSUME RunOK, Running, Growing, StepName \notin Sought, run.tries + 1 < MaxTries,
           run' = [run EXCEPT !.tries = @ + 1]
    PROVE  RunOK'
<1>1. run.found = "unknown" /\ run \in RunRecord
  BY StepNamed DEF RunOK, RunTyped
<1>2. run.tries + 1 \in 0..(MaxTries - 1)
  BY <1>1, TriesAssumption DEF RunRecord
<1>3. /\ run' \in RunRecord /\ run'.kind = run.kind /\ run'.at = run.at
      /\ run'.clean = run.clean /\ run'.found = "unknown"
  BY <1>1, <1>2 DEF RunRecord
<1> QED BY <1>3, StayKeeps DEF Looked

\* At steps that owe nothing, who is through may go on.
LEMMA ReadyKeeps ==
    ASSUME RunOK, Running, Growing, NEW c \in BOOLEAN, Proceed(c),
           StepName \in {"api", "keycloak", "token", "owner", "source_owner", "frost"}
    PROVE  RunOK'
<1>1. \A x \in Promised[run.kind] : StepOf(x) # StepName
  BY Owed DEF RunOK, RunTyped, RunRecord, Running
<1> QED BY <1>1, ProceedKeeps

LEMMA WaitsKeep ==
    ASSUME Stocked, RunOK, WaitForApi \/ WaitForKeycloak \/ Login \/ WaitForFrost
    PROVE  KeepsScript
<1>1. Stocked' /\ Growing
  BY StillKeeps DEF WaitForApi, WaitForKeycloak, Login, WaitForFrost
<1>2. /\ Running
      /\ StepName \in {"api", "keycloak", "token", "owner", "source_owner", "frost"}
  BY DEF WaitForApi, WaitForKeycloak, Login, WaitForFrost, At
<1>3. StepName \notin Sought
  BY <1>2 DEF Sought, SeededProjects, Entities
<1>4. CASE \E c \in BOOLEAN : Proceed(c)
  BY <1>1, <1>2, <1>4, ReadyKeeps DEF KeepsScript
<1>5. CASE run.tries + 1 < MaxTries /\ run' = [run EXCEPT !.tries = @ + 1]
  BY <1>1, <1>2, <1>3, <1>5, RetryKeeps DEF KeepsScript
<1>6. CASE Exit
  BY <1>1, <1>6, ExitKeeps DEF KeepsScript
<1>7. CASE StepName = "keycloak" /\ Jump("token", FALSE)
  <2>1. Steps[run.kind] = ApiSteps
    BY <1>2, <1>7, ApiOnly DEF RunOK
  <2>2. ApiSteps[8] = "token"
    BY DEF ApiSteps
  <2>3. 8 \in DOMAIN Steps[run.kind]
    BY <2>1, Lengths
  <2>4. Jump(Steps[run.kind][8], FALSE)
    BY <1>7, <2>1, <2>2
  <2> QED BY <1>1, <1>2, <2>3, <2>4, LeaveKeeps DEF KeepsScript
<1>8. CASE StepName = "frost" /\ Jump("demo_group", FALSE)
  <2>1. Steps[run.kind] = DatabaseSteps
    BY <1>2, <1>8, DatabaseOnly DEF RunOK
  <2>2. DatabaseSteps[6] = "demo_group"
    BY DEF DatabaseSteps
  <2>3. 6 \in DOMAIN Steps[run.kind]
    BY <2>1, Lengths
  <2>4. Jump(Steps[run.kind][6], FALSE)
    BY <1>8, <2>1, <2>2
  <2> QED BY <1>1, <1>2, <2>3, <2>4, LeaveKeeps DEF KeepsScript
<1>9. \/ \E c \in BOOLEAN : Proceed(c)
      \/ run.tries + 1 < MaxTries /\ run' = [run EXCEPT !.tries = @ + 1]
      \/ Exit
      \/ StepName = "keycloak" /\ Jump("token", FALSE)
      \/ StepName = "frost" /\ Jump("demo_group", FALSE)
  <2>1. CASE WaitForApi
    BY <2>1 DEF WaitForApi, Waited
  <2>2. CASE WaitForKeycloak
    BY <2>2 DEF WaitForKeycloak, Waited, At
  <2>3. CASE Login
    BY <2>3 DEF Login, Waited
  <2>4. CASE WaitForFrost
    BY <2>4 DEF WaitForFrost, Waited, At
  <2> QED BY <2>1, <2>2, <2>3, <2>4
<1> QED BY <1>4, <1>5, <1>6, <1>7, <1>8, <1>9

-----------------------------------------------------------------------------
\* Items that are looked for, and then added.

LEMMA LookKeeps ==
    ASSUME Stocked, RunOK, NEW x \in Sought, Look(x)
    PROVE  KeepsScript
<1>1. Running /\ StepName = x /\ run \in RunRecord /\ x \in Items
  BY Named DEF Look, At, RunOK, RunTyped
<1>2. Stocked' /\ Growing
  BY Named DEF Look, Stocked, OneOfEach, Growing
<1>3. CASE have[x] > 0 /\ Proceed(TRUE) /\ UNCHANGED have
  <2>1. x \notin {"demo", "done", "grants", "regions"}
    BY DEF Sought, SeededProjects, Entities
  <2>2. ASSUME NEW y \in Promised[run.kind], StepOf(y) = StepName PROVE have'[y] > 0
    <3>1. y = x
      BY <1>1, <2>1, <2>2, OwedHere
    <3> QED BY <1>3, <3>1
  <2> QED BY <1>1, <1>2, <1>3, <2>1, <2>2, ProceedKeeps DEF KeepsScript
<1>4. ASSUME NEW c \in BOOLEAN, run' = [run EXCEPT !.found = "no", !.clean = c],
             c => run.clean, have'[x] = 0 \/ x \in missed'
      PROVE  KeepsScript
  <2>1. /\ run' \in RunRecord /\ run'.kind = run.kind /\ run'.at = run.at
        /\ run'.clean = c /\ run'.found = "no"
    BY <1>1, <1>4 DEF RunRecord
  <2>2. Looked'
    BY <1>1, <1>4, <2>1 DEF Looked, StepName
  <2> QED BY <1>1, <1>2, <1>4, <2>1, <2>2, StayKeeps DEF KeepsScript
<1>5. CASE have[x] = 0 /\ run' = [run EXCEPT !.found = "no"] /\ UNCHANGED have
  <2>1. run' = [run EXCEPT !.found = "no", !.clean = run.clean] /\ run.clean \in BOOLEAN
    BY <1>1, <1>5 DEF RunRecord
  <2> QED BY <1>4, <1>5, <2>1
<1>6. CASE x \in missed' /\ run' = [run EXCEPT !.found = "no", !.clean = FALSE]
  BY <1>4, <1>6
<1>7. have[x] > 0 \/ have[x] = 0
  BY <1>1 DEF Stocked
<1> QED BY <1>3, <1>5, <1>6, <1>7 DEF Look

LEMMA AdditionKeeps ==
    ASSUME Stocked, RunOK, NEW x \in Sought, Create(x)
    PROVE  KeepsScript
<1>1. Running /\ StepName = x /\ run.found = "no" /\ Add(x) /\ missed' = missed
  BY DEF Create, At
<1>2. have[x] = 0 \/ x \in missed
  BY <1>1 DEF RunOK, Looked
<1>3. Stocked' /\ have'[x] > 0 /\ Growing
  BY <1>1, <1>2, Named, AddKeeps
<1>4. x \notin {"demo", "done", "grants", "regions"}
  BY DEF Sought, SeededProjects, Entities
<1>5. \A y \in Promised[run.kind] : StepOf(y) = StepName => have'[y] > 0
  BY <1>1, <1>3, <1>4, OwedHere
<1>6. CASE Proceed(TRUE)
  BY <1>1, <1>3, <1>4, <1>5, <1>6, ProceedKeeps DEF KeepsScript
<1>7. CASE AfterError
  BY <1>1, <1>3, <1>4, <1>7, AfterErrorKeeps DEF KeepsScript
<1> QED BY <1>6, <1>7 DEF Create

\* A failed step changes nothing but the run.
LEMMA RefusedKeeps ==
    ASSUME Stocked, RunOK, Refused \/ NoGroup
    PROVE  KeepsScript
<1>1. Stocked' /\ Growing
  BY StillKeeps DEF Refused, NoGroup
<1>2. Running /\ StepName \notin {"demo", "done"} /\ AfterError
  BY DEF Refused, NoGroup, At, SeededProjects
<1> QED BY <1>1, <1>2, AfterErrorKeeps DEF KeepsScript

LEMMA SeededKeep ==
    ASSUME Stocked, RunOK, SeedProject \/ SeedEntity
    PROVE  KeepsScript
<1>1. PICK x \in Sought : Look(x) \/ Create(x)
  BY DEF SeedProject, SeedEntity, Sought
<1> QED BY <1>1, LookKeeps, AdditionKeeps

-----------------------------------------------------------------------------
\* The rest.

LEMMA SensorKeeps ==
    ASSUME Stocked, RunOK, CreateSimulatedSensor \/ CreateSourceSensor
    PROVE  KeepsScript
<1>1. PICK x \in {"sensor", "source_sensor"} : CreateSensor(x)
  BY DEF CreateSimulatedSensor, CreateSourceSensor
<1>2. x \in Items \ Unique /\ x \notin Sought
  BY DEF Unique, Items, Sought, SeededProjects, Entities
<1>3. Running /\ StepName = x /\ missed' = missed
  BY <1>1 DEF CreateSensor, At
<1>4. CASE Add(x)
  <2>1. Stocked' /\ have'[x] > 0 /\ Growing
    BY <1>2, <1>3, <1>4, Named, AddKeeps
  <2>2. \A y \in Promised[run.kind] : StepOf(y) = StepName => have'[y] > 0
    BY <1>3, <2>1, OwedHere
  <2>3. CASE \E c \in BOOLEAN : Proceed(c)
    BY <1>3, <2>1, <2>2, <2>3, ProceedKeeps DEF KeepsScript
  <2>4. CASE run.tries + 1 < MaxTries /\ run' = [run EXCEPT !.tries = @ + 1]
    BY <1>2, <1>3, <2>1, <2>4, RetryKeeps DEF KeepsScript
  <2> QED BY <1>1, <2>3, <2>4 DEF CreateSensor, Waited
<1>5. CASE UNCHANGED have /\ Waited(FALSE, Proceed(FALSE))
  <2>1. Stocked' /\ Growing
    BY <1>3, <1>5, StillKeeps
  <2>2. CASE Proceed(FALSE)
    BY <1>3, <2>1, <2>2, ProceedKeeps DEF KeepsScript
  <2>3. CASE run.tries + 1 < MaxTries /\ run' = [run EXCEPT !.tries = @ + 1]
    BY <1>2, <1>3, <2>1, <2>3, RetryKeeps DEF KeepsScript
  <2> QED BY <1>5, <2>2, <2>3 DEF Waited
<1> QED BY <1>1, <1>4, <1>5 DEF CreateSensor

LEMMA RegisterKeeps ==
    ASSUME Stocked, RunOK, RegisterApiType \/ CreateCsvParser
    PROVE  KeepsScript
<1>1. CASE RegisterApiType
  <2>1. {"api_type", "syncer"} \subseteq Unique
    BY DEF Unique, Items, Sought, SeededProjects, Entities
  <2>2. Running /\ StepName = "api_type" /\ missed' = missed
    BY <1>1 DEF RegisterApiType, At
  <2>3. Stocked' /\ Growing /\ have'["api_type"] > 0
    <3>1. CASE have["api_type"] = 1 /\ UNCHANGED have
      <4>1. Stocked' /\ Growing
        BY <2>2, <3>1, StillKeeps
      <4> QED BY <3>1, <4>1
    <3>2. ASSUME NEW xs \in SUBSET {"api_type", "syncer"}, "api_type" \in xs, Make(xs)
          PROVE  Stocked' /\ Growing /\ have'["api_type"] > 0
      <4>1. xs \in SUBSET Unique /\ "regions" \notin xs
        BY <2>1
      <4>2. Stocked' /\ Growing /\ have'["api_type"] = 1
        BY <2>2, <3>2, <4>1, MakeKeeps
      <4> QED BY <4>2
    <3> QED BY <1>1, <3>1, <3>2 DEF RegisterApiType
  <2>4. \A y \in Promised[run.kind] : StepOf(y) = StepName => have'[y] > 0
    BY <2>2, <2>3, OwedHere
  <2>5. Proceed(TRUE) \/ Proceed(FALSE)
    BY <1>1 DEF RegisterApiType
  <2> QED BY <2>2, <2>3, <2>4, <2>5, ProceedKeeps DEF KeepsScript
<1>2. CASE CreateCsvParser
  <2>1. "parser" \in Items \ Unique /\ "parser" \notin Sought
    BY DEF Unique, Items, Sought, SeededProjects, Entities
  <2>2. Running /\ StepName = "parser" /\ missed' = missed /\ Add("parser")
    BY <1>2 DEF CreateCsvParser, At
  <2>3. Stocked' /\ Growing /\ have'["parser"] > 0
    BY <2>1, <2>2, Named, AddKeeps
  <2>4. \A y \in Promised[run.kind] : StepOf(y) = StepName => have'[y] > 0
    BY <2>2, <2>3, OwedHere
  <2>5. CASE Proceed(TRUE)
    BY <2>2, <2>3, <2>4, <2>5, ProceedKeeps DEF KeepsScript
  <2>6. CASE AfterError
    BY <2>2, <2>3, <2>6, AfterErrorKeeps DEF KeepsScript
  <2> QED BY <1>2, <2>5, <2>6 DEF CreateCsvParser
<1> QED BY <1>1, <1>2

LEMMA LayersKeep ==
    ASSUME Stocked, RunOK, SeedRegions \/ SeedWatersheds
    PROVE  KeepsScript
<1>1. PICK s \in {"regions", "watersheds"} :
        \E xs \in SUBSET {"regions", "features", "watersheds"} :
           SaveLayer(s, xs) /\ s \in xs /\ ("regions" \in xs => "features" \in xs)
  BY DEF SeedRegions, SeedWatersheds
<1>2. PICK xs \in SUBSET {"regions", "features", "watersheds"} :
           SaveLayer(s, xs) /\ s \in xs /\ ("regions" \in xs => "features" \in xs)
  BY <1>1
<1>3. {"regions", "features", "watersheds"} \subseteq Unique
  BY DEF Unique, Items, Sought, SeededProjects, Entities
<1>4. Running /\ StepName = s /\ missed' = missed
  BY <1>2 DEF SaveLayer, At
<1>5. CASE Exit /\ UNCHANGED have
  BY <1>4, <1>5, StillKeeps, ExitKeeps DEF KeepsScript
<1>6. ASSUME Stocked', Growing, have'[s] > 0, Proceed(TRUE) PROVE KeepsScript
  <2>1. ASSUME NEW y \in Promised[run.kind], StepOf(y) = StepName PROVE have'[y] > 0
    <3>1. y = s \/ (y = "features" /\ s = "regions")
      BY <1>4, <2>1, Owed DEF RunOK, RunTyped, RunRecord, Running
    <3> QED BY <1>6, <3>1 DEF Stocked
  <2> QED BY <1>4, <1>6, <2>1, ProceedKeeps DEF KeepsScript
<1>7. CASE have[s] = 1 /\ Proceed(TRUE) /\ UNCHANGED have
  BY <1>4, <1>6, <1>7, StillKeeps
<1>8. CASE Make(xs) /\ Proceed(TRUE)
  <2>1. xs \in SUBSET Unique
    BY <1>3
  <2>2. Stocked' /\ Growing /\ have'[s] = 1
    BY <1>2, <1>4, <1>8, <2>1, MakeKeeps
  <2> QED BY <1>6, <1>8, <2>2
<1> QED BY <1>2, <1>5, <1>7, <1>8 DEF SaveLayer

\* A configuration that is there has its step done, and the tests that the run passes over are
\* not promised; without a sensor the run has not been undisturbed.
LEMMA ConfigKeeps ==
    ASSUME Stocked, RunOK, SeedConfig
    PROVE  KeepsScript
<1>1. Running /\ StepName = "config" /\ missed' = missed
  BY DEF SeedConfig, At
<1>2. "config" \in Unique
  BY DEF Unique, Items, Sought, SeededProjects, Entities
<1>3. /\ run.kind = "api" /\ run.at = 19 /\ DOMAIN Steps[run.kind] = 1..22
      /\ Steps[run.kind][19] = "config" /\ Steps[run.kind][20] = "tests"
      /\ Steps[run.kind][21] = "function" /\ Steps[run.kind][22] = "done"
  BY <1>1, Ending DEF RunOK
<1>4. CASE Make({"config"}) /\ Proceed(TRUE)
  <2>1. Stocked' /\ Growing /\ have'["config"] = 1
    BY <1>1, <1>2, <1>4, MakeKeeps
  <2>2. \A y \in Promised[run.kind] : StepOf(y) = StepName => have'[y] > 0
    BY <1>1, <2>1, OwedHere
  <2> QED BY <1>1, <1>4, <2>1, <2>2, ProceedKeeps DEF KeepsScript
<1>5. ASSUME UNCHANGED have PROVE Stocked' /\ Growing
  BY <1>1, <1>5, StillKeeps
<1>6. CASE have["config"] = 1 /\ UNCHANGED have /\ Jump("function", TRUE)
  <2>1. ASSUME run.clean, NEW x \in Promised[run.kind],
               NEW m \in 1..20, Steps[run.kind][m] = StepOf(x)
        PROVE  have'[x] > 0
    <3>1. CASE m \in 1..18
      <4>1. Behind(StepOf(x))
        BY <1>3, <2>1, <3>1 DEF Behind
      <4> QED BY <1>1, <1>6, <2>1, <4>1 DEF RunOK, Completing
    <3>2. CASE m = 19
      BY <1>1, <1>3, <1>6, <2>1, <3>2, OwedHere
    <3>3. CASE m = 20
      <4>1. StepOf(x) # "tests"
        BY <1>1, <2>1, Owed DEF RunOK, RunTyped, RunRecord, Running
      <4> QED BY <1>3, <2>1, <3>3, <4>1
    <3> QED BY <3>1, <3>2, <3>3
  <2>2. Jump(Steps[run.kind][21], TRUE)
    BY <1>3, <1>6
  <2>3. RunOK'
    <3>1. PICK n \in DOMAIN Steps[run.kind] : n = 21
      BY <1>3
    <3>2. run.clean => \A x \in Promised[run.kind] :
             (\E m \in 1..(n - 1) : Steps[run.kind][m] = StepOf(x)) => have'[x] > 0
      BY <2>1, <3>1
    <3>3. Jump(Steps[run.kind][n], TRUE)
      BY <2>2, <3>1
    <3> QED BY <1>1, <3>2, <3>3, JumpKeeps
  <2> QED BY <1>5, <1>6, <2>3 DEF KeepsScript
<1>7. CASE have["sensor"] + have["source_sensor"] = 0 /\ UNCHANGED have /\ Jump("done", TRUE)
  <2>1. ~run.clean
    <3>1. SUFFICES ASSUME run.clean PROVE FALSE
      OBVIOUS
    <3>2. ApiSteps[12] = "sensor"
      BY DEF ApiSteps
    <3>3. Behind("sensor")
      <4>1. 12 \in 1..(run.at - 1) /\ Steps[run.kind][12] = "sensor"
        BY <1>3, <3>2, Lengths
      <4> QED BY <4>1 DEF Behind
    <3>4. StepOf("sensor") = "sensor" /\ "sensor" \in Promised["api"]
      BY DEF StepOf, Promised
    <3>5. have["sensor"] > 0
      BY <1>1, <1>3, <3>1, <3>3, <3>4 DEF RunOK, Completing
    <3>6. have["sensor"] \in Nat /\ have["source_sensor"] \in Nat
      BY DEF Stocked, Items
    <3> QED BY <1>7, <3>5, <3>6
  <2>2. 22 \in DOMAIN Steps[run.kind]
    BY <1>3
  <2>3. Jump(Steps[run.kind][22], TRUE)
    BY <1>3, <1>7
  <2> QED BY <1>1, <1>5, <1>7, <2>1, <2>2, <2>3, JumpKeeps DEF KeepsScript
<1> QED BY <1>4, <1>6, <1>7 DEF SeedConfig

-----------------------------------------------------------------------------
\* The whole script.

LEMMA StepKeeps ==
    ASSUME Stocked, RunOK, Step
    PROVE  KeepsScript
<1>1. CASE Finish \/ FailAtDemo
  <2>1. Exit /\ UNCHANGED <<have, missed>>
    BY <1>1 DEF Finish, FailAtDemo
  <2> QED BY <2>1, StillKeeps, ExitKeeps DEF KeepsScript
<1> QED BY <1>1, EnsuresKeep, FillKeeps, LinkKeeps, WaitsKeep, RefusedKeeps, SeededKeep,
       SensorKeeps, RegisterKeeps, LayersKeep, ConfigKeeps DEF Step

Counted == runs \in 0..MaxRuns /\ faults \in 0..MaxFaults

LEMMA StepCounted ==
    ASSUME Counted, Step
    PROVE  Counted' /\ UNCHANGED server
<1>1. faults' = faults \/ Fault
  BY DEF Step, WaitForApi, WaitForKeycloak, Login, WaitForFrost, SeedUsers, EnsureRoles,
     EnsureGroup, EnsureSubgroups, FillSubgroups, SeedProject, NoGroup, SeedMembers,
     RegisterDeviceType, RegisterApiType, CreateCsvParser, CreateSimulatedSensor,
     CreateSourceSensor, SeedRegions, SeedWatersheds, LinkRegions, EnsureDemoGroup, FailAtDemo,
     SeedEntity, SeedConfig, SeedTests, SeedFunction, Refused, Finish, Ensure, Look, Create,
     CreateSensor, SaveLayer, Failing
<1>2. UNCHANGED <<runs, server>>
  BY DEF Step, WaitForApi, WaitForKeycloak, Login, WaitForFrost, SeedUsers, EnsureRoles,
     EnsureGroup, EnsureSubgroups, FillSubgroups, SeedProject, NoGroup, SeedMembers,
     RegisterDeviceType, RegisterApiType, CreateCsvParser, CreateSimulatedSensor,
     CreateSourceSensor, SeedRegions, SeedWatersheds, LinkRegions, EnsureDemoGroup, FailAtDemo,
     SeedEntity, SeedConfig, SeedTests, SeedFunction, Refused, Finish, Ensure, Look, Create,
     CreateSensor, SaveLayer
<1> QED BY <1>1, <1>2, BoundsAssumption DEF Counted, Fault

-----------------------------------------------------------------------------
\* The server.

ServerTyped ==
    /\ boot \in {"down", "keycloak", "database", "serving"}
    /\ attempts \in 0..(MaxTries - 1)
    /\ init \in [ApiWorkers \cup {"once"} -> {"down", "look", "schema", "tables", "up"}]
    /\ database \in {"empty", "schema", "tables"}
    /\ starts \in 0..MaxStarts

\* start.sh runs init_db() before any worker, and alone.
StartedUp ==
    /\ boot # "serving" => \A w \in ApiWorkers : init[w] = "down"
    /\ boot \in {"down", "keycloak"} => init["once"] = "down"
    /\ boot = "serving" => init["once"] = "up"
    /\ init["once"] = "schema" => database = "empty"
    /\ init["once"] = "up" => database = "tables"

ServerOK == ServerTyped /\ StartedUp

LEMMA InitialiseKeeps ==
    ASSUME ServerOK, NEW i \in ApiWorkers \cup {"once"}, Initialise(i)
    PROVE  ServerOK'
<1>1. PICK to \in {"schema", "tables", "up"} :
         /\ init' = [init EXCEPT ![i] = to]
         /\ to = "schema" => database = "empty" /\ database' = "empty"
         /\ to = "up" /\ i = "once" => database' = "tables"
  BY DEF Initialise, LookForSchema, CreateSchema, CreateTables, ServerOK, ServerTyped, StartedUp
<1>2. /\ database' \in {"empty", "schema", "tables"}
      /\ database = "tables" => database' = "tables"
      /\ database = "empty" /\ init[i] = "look" => database' = "empty"
      /\ init[i] \in {"look", "schema", "tables"}
      /\ UNCHANGED <<boot, attempts, starts>>
  BY DEF Initialise, LookForSchema, CreateSchema, CreateTables, ServerOK, ServerTyped
<1>3. ServerTyped'
  BY <1>1, <1>2 DEF ServerOK, ServerTyped
<1>4. CASE i = "once"
  <2>1. boot = "database"
    BY <1>2, <1>4 DEF ServerOK, ServerTyped, StartedUp
  <2>2. init'["once"] = to /\ \A w \in ApiWorkers : init'[w] = init[w]
    BY <1>1, <1>4, WorkersAssumption DEF ServerOK, ServerTyped
  <2>3. to = "schema" => database' = "empty"
    BY <1>1
  <2>4. \A w \in ApiWorkers : init'[w] = "down"
    BY <2>1, <2>2 DEF ServerOK, StartedUp
  <2>5. boot' = "database" /\ (to = "up" => database' = "tables")
    BY <1>1, <1>2, <1>4, <2>1
  <2> QED BY <1>3, <2>2, <2>3, <2>4, <2>5 DEF ServerOK, StartedUp
<1>5. CASE i # "once"
  <2>1. boot = "serving" /\ init["once"] = "up" /\ database = "tables"
    BY <1>2, <1>5 DEF ServerOK, ServerTyped, StartedUp
  <2>2. init'["once"] = "up"
    BY <1>1, <1>5, <2>1 DEF ServerOK, ServerTyped
  <2> QED BY <1>2, <1>3, <2>1, <2>2 DEF ServerOK, StartedUp
<1> QED BY <1>4, <1>5

LEMMA ServerKeeps ==
    ASSUME ServerOK, Server
    PROVE  ServerOK'
<1>1. CASE \E i \in ApiWorkers \cup {"once"} : Initialise(i)
  BY <1>1, InitialiseKeeps
<1>2. CASE StartContainer
  BY <1>2, BoundsAssumption DEF StartContainer, ServerOK, ServerTyped, StartedUp
<1>3. CASE SetUpKeycloak
  BY <1>3, TriesAssumption DEF SetUpKeycloak, ServerOK, ServerTyped, StartedUp
<1>4. CASE SetUpFails
  BY <1>4, TriesAssumption DEF SetUpFails, ServerOK, ServerTyped, StartedUp
<1>5. CASE BeginOnce
  <2>1. /\ init' \in [ApiWorkers \cup {"once"} -> {"down", "look", "schema", "tables", "up"}]
        /\ init'["once"] = "look" /\ \A w \in ApiWorkers : init'[w] = init[w]
    BY <1>5, WorkersAssumption DEF BeginOnce, ServerOK, ServerTyped
  <2> QED BY <1>5, <2>1 DEF BeginOnce, ServerOK, ServerTyped, StartedUp
<1>6. CASE Serve
  BY <1>6 DEF Serve, ServerOK, ServerTyped, StartedUp
<1>7. CASE StopContainer
  <2>1. /\ init' \in [ApiWorkers \cup {"once"} -> {"down", "look", "schema", "tables", "up"}]
        /\ \A i \in ApiWorkers \cup {"once"} : init'[i] = "down"
    BY <1>7 DEF StopContainer
  <2> QED BY <1>7, <2>1, TriesAssumption DEF StopContainer, ServerOK, ServerTyped, StartedUp
<1>8. CASE \E w \in ApiWorkers : StartWorker(w)
  <2>1. PICK w \in ApiWorkers : StartWorker(w)
    BY <1>8
  <2>2. /\ init' \in [ApiWorkers \cup {"once"} -> {"down", "look", "schema", "tables", "up"}]
        /\ init'["once"] = init["once"]
    BY <2>1, WorkersAssumption DEF StartWorker, ServerOK, ServerTyped
  <2> QED BY <2>1, <2>2 DEF StartWorker, ServerOK, ServerTyped, StartedUp
<1> QED BY <1>1, <1>2, <1>3, <1>4, <1>5, <1>6, <1>7, <1>8 DEF Server

\* Of what the scripts work with, the server makes the administrator only.
LEMMA ServerSparesScript ==
    ASSUME Stocked, RunOK, Counted, Server
    PROVE  KeepsScript /\ Counted'
<1>1. /\ UNCHANGED <<missed, run, runs, faults>>
      /\ UNCHANGED have \/ SetUpAdmin
  BY DEF Server, StartContainer, SetUpKeycloak, SetUpFails, BeginOnce, Serve, StopContainer,
     StartWorker, Initialise, LookForSchema, CreateSchema, CreateTables, script
<1>2. Stocked' /\ Growing /\ \A x \in Sought : have'[x] = have[x]
  <2>1. CASE UNCHANGED have
    BY <1>1, <2>1, StillKeeps
  <2>2. CASE SetUpAdmin
    <3>1. PICK xs \in SUBSET {"admin"} : Make(xs)
      BY <2>2 DEF SetUpAdmin
    <3>2. xs \in SUBSET Unique /\ "regions" \notin xs
      BY DEF Unique, Items, Sought, SeededProjects, Entities
    <3> QED BY <1>1, <3>1, <3>2, MakeKeeps
  <2> QED BY <1>1, <2>1, <2>2
<1>3. CASE Running
  <2>1. run' \in RunRecord /\ StepName' = StepName /\ (Running' <=> Running)
    BY <1>1 DEF RunOK, RunTyped, StepName, Running
  <2>2. Looked'
    BY <1>1, <1>2, <2>1 DEF RunOK, Looked
  <2> QED BY <1>1, <1>2, <1>3, <2>1, <2>2, StayKeeps DEF KeepsScript, Counted
<1>4. CASE ~Running
  <2>1. ~Running' /\ run' = run
    BY <1>1, <1>4 DEF Running
  <2> QED BY <1>1, <1>2, <1>4, <2>1 DEF KeepsScript, Counted, RunOK, RunTyped, Looked, Completing
<1> QED BY <1>3, <1>4

-----------------------------------------------------------------------------
\* Runs that begin and stop, and the whole.

SeedingInv == ServerOK /\ Stocked /\ RunOK /\ Counted

LEMMA SeedingStarts == SeedingInit => SeedingInv
<1> HAVE SeedingInit
<1>1. ServerOK
  BY TriesAssumption, BoundsAssumption DEF SeedingInit, ServerOK, ServerTyped, StartedUp
<1>2. Stocked
  BY Named DEF SeedingInit, Stocked, OneOfEach
<1>3. RunOK
  <2>1. run \in RunRecord /\ ~Running
    BY TriesAssumption DEF SeedingInit, NoRun, RunRecord, Running
  <2> QED BY <2>1 DEF RunOK, RunTyped, Looked, Completing
<1>4. Counted
  BY BoundsAssumption DEF SeedingInit, Counted
<1> QED BY <1>1, <1>2, <1>3, <1>4 DEF SeedingInv

LEMMA BeginRunKeeps ==
    ASSUME Stocked, RunOK, BeginRun
    PROVE  KeepsScript
<1>1. Stocked' /\ Growing
  BY StillKeeps DEF BeginRun
<1>2. PICK k \in DOMAIN Steps : run' = [NoRun EXCEPT !.kind = k, !.at = 1]
  BY DEF BeginRun
<1>3. /\ run' \in RunRecord /\ run'.kind = k /\ run'.at = 1 /\ run'.found = "unknown"
  <2>1. run' = [kind |-> k, at |-> 1, tries |-> 0, found |-> "unknown", clean |-> TRUE]
    BY <1>2 DEF NoRun
  <2>2. 0 \in 0..(MaxTries - 1)
    BY TriesAssumption
  <2> QED BY <2>1, <2>2 DEF RunRecord
<1>4. 1 \in DOMAIN Steps[k]
  BY Lengths
<1>5. RunTyped'
  BY <1>3, <1>4 DEF RunTyped
<1>6. Looked' /\ Completing'
  BY <1>3 DEF Looked, Completing, Behind
<1> QED BY <1>1, <1>5, <1>6 DEF KeepsScript, RunOK

LEMMA SeedingStep == SeedingInv /\ [SeedingNext]_seedingVars => SeedingInv'
<1> SUFFICES ASSUME SeedingInv, [SeedingNext]_seedingVars PROVE SeedingInv'
  OBVIOUS
<1> USE DEF SeedingInv
<1>1. ASSUME UNCHANGED server PROVE ServerOK'
  BY <1>1 DEF server, ServerOK, ServerTyped, StartedUp
<1>2. CASE Server
  BY <1>2, ServerKeeps, ServerSparesScript DEF KeepsScript
<1>3. CASE BeginRun
  <2>1. UNCHANGED server /\ Counted'
    BY <1>3, BoundsAssumption DEF BeginRun, Counted
  <2> QED BY <1>1, <1>3, <2>1, BeginRunKeeps DEF KeepsScript
<1>4. CASE Stop
  <2>1. UNCHANGED server /\ Exit /\ UNCHANGED <<have, missed>> /\ Counted'
    BY <1>4 DEF Stop, Counted
  <2> QED BY <1>1, <2>1, StillKeeps, ExitKeeps
<1>5. CASE Step
  BY <1>1, <1>5, StepKeeps, StepCounted DEF KeepsScript
<1>6. CASE UNCHANGED seedingVars
  <2>1. UNCHANGED server /\ Stocked' /\ Counted'
    BY <1>6 DEF seedingVars, server, Stocked, OneOfEach, Counted
  <2>2. RunOK'
    BY <1>6 DEF seedingVars, RunOK, RunTyped, Looked, Completing, Running, StepName, Behind, Promised
  <2> QED BY <1>1, <2>1, <2>2
<1> QED BY <1>2, <1>3, <1>4, <1>5, <1>6 DEF SeedingNext

LEMMA SeedingInvHolds == SeedingSpec => []SeedingInv
BY SeedingStarts, SeedingStep, PTL DEF SeedingSpec

\* Every variable stays within its type (start.sh, database.py, the seed scripts), for any
\* number of workers, runs, tries and faults.
THEOREM SeedingTypesHold == SeedingSpec => []SeedingTypeOK
<1>1. SeedingInv => SeedingTypeOK
  BY DEF SeedingInv, ServerOK, ServerTyped, Stocked, RunOK, RunTyped, RunRecord, Counted, SeedingTypeOK
<1> QED BY <1>1, SeedingInvHolds, PTL

\* The seed scripts look before they add: nothing that they look for is there twice, unless
\* a look at it failed (create_project of seed_data.py, ensure_frost_entity of seeding.py).
THEOREM NothingTwice == SeedingSpec => []OneOfEach
<1>1. SeedingInv => OneOfEach
  BY DEF SeedingInv, Stocked
<1> QED BY <1>1, SeedingInvHolds, PTL

\* A worker that answers "healthy" finds its tables, though init_db() of database.py takes a
\* duplicate for success: start.sh has run it alone before.
THEOREM HealthyAreReady == SeedingSpec => []HealthyHasTables
<1>1. SeedingInv => HealthyHasTables
  BY DEF SeedingInv, ServerOK, StartedUp, HealthyHasTables, Healthy, HasTables
<1> QED BY <1>1, SeedingInvHolds, PTL

\* At its end a run has all that it promises behind it.
LEMMA AllBehind ==
    ASSUME RunOK, At("done") \/ At("demo"), NEW x \in Promised[run.kind]
    PROVE  Behind(StepOf(x))
<1>1. Rank("done") = 22 /\ Rank("demo") = 11
  BY DEF Rank
<1>2. CASE run.kind = "api"
  <2>1. run.at \in 1..22 /\ ApiSteps[run.at] \in {"done", "demo"}
    BY <1>2, Lengths DEF At, StepName, RunOK, RunTyped
  <2>2. ApiSteps[11] = "members"
    BY DEF ApiSteps
  <2>3. run.at = 22
    BY <1>1, <2>1, <2>2, ApiRanks
  <2>4. \E m \in 1..21 : ApiSteps[m] = StepOf(x)
    BY <1>2, PromisedByApi
  <2> QED BY <1>2, <2>3, <2>4, Lengths DEF Behind
<1>3. CASE run.kind = "database"
  <2>1. run.at \in 1..7 /\ DatabaseSteps[run.at] \in {"done", "demo"}
    BY <1>3, Lengths DEF At, StepName, RunOK, RunTyped
  <2>2. run.at = 7
    BY <1>1, <2>1, DatabaseRanks
  <2>3. \E m \in 1..6 : DatabaseSteps[m] = StepOf(x)
    BY <1>3, PromisedByDatabase
  <2> QED BY <1>3, <2>2, <2>3, Lengths DEF Behind
<1> QED BY <1>2, <1>3, Lengths DEF At, RunOK, RunTyped, RunRecord, Running

\* A run of seed_data.py that nothing disturbs ends with all that it promises, wherever the runs
\* before it were stopped or refused; one of seeding.py, which always fails at the demonstration
\* project, has by then made what comes before it.
THEOREM RunsComplete == SeedingSpec => []CleanRunsComplete
<1>1. SeedingInv => CleanRunsComplete
  BY AllBehind DEF SeedingInv, RunOK, Completing, CleanRunsComplete, At
<1> QED BY <1>1, SeedingInvHolds, PTL
=============================================================================
