-------------------------- MODULE QaqcConfigsProofs --------------------------
(***************************************************************************)
(* What holds of QA/QC configurations for any number of processes,         *)
(* projects, sensors and configurations: a sensor's link names a           *)
(* configuration that is there, and who sets a default with no rival       *)
(* beside leaves no second one.                                            *)
(*                                                                         *)
(* What a request knows of its configuration (SoundRequest) lasts, since   *)
(* ids are drawn once and rows do not change their project.                *)
(***************************************************************************)
EXTENDS QaqcConfigs, TLAPS

\* A row that is not live belongs to no project and is no default.
BlankRows == \A c \in Configs : ~Live(c) => config[c].project = None /\ ~config[c].default

\* One link at most names a configuration.
LinksApart == \A t, u \in Things : linked[t] = linked[u] /\ linked[t] # NoConfig => t = u

\* A creation's id is unused; a change or a deletion of a project's configuration is about one
\* of that project, if it is still there; a removal is about the sensor's own.
SoundRequest(r) ==
    /\ r.step = "idle" => r.op = None
    /\ r.step = "clearing" => r.op \in {"create", "update"}
    /\ r.step = "deleting" => r.op \in {"delete", "unassign"}
    /\ r.step = "unlinking" => r.op = "unassign"
    /\ r.op # None => r.config \in Configs
    /\ r.op \in {"create", "update", "delete"} => r.project \in Projects
    /\ r.op = "create" => config[r.config].state = "unused"
    /\ r.op \in {"update", "delete", "unassign"} => config[r.config].state # "unused"
    /\ r.op \in {"update", "delete"} => (Live(r.config) => config[r.config].project = r.project)
    /\ r.op = "unassign" => \A t \in Things : linked[t] = r.config => t = r.thing

Sound == \A p \in Processes : SoundRequest(request[p])

\* Two creations have two ids.
IdsApart == \A p, o \in Processes :
              request[p].op = "create" /\ request[o].op = "create" /\ p # o =>
                 request[p].config # request[o].config

Rivals(a, b) == /\ a.step = "clearing" /\ a.default
                /\ b.step = "clearing" /\ b.default
                /\ a.project = b.project

\* Who sets a default alone has no rival, and its UPDATE reaches every other default.
Holding ==
    \A p \in Processes :
        Setting(p) /\ request[p].default /\ request[p].alone =>
           /\ \A o \in Processes : o # p => ~Rivals(request[o], request[p])
           /\ \A c \in Defaults(request[p].project) :
                c \in {request[p].config} \cup request[p].todo \cup request[p].cleared

IInv == TypeOK /\ BlankRows /\ LinksApart /\ LinkedConfigsExist /\ Sound /\ IdsApart /\ Holding

-----------------------------------------------------------------------------
(* Steps of one request that write neither configurations nor links.       *)

\* The request that process p comes to is sound and sets no default now; a creation has drawn
\* its id.
Good(p, r) == /\ r \in Request /\ SoundRequest(r) /\ r.step # "clearing"
              /\ r.op = "create" => r.config \in Fresh

Quiet(p) == /\ UNCHANGED <<config, linked>>
            /\ \E r \in Request : Good(p, r) /\ request' = [request EXCEPT ![p] = r]

LEMMA IdleIsGood ==
    ASSUME NEW p \in Processes
    PROVE  Good(p, Idle) /\ Idle \in Request
<1>1. Idle \in Request
  BY DEF Idle, Request
<1>2. SoundRequest(Idle)
  BY DEF SoundRequest, Idle, None
<1> QED
  BY <1>1, <1>2 DEF Good, Idle, None

LEMMA FreshIsNew ==
    ASSUME NEW c \in Fresh
    PROVE  /\ c \in Configs /\ c # NoConfig /\ config[c].state = "unused"
           /\ \A p \in Processes : request[p].config # c
<1>1. c \in Configs /\ c \notin Drawn
  BY DEF Fresh
<1>2. c # NoConfig
  BY <1>1, ConfigsAssumption DEF Configs, NoConfig
<1> QED
  BY <1>1, <1>2 DEF Drawn

LEMMA QuietKept ==
    ASSUME NEW p \in Processes, IInv, Quiet(p)
    PROVE  /\ request' \in [Processes -> Request]
           /\ Sound' /\ IdsApart' /\ Holding'
           /\ BlankRows' /\ LinksApart' /\ LinkedConfigsExist'
<1>1. PICK r \in Request : Good(p, r) /\ request' = [request EXCEPT ![p] = r]
  BY DEF Quiet
<1>2. request'[p] = r /\ \A o \in Processes : o # p => request'[o] = request[o]
  BY <1>1 DEF IInv, TypeOK
<1>3. UNCHANGED <<config, linked>>
  BY DEF Quiet
<1>4. request' \in [Processes -> Request]
  BY <1>1 DEF IInv, TypeOK
<1>5. Sound'
  <2>1. SoundRequest(r)'
    BY <1>1, <1>3 DEF Good, SoundRequest, Live
  <2>2. ASSUME NEW o \in Processes, o # p
        PROVE  SoundRequest(request[o])'
    BY <1>2, <1>3, <2>2 DEF IInv, Sound, SoundRequest, Live
  <2> QED
    BY <1>2, <2>1, <2>2 DEF Sound
<1>6. IdsApart'
  <2>1. r.op = "create" => \A o \in Processes : request[o].config # r.config
    BY <1>1, FreshIsNew DEF Good
  <2> QED
    BY <1>2, <2>1 DEF IInv, IdsApart
<1>7. Holding'
  <2>1. ~Setting(p)' /\ r.step # "clearing"
    BY <1>1, <1>2 DEF Good, Setting
  <2>2. \A pr : Defaults(pr)' = Defaults(pr)
    BY <1>3 DEF Defaults, ConfigsOf, Live
  <2> QED
    BY <1>2, <2>1, <2>2 DEF IInv, Holding, Setting, Rivals
<1>8. BlankRows' /\ LinksApart' /\ LinkedConfigsExist'
  BY <1>3 DEF IInv, BlankRows, LinksApart, LinkedConfigsExist, Live
<1> QED
  BY <1>4, <1>5, <1>6, <1>7, <1>8

\* A request that has looked its configuration up.
LEMMA CheckQuiet ==
    ASSUME NEW p \in Processes, IInv, UNCHANGED <<config, linked>>,
           NEW op \in {"create", "update", "delete", "tests"},
           NEW pr \in Projects \cup {None}, op # "tests" => pr \in Projects,
           NEW c \in Configs, NEW d \in BOOLEAN,
           op = "create" => c \in Fresh,
           op \in {"update", "delete"} => Belongs(c, pr),
           Check(p, op, pr, c, d)
    PROVE  Quiet(p)
<1> DEFINE r == [Idle EXCEPT !.op = op, !.step = "checked", !.project = pr, !.config = c, !.default = d]
<1>1. r \in Request /\ r.op = op /\ r.step = "checked" /\ r.project = pr /\ r.config = c
  BY DEF Idle, Request
<1>2. request' = [request EXCEPT ![p] = r]
  BY DEF Check
<1> HIDE DEF r
<1>3. SoundRequest(r)
  BY <1>1, FreshIsNew DEF SoundRequest, Belongs, Live, None
<1> QED
  BY <1>1, <1>2, <1>3 DEF Good, Quiet

LEMMA RoutesQuiet ==
    ASSUME NEW p \in Processes, NEW pr \in Projects, IInv, Routes(p, pr)
    PROVE  Quiet(p)
<1>1. UNCHANGED <<config, linked>>
  BY DEF Routes
<1>2. CASE CreateRoute(p, pr)
  <2>1. PICK c \in Fresh, d \in BOOLEAN : Check(p, "create", pr, c, d)
    BY <1>2 DEF CreateRoute
  <2> QED
    BY <1>1, <2>1, FreshIsNew, CheckQuiet
<1>3. CASE UpdateRoute(p, pr)
  <2>1. PICK c \in Configs, d \in BOOLEAN : Belongs(c, pr) /\ Check(p, "update", pr, c, d)
    BY <1>3 DEF UpdateRoute
  <2> QED
    BY <1>1, <2>1, CheckQuiet
<1>4. CASE DeleteRoute(p, pr)
  <2>1. PICK c \in Configs : Belongs(c, pr) /\ Check(p, "delete", pr, c, FALSE)
    BY <1>4 DEF DeleteRoute
  <2> QED
    BY <1>1, <2>1, CheckQuiet
<1>5. CASE TestRoute(p, pr)
  <2>1. PICK c \in Configs : Belongs(c, pr) /\ Check(p, "tests", pr, c, FALSE)
    BY <1>5 DEF TestRoute
  <2> QED
    BY <1>1, <2>1, CheckQuiet
<1> QED
  BY <1>2, <1>3, <1>4, <1>5 DEF Routes

LEMMA StartQuiet ==
    ASSUME NEW p \in Processes, IInv,
           \/ SmsRequest(p) \/ ProjectRequest(p) \/ BeginUnassign(p)
           \/ AddThingTest(p) \/ DeleteThingTest(p)
    PROVE  Quiet(p)
<1>1. CASE SmsRequest(p)
  BY <1>1, RoutesQuiet DEF SmsRequest
<1>2. CASE ProjectRequest(p)
  <2>1. PICK pr \in TsmProjects : Routes(p, pr)
    BY <1>2 DEF ProjectRequest
  <2>2. pr \in Projects
    BY SchemaAssumption DEF TsmProjects
  <2> QED
    BY <2>1, <2>2, RoutesQuiet
<1>3. CASE BeginUnassign(p)
  <2>1. PICK t \in Things :
          /\ linked[t] # NoConfig
          /\ request' = [request EXCEPT ![p] = [Idle EXCEPT !.op = "unassign", !.step = "unlinking",
                                                            !.thing = t, !.config = linked[t]]]
    BY <1>3 DEF BeginUnassign
  <2> DEFINE r == [Idle EXCEPT !.op = "unassign", !.step = "unlinking", !.thing = t, !.config = linked[t]]
  <2>2. linked[t] \in Configs
    BY <2>1 DEF IInv, TypeOK
  <2>3. r \in Request /\ r.op = "unassign" /\ r.step = "unlinking" /\ r.thing = t /\ r.config = linked[t]
    BY <2>2 DEF Idle, Request
  <2>4. request' = [request EXCEPT ![p] = r] /\ UNCHANGED <<config, linked>>
    BY <1>3, <2>1 DEF BeginUnassign
  <2> HIDE DEF r
  <2>5. SoundRequest(r)
    BY <2>1, <2>2, <2>3 DEF IInv, LinksApart, LinkedConfigsExist, Live, SoundRequest, None
  <2> QED
    BY <2>3, <2>4, <2>5 DEF Good, Quiet
<1>4. CASE AddThingTest(p)
  <2>1. PICK t \in Linked : Check(p, "tests", None, linked[t], FALSE)
    BY <1>4 DEF AddThingTest
  <2>2. linked[t] \in Configs
    BY DEF Linked, IInv, TypeOK
  <2> QED
    BY <1>4, <2>1, <2>2, CheckQuiet DEF AddThingTest
<1>5. CASE DeleteThingTest(p)
  <2>1. request' = [request EXCEPT ![p] = request[p]] /\ request[p].step = "idle"
    BY <1>5 DEF DeleteThingTest, Free, IInv, TypeOK
  <2>2. request[p] \in Request /\ SoundRequest(request[p]) /\ request[p].op = None
    BY <2>1 DEF IInv, TypeOK, Sound, SoundRequest
  <2> QED
    BY <1>5, <2>1, <2>2 DEF DeleteThingTest, Good, Quiet, None
<1> QED
  BY <1>1, <1>2, <1>3, <1>4, <1>5

LEMMA ContinueQuiet ==
    ASSUME NEW p \in Processes, IInv,
           \/ BreakDeadlock(p) \/ RefuseDelete(p) \/ CreateTest(p) \/ UpdateTest(p) \/ DeleteTest(p)
           \/ BeginDelete(p) \/ Crash(p)
    PROVE  Quiet(p)
<1>1. CASE BeginDelete(p)
  <2> DEFINE r == [request[p] EXCEPT !.step = "deleting", !.doomed = TestsOf(request[p].config)]
  <2>1. request[p] \in Request /\ SoundRequest(request[p])
    BY DEF IInv, TypeOK, Sound
  <2>2. request[p].op \in {"delete", "unassign"}
    BY <1>1, <2>1 DEF BeginDelete, SoundRequest
  <2>3. TestsOf(request[p].config) \in SUBSET Tests
    BY DEF TestsOf
  <2>4. /\ r \in Request /\ r.step = "deleting" /\ r.op = request[p].op /\ r.config = request[p].config
        /\ r.project = request[p].project /\ r.thing = request[p].thing
    BY <2>1, <2>3 DEF Request
  <2>5. request' = [request EXCEPT ![p] = r] /\ UNCHANGED <<config, linked>>
    BY <1>1 DEF BeginDelete
  <2> HIDE DEF r
  <2>6. SoundRequest(r)
    BY <2>1, <2>2, <2>4 DEF SoundRequest
  <2> QED
    BY <2>2, <2>4, <2>5, <2>6 DEF Good, Quiet
<1>2. CASE \/ BreakDeadlock(p) \/ RefuseDelete(p) \/ CreateTest(p) \/ UpdateTest(p) \/ DeleteTest(p)
           \/ Crash(p)
  <2>1. Finish(p) /\ UNCHANGED <<config, linked>>
    BY <1>2 DEF BreakDeadlock, RefuseDelete, CreateTest, UpdateTest, DeleteTest, Crash
  <2> QED
    BY <2>1, IdleIsGood DEF Finish, Quiet
<1> QED
  BY <1>1, <1>2

-----------------------------------------------------------------------------
(* The UPDATE that clears the flags.                                       *)

\* The fields that SoundRequest speaks of.
SameBut(a, b) == /\ a.op = b.op /\ a.project = b.project /\ a.config = b.config /\ a.thing = b.thing
                 /\ a.default = b.default

LEMMA RowsAlike ==
    ASSUME UNCHANGED <<config, linked>>, BlankRows, LinksApart, LinkedConfigsExist
    PROVE  /\ BlankRows' /\ LinksApart' /\ LinkedConfigsExist'
           /\ \A pr : Defaults(pr)' = Defaults(pr)
BY DEF BlankRows, LinksApart, LinkedConfigsExist, Live, Defaults, ConfigsOf

LEMMA BeginWriteKept ==
    ASSUME NEW p \in Processes, IInv, BeginWrite(p)
    PROVE  /\ request' \in [Processes -> Request]
           /\ Sound' /\ IdsApart' /\ Holding'
           /\ BlankRows' /\ LinksApart' /\ LinkedConfigsExist'
<1> DEFINE r == request[p]
           rivals == {o \in Processes \ {p} : Setting(o) /\ request[o].default /\ request[o].project = r.project}
           todo == IF r.default THEN ConfigsOf(r.project) \ {r.config} ELSE {}
           lone == ~(r.default /\ rivals # {})
           left(o) == request[o].alone /\ ~(r.default /\ o \in rivals)
<1>1. r.step = "checked" /\ r.op \in {"create", "update"} /\ UNCHANGED <<config, linked>>
  BY DEF BeginWrite
<1>2. request' = [o \in Processes |->
                    CASE o = p -> [r EXCEPT !.step = "clearing", !.todo = todo, !.alone = lone]
                      [] o # p -> [request[o] EXCEPT !.alone = left(o)]]
  BY DEF BeginWrite
<1>3. \A o \in Processes : request[o] \in Request /\ SoundRequest(request[o])
  BY DEF IInv, TypeOK, Sound
<1>4. todo \in SUBSET Configs /\ lone \in BOOLEAN /\ \A o \in Processes : left(o) \in BOOLEAN
  BY DEF ConfigsOf
<1>5. /\ request'[p] = [r EXCEPT !.step = "clearing", !.todo = todo, !.alone = lone]
      /\ \A o \in Processes : o # p => request'[o] = [request[o] EXCEPT !.alone = left(o)]
  BY <1>2
<1>6. /\ request'[p] \in Request /\ request'[p].step = "clearing" /\ SameBut(request'[p], r)
      /\ request'[p].todo = todo /\ request'[p].alone = lone
  <2>1. r \in Request /\ todo \in SUBSET Configs /\ lone \in BOOLEAN
    BY <1>3, <1>4
  <2>2. request'[p] = [r EXCEPT !.step = "clearing", !.todo = todo, !.alone = lone]
    BY <1>5
  <2> HIDE DEF r, todo, lone
  <2> QED
    BY <2>1, <2>2 DEF Request, SameBut
<1>7. ASSUME NEW o \in Processes, o # p
      PROVE  /\ request'[o] \in Request /\ request'[o].step = request[o].step
             /\ SameBut(request'[o], request[o]) /\ request'[o].alone = left(o)
             /\ request'[o].todo = request[o].todo /\ request'[o].cleared = request[o].cleared
  <2>1. request'[o] = [request[o] EXCEPT !.alone = left(o)] /\ left(o) \in BOOLEAN
    BY <1>4, <1>5, <1>7
  <2> HIDE DEF left
  <2> QED
    BY <1>3, <2>1 DEF Request, SameBut
<1>8. request' \in [Processes -> Request]
  <2>1. \A o \in Processes : request'[o] \in Request
    BY <1>6, <1>7
  <2>2. request' = [o \in Processes |-> request'[o]]
    BY <1>2
  <2> QED
    BY <2>1, <2>2
<1>9. Sound'
  <2>1. SoundRequest(request[p])'
    BY <1>1, <1>3, <1>6 DEF SoundRequest, SameBut, Live
  <2>2. ASSUME NEW o \in Processes, o # p
        PROVE  SoundRequest(request[o])'
    BY <1>1, <1>3, <1>7, <2>2 DEF SoundRequest, SameBut, Live
  <2> QED
    BY <2>1, <2>2 DEF Sound
<1>10. IdsApart'
  BY <1>6, <1>7 DEF IInv, IdsApart, SameBut
<1>11. Holding'
  <2>1. \A pr : Defaults(pr)' = Defaults(pr)
    BY <1>1, RowsAlike DEF IInv
  <2>2. ASSUME Setting(p)', request'[p].default, request'[p].alone
        PROVE  /\ \A o \in Processes : o # p => ~Rivals(request'[o], request'[p])
               /\ \A c \in Defaults(request[p].project)' :
                    c \in {request'[p].config} \cup request'[p].todo \cup request'[p].cleared
    <3>1. r.default /\ rivals = {} /\ todo = ConfigsOf(r.project) \ {r.config}
      BY <1>6, <2>2 DEF SameBut
    <3>2. \A o \in Processes : o # p => ~Rivals(request'[o], request'[p])
      BY <1>6, <1>7, <3>1 DEF Rivals, SameBut, Setting
    <3>3. Defaults(r.project) \subseteq ConfigsOf(r.project)
      BY DEF Defaults
    <3>4. request'[p].project = r.project /\ request'[p].config = r.config /\ request'[p].todo = todo
      BY <1>6 DEF SameBut
    <3> QED
      BY <2>1, <3>1, <3>2, <3>3, <3>4
  <2>3. ASSUME NEW q \in Processes, q # p, Setting(q)', request'[q].default, request'[q].alone
        PROVE  /\ \A o \in Processes : o # q => ~Rivals(request'[o], request'[q])
               /\ \A c \in Defaults(request[q].project)' :
                    c \in {request'[q].config} \cup request'[q].todo \cup request'[q].cleared
    <3>1. Setting(q) /\ request[q].default /\ request[q].alone /\ ~(r.default /\ q \in rivals)
      BY <1>7, <2>3 DEF Setting, SameBut
    <3>2. /\ \A o \in Processes : o # q => ~Rivals(request[o], request[q])
          /\ \A c \in Defaults(request[q].project) :
               c \in {request[q].config} \cup request[q].todo \cup request[q].cleared
      BY <3>1 DEF IInv, Holding
    <3>3. ~Rivals(request'[p], request'[q])
      BY <1>6, <1>7, <2>3, <3>1 DEF Rivals, SameBut
    <3>4. ASSUME NEW o \in Processes, o # q, o # p
          PROVE  ~Rivals(request'[o], request'[q])
      BY <1>7, <2>3, <3>2, <3>4 DEF Rivals, SameBut
    <3>5. /\ request'[q].config = request[q].config /\ request'[q].project = request[q].project
          /\ request'[q].todo = request[q].todo /\ request'[q].cleared = request[q].cleared
      BY <1>7, <2>3 DEF SameBut
    <3> QED
      BY <2>1, <3>2, <3>3, <3>4, <3>5
  <2>4. \A q \in Processes : request'[q].project = request[q].project
    BY <1>6, <1>7 DEF SameBut
  <2> HIDE DEF r, rivals, todo, lone, left
  <2> QED
    BY <2>1, <2>2, <2>3, <2>4 DEF Holding
<1> QED
  BY <1>1, <1>8, <1>9, <1>10, <1>11, RowsAlike DEF IInv

LEMMA ClearFlagKept ==
    ASSUME NEW p \in Processes, IInv, ClearFlag(p)
    PROVE  /\ request' \in [Processes -> Request]
           /\ Sound' /\ IdsApart' /\ Holding'
           /\ BlankRows' /\ LinksApart' /\ LinkedConfigsExist'
<1>1. PICK c \in request[p].todo :
        request' = [request EXCEPT ![p].todo = @ \ {c},
                                   ![p].cleared = IF Live(c) THEN @ \cup {c} ELSE @]
  BY DEF ClearFlag
<1>2. Setting(p) /\ UNCHANGED <<config, linked>>
  BY DEF ClearFlag
<1>3. request[p] \in Request /\ SoundRequest(request[p])
  BY DEF IInv, TypeOK, Sound
<1> DEFINE cleared == IF Live(c) THEN request[p].cleared \cup {c} ELSE request[p].cleared
           r == [request[p] EXCEPT !.todo = @ \ {c}, !.cleared = cleared]
<1>4. cleared \in SUBSET Configs
  BY <1>3 DEF Request
<1>5. /\ r \in Request /\ r.step = request[p].step /\ SameBut(r, request[p])
      /\ r.alone = request[p].alone /\ r.todo = request[p].todo \ {c} /\ r.cleared = cleared
  <2> HIDE DEF cleared
  <2> QED
    BY <1>3, <1>4 DEF Request, SameBut
<1>6. request' = [request EXCEPT ![p] = r]
  BY <1>1
<1> HIDE DEF r
<1>7. request'[p] = r /\ \A o \in Processes : o # p => request'[o] = request[o]
  BY <1>6 DEF IInv, TypeOK
<1>8. request' \in [Processes -> Request]
  BY <1>5, <1>6 DEF IInv, TypeOK
<1>9. Sound'
  <2>1. SoundRequest(request[p])'
    BY <1>2, <1>3, <1>5, <1>7 DEF SoundRequest, SameBut, Live
  <2>2. ASSUME NEW o \in Processes, o # p
        PROVE  SoundRequest(request[o])'
    BY <1>2, <1>7, <2>2 DEF IInv, Sound, SoundRequest, Live
  <2> QED
    BY <2>1, <2>2 DEF Sound
<1>10. IdsApart'
  BY <1>5, <1>7 DEF IInv, IdsApart, SameBut
<1>11. Holding'
  <2>1. \A pr : Defaults(pr)' = Defaults(pr)
    BY <1>2, RowsAlike DEF IInv
  <2>2. \A pr : c \in Defaults(pr) => Live(c)
    BY DEF Defaults, ConfigsOf
  <2>3. \A pr : \A d \in Defaults(pr) :
          d \in request[p].todo \cup request[p].cleared => d \in r.todo \cup r.cleared
    BY <1>5, <2>2
  <2>4. /\ r.step = request[p].step /\ r.default = request[p].default /\ r.project = request[p].project
        /\ r.config = request[p].config /\ r.alone = request[p].alone
    BY <1>5 DEF SameBut
  <2> HIDE DEF cleared
  <2> QED
    BY <1>7, <2>1, <2>3, <2>4 DEF IInv, Holding, Setting, Rivals
<1> QED
  BY <1>2, <1>8, <1>9, <1>10, <1>11, RowsAlike DEF IInv

-----------------------------------------------------------------------------
(* Writes to configurations and links.                                     *)

\* What a write leaves of the other rows, and of its own.
LEMMA Written ==
    ASSUME NEW p \in Processes, IInv, Insert(p) \/ Save(p)
    PROVE  /\ config' \in [Configs -> Config]
           /\ request[p].config \in Configs /\ request[p].project \in Projects
           /\ \A c \in Configs : c # request[p].config =>
                /\ config'[c].state = config[c].state /\ config'[c].project = config[c].project
                /\ config'[c].default => config[c].default /\ c \notin request[p].cleared
           /\ LET c == request[p].config
              IN  /\ Insert(p) => /\ config[c].state = "unused" /\ config'[c].state = "live"
                                  /\ config'[c].project = request[p].project
                                  /\ config'[c].default = request[p].default
                  /\ Save(p) => /\ config'[c].state = config[c].state
                                /\ config'[c].project = config[c].project
                                /\ Live(c) => /\ config[c].project = request[p].project
                                              /\ config'[c].default = request[p].default
                                /\ ~Live(c) /\ config'[c].default => config[c].default
<1> DEFINE r == request[p]
           c0 == request[p].config
<1>1. r \in Request /\ SoundRequest(r) /\ r.op \in {"create", "update"}
  BY DEF IInv, TypeOK, Sound, Insert, Save
<1>2. c0 \in Configs /\ r.project \in Projects /\ r.default \in BOOLEAN
  BY <1>1 DEF SoundRequest, Request, None
<1>3. \A c \in Configs : config[c] \in Config
  BY DEF IInv, TypeOK
<1>4. ASSUME NEW c \in Configs
      PROVE  /\ Cleared(p, c) \in Config
             /\ Cleared(p, c).state = config[c].state /\ Cleared(p, c).project = config[c].project
             /\ Cleared(p, c).default => config[c].default /\ c \notin r.cleared
  <2> DEFINE b == config[c].default /\ c \notin r.cleared
  <2>1. b \in BOOLEAN
    OBVIOUS
  <2>2. Cleared(p, c) = [config[c] EXCEPT !.default = b]
    BY DEF Cleared
  <2>3. config[c] \in Config
    BY <1>3
  <2>4. b => config[c].default /\ c \notin r.cleared
    OBVIOUS
  <2> HIDE DEF b, r
  <2> QED
    BY <2>1, <2>2, <2>3, <2>4 DEF Config
<1>5. CASE Insert(p)
  <2>1. config' = [c \in Configs |->
                     IF c = c0 THEN [state |-> "live", project |-> r.project, default |-> r.default]
                     ELSE Cleared(p, c)]
    BY <1>5 DEF Insert
  <2>2. [state |-> "live", project |-> r.project, default |-> r.default] \in Config
    BY <1>2 DEF Config, States
  <2>3. config[c0].state = "unused" /\ r.op # "update"
    BY <1>1, <1>5 DEF SoundRequest, Insert
  <2>4. ~Save(p)
    BY <2>3 DEF Save
  <2> QED
    BY <1>2, <1>4, <2>1, <2>2, <2>3, <2>4
<1>6. CASE Save(p)
  <2>1. config' = [c \in Configs |->
                     IF c = c0 /\ Live(c) THEN [config[c] EXCEPT !.default = r.default]
                     ELSE Cleared(p, c)]
    BY <1>6 DEF Save
  <2>2. /\ [config[c0] EXCEPT !.default = r.default] \in Config
        /\ [config[c0] EXCEPT !.default = r.default].state = config[c0].state
        /\ [config[c0] EXCEPT !.default = r.default].project = config[c0].project
        /\ [config[c0] EXCEPT !.default = r.default].default = r.default
    BY <1>2, <1>3 DEF Config
  <2>3. r.op = "update" /\ (Live(c0) => config[c0].project = r.project)
    BY <1>1, <1>6 DEF SoundRequest, Save
  <2>4. ~Insert(p)
    BY <2>3 DEF Insert
  <2> QED
    BY <1>2, <1>4, <2>1, <2>2, <2>3, <2>4
<1> QED
  BY <1>5, <1>6

\* The defaults after a write: old ones that it has not cleared, and its own.
LEMMA DefaultsAfterWrite ==
    ASSUME NEW p \in Processes, IInv, Insert(p) \/ Save(p), NEW pr \in Projects, NEW c \in Defaults(pr)'
    PROVE  \/ c \in Defaults(pr) /\ c # request[p].config /\ c \notin request[p].cleared
           \/ c = request[p].config /\ request[p].default /\ pr = request[p].project
<1>1. c \in Configs /\ config'[c].state = "live" /\ config'[c].project = pr /\ config'[c].default
  BY DEF Defaults, ConfigsOf, Live
<1>2. CASE c # request[p].config
  BY <1>1, <1>2, Written DEF Defaults, ConfigsOf, Live
<1>3. CASE c = request[p].config
  BY <1>1, <1>3, Written DEF Live
<1> QED
  BY <1>2, <1>3

LEMMA WriteKept ==
    ASSUME NEW p \in Processes, IInv, Insert(p) \/ Save(p)
    PROVE  /\ request' \in [Processes -> Request]
           /\ Sound' /\ IdsApart' /\ Holding'
           /\ BlankRows' /\ LinksApart' /\ LinkedConfigsExist'
<1> DEFINE c0 == request[p].config
<1>1. /\ request' = [request EXCEPT ![p] = Idle] /\ UNCHANGED linked
      /\ Setting(p)
  BY DEF Insert, Save, Finish
<1>2. /\ request' \in [Processes -> Request]
      /\ request'[p] = Idle /\ \A o \in Processes : o # p => request'[o] = request[o]
  BY <1>1, IdleIsGood DEF IInv, TypeOK
<1>3. c0 \in Configs /\ request[p].project \in Projects
  BY Written
<1>4. \A c \in Configs : c # c0 => config'[c].state = config[c].state /\ config'[c].project = config[c].project
  BY Written
<1>5. \/ request[p].op = "create" /\ config[c0].state = "unused" /\ config'[c0].state = "live"
      \/ config'[c0].state = config[c0].state /\ config'[c0].project = config[c0].project
  BY Written DEF Insert
<1>6. Sound'
  <2>1. SoundRequest(request[p])'
    BY <1>2 DEF SoundRequest, Idle, None
  <2>2. ASSUME NEW o \in Processes, o # p
        PROVE  SoundRequest(request[o])'
    <3>1. SoundRequest(request[o]) /\ request'[o] = request[o]
      BY <1>2, <2>2 DEF IInv, Sound
    <3>2. request[p].op = "create" /\ request[o].op = "create" => request[o].config # c0
      BY <2>2 DEF IInv, IdsApart
    <3> HIDE DEF c0
    <3>3. request[o].op # None => request[o].config \in Configs
      BY <3>1 DEF SoundRequest
    <3>4. CASE request[o].op = None
      BY <1>1, <3>1, <3>4 DEF SoundRequest, None
    <3>5. CASE request[o].op # None /\ request[o].config # c0
      BY <1>1, <1>4, <3>1, <3>3, <3>5 DEF SoundRequest, Live
    <3>6. CASE request[o].op # None /\ request[o].config = c0
      BY <1>1, <1>5, <3>1, <3>2, <3>6 DEF SoundRequest, Live
    <3> QED
      BY <3>4, <3>5, <3>6
  <2> QED
    BY <2>1, <2>2 DEF Sound
<1>7. IdsApart'
  BY <1>2 DEF IInv, IdsApart, Idle, None
<1>8. Holding'
  <2>1. ~Setting(p)'
    BY <1>2 DEF Setting, Idle
  <2>2. ASSUME NEW q \in Processes, q # p, Setting(q), request[q].default, request[q].alone
        PROVE  /\ \A o \in Processes : o # q => ~Rivals(request'[o], request'[q])
               /\ \A c \in Defaults(request[q].project)' :
                    c \in {request[q].config} \cup request[q].todo \cup request[q].cleared
    <3>1. /\ \A o \in Processes : o # q => ~Rivals(request[o], request[q])
          /\ \A c \in Defaults(request[q].project) :
               c \in {request[q].config} \cup request[q].todo \cup request[q].cleared
      BY <2>2 DEF IInv, Holding
    <3>2. request[p].default => request[p].project # request[q].project
      BY <1>1, <2>2, <3>1 DEF Rivals, Setting
    <3>3. request[q].project \in Projects
      <4>1. SoundRequest(request[q])
        BY DEF IInv, Sound
      <4> QED
        BY <2>2, <4>1 DEF Setting, SoundRequest
    <3>4. Defaults(request[q].project)' \subseteq Defaults(request[q].project)
      <4>1. PICK pr \in Projects : pr = request[q].project
        BY <3>3
      <4>2. Defaults(pr)' \subseteq Defaults(pr)
        <5>1. request[p].default => request[p].project # pr
          BY <3>2, <4>1
        <5> QED
          BY <5>1, DefaultsAfterWrite
      <4>3. request'[q].project = pr
        BY <1>2, <2>2, <4>1
      <4> QED
        BY <4>1, <4>2, <4>3 DEF Defaults, ConfigsOf, Live
    <3>5. \A o \in Processes : o # q => ~Rivals(request'[o], request'[q])
      <4>1. ~Rivals(request'[p], request'[q])
        BY <1>2 DEF Rivals, Idle
      <4> QED
        BY <1>2, <2>2, <3>1, <4>1
    <3> QED
      BY <3>1, <3>4, <3>5
  <2> QED
    BY <1>2, <2>1, <2>2 DEF Holding, Setting
<1>9. BlankRows' /\ LinksApart' /\ LinkedConfigsExist'
  <2>1. BlankRows'
    <3>1. ASSUME NEW c \in Configs, config'[c].state # "live"
          PROVE  config'[c].project = None /\ ~config'[c].default
      <4>1. CASE c # c0
        BY <3>1, <4>1, Written DEF IInv, BlankRows, Live
      <4>2. CASE c = c0
        <5>1. Save(p)
          BY <3>1, <4>2, Written
        <5>2. /\ config'[c].state = config[c].state /\ config'[c].project = config[c].project
              /\ ~Live(c) /\ config'[c].default => config[c].default
          BY <4>2, <5>1, Written
        <5> QED
          BY <3>1, <5>2 DEF IInv, BlankRows, Live
      <4> QED
        BY <4>1, <4>2
    <3> QED
      BY <3>1 DEF BlankRows, Live
  <2>2. LinksApart'
    BY <1>1 DEF IInv, LinksApart
  <2>3. LinkedConfigsExist'
    BY <1>1, <1>3, <1>4, <1>5 DEF IInv, LinkedConfigsExist, Live, TypeOK
  <2> QED
    BY <2>1, <2>2, <2>3
<1> QED
  BY <1>2, <1>6, <1>7, <1>8, <1>9

LEMMA DeleteKept ==
    ASSUME NEW p \in Processes, IInv, Delete(p)
    PROVE  /\ request' \in [Processes -> Request] /\ config' \in [Configs -> Config]
           /\ Sound' /\ IdsApart' /\ Holding'
           /\ BlankRows' /\ LinksApart' /\ LinkedConfigsExist'
<1> DEFINE r == request[p]
           c0 == request[p].config
           gone == [NoRow EXCEPT !.state = "deleted"]
<1>1. /\ request' = [request EXCEPT ![p] = Idle] /\ r.step = "deleting"
      /\ linked' = [t \in Things |-> IF t = r.thing THEN NoConfig ELSE linked[t]]
  BY DEF Delete, Finish
<1>2. /\ request' \in [Processes -> Request]
      /\ request'[p] = Idle /\ \A o \in Processes : o # p => request'[o] = request[o]
  BY <1>1, IdleIsGood DEF IInv, TypeOK
<1>3. r \in Request /\ SoundRequest(r) /\ r.op \in {"delete", "unassign"}
  BY <1>1 DEF IInv, TypeOK, Sound, SoundRequest
<1>4. c0 \in Configs /\ config[c0] \in Config /\ config[c0].state # "unused"
  BY <1>3 DEF SoundRequest, None, IInv, TypeOK
<1>5. \/ config' = config /\ config[c0].project # None
      \/ config' = [config EXCEPT ![c0] = gone]
  BY DEF Delete
<1>6. gone \in Config /\ gone.state = "deleted" /\ gone.project = None /\ ~gone.default
  <2>1. NoRow \in Config /\ NoRow.project = None /\ ~NoRow.default
    BY DEF NoRow, Config, States
  <2> QED
    BY <2>1 DEF Config, States
<1> HIDE DEF gone
<1>7. config' \in [Configs -> Config]
  BY <1>4, <1>5, <1>6 DEF IInv, TypeOK
<1>8. \A c \in Configs : config'[c] = config[c] \/ (c = c0 /\ config'[c] = gone)
  BY <1>4, <1>5 DEF IInv, TypeOK
<1>9. Sound'
  <2>1. SoundRequest(request[p])'
    BY <1>2 DEF SoundRequest, Idle, None
  <2>2. ASSUME NEW o \in Processes, o # p
        PROVE  SoundRequest(request[o])'
    <3>1. SoundRequest(request[o]) /\ request'[o] = request[o] /\ request[o] \in Request
      BY <1>2, <2>2 DEF IInv, Sound, TypeOK
    <3>2. request[o].op # None => request[o].config \in Configs
      BY <3>1 DEF SoundRequest
    <3>3. request[o].op # None =>
             \A t \in Things : linked'[t] = request[o].config => linked[t] = request[o].config
      BY <1>1, <3>2, ConfigsAssumption DEF Configs, NoConfig
    <3>4. CASE request[o].op = None
      BY <3>1, <3>4 DEF SoundRequest, None
    <3>5. CASE request[o].op # None /\ config'[request[o].config] = config[request[o].config]
      BY <3>1, <3>2, <3>3, <3>5 DEF SoundRequest, Live
    <3>6. CASE request[o].op # None /\ request[o].config = c0 /\ config'[c0] = gone
      BY <1>4, <1>6, <3>1, <3>2, <3>3, <3>6 DEF SoundRequest, Live
    <3> QED
      BY <1>8, <3>2, <3>4, <3>5, <3>6
  <2> QED
    BY <2>1, <2>2 DEF Sound
<1>10. IdsApart'
  BY <1>2 DEF IInv, IdsApart, Idle, None
<1>11. \A pr : Defaults(pr)' \subseteq Defaults(pr)
  BY <1>6, <1>8 DEF Defaults, ConfigsOf, Live
<1>12. Holding'
  <2>1. ~Setting(p)' /\ \A q : ~Rivals(request'[p], q)
    BY <1>2 DEF Setting, Rivals, Idle
  <2> QED
    BY <1>2, <1>11, <2>1 DEF IInv, Holding, Setting
<1>13. BlankRows'
  BY <1>6, <1>8 DEF IInv, BlankRows, Live
<1>14. LinksApart'
  BY <1>1 DEF IInv, LinksApart
<1>15. LinkedConfigsExist'
  <2>1. ASSUME NEW t \in Things, linked'[t] # NoConfig
        PROVE  config'[linked'[t]].state = "live" /\ config'[linked'[t]].project = None
    <3>1. t # r.thing /\ linked'[t] = linked[t] /\ linked[t] \in Configs
      BY <1>1, <2>1 DEF IInv, TypeOK
    <3>2. config[linked[t]].state = "live" /\ config[linked[t]].project = None
      BY <2>1, <3>1 DEF IInv, LinkedConfigsExist, Live
    <3>3. linked[t] # c0
      <4>1. CASE r.op = "unassign"
        BY <1>3, <3>1, <4>1 DEF SoundRequest
      <4>2. CASE r.op = "delete"
        BY <1>3, <3>2, <4>2, ProjectsAssumption DEF SoundRequest, Live
      <4> QED
        BY <1>3, <4>1, <4>2
    <3> QED
      BY <1>8, <3>1, <3>2, <3>3
  <2> QED
    BY <2>1 DEF LinkedConfigsExist, Live
<1> QED
  BY <1>2, <1>7, <1>9, <1>10, <1>12, <1>13, <1>14, <1>15

LEMMA AssignKept ==
    ASSUME NEW p \in Processes, IInv, AssignThing(p)
    PROVE  /\ config' \in [Configs -> Config] /\ linked' \in [Things -> Configs \cup {NoConfig}]
           /\ Sound' /\ IdsApart' /\ Holding'
           /\ BlankRows' /\ LinksApart' /\ LinkedConfigsExist'
<1>1. PICK t \in Things, c0 \in Fresh : /\ config' = [config EXCEPT ![c0].state = "live"]
                                       /\ linked' = [linked EXCEPT ![t] = c0]
  BY DEF AssignThing
<1>2. /\ c0 \in Configs /\ c0 # NoConfig /\ config[c0].state = "unused"
      /\ \A o \in Processes : request[o].config # c0
  BY FreshIsNew
<1>3. UNCHANGED request
  BY DEF AssignThing
<1>4. /\ config[c0] \in Config /\ config[c0].project = None /\ ~config[c0].default
      /\ \A u \in Things : linked[u] # c0
  BY <1>2 DEF IInv, TypeOK, BlankRows, LinkedConfigsExist, Live
<1> DEFINE row == [config[c0] EXCEPT !.state = "live"]
<1>5. row \in Config /\ row.state = "live" /\ row.project = None /\ ~row.default
  BY <1>4 DEF Config, States
<1>6. config' = [config EXCEPT ![c0] = row]
  BY <1>1
<1> HIDE DEF row
<1>7. config' \in [Configs -> Config] /\ linked' \in [Things -> Configs \cup {NoConfig}]
  BY <1>1, <1>2, <1>5, <1>6 DEF IInv, TypeOK
<1>8. \A c \in Configs : IF c = c0 THEN config'[c] = row ELSE config'[c] = config[c]
  BY <1>2, <1>6 DEF IInv, TypeOK
<1>9. \A u \in Things : IF u = t THEN linked'[u] = c0 ELSE linked'[u] = linked[u]
  BY <1>1 DEF IInv, TypeOK
<1>10. Sound'
  <2>1. ASSUME NEW o \in Processes
        PROVE  SoundRequest(request[o])'
    <3>1. SoundRequest(request[o]) /\ request'[o] = request[o] /\ request[o].config # c0
      BY <1>2, <1>3 DEF IInv, Sound
    <3>2. request[o].op # None => request[o].config \in Configs
      BY <3>1 DEF SoundRequest
    <3>3. request[o].op # None => config'[request[o].config] = config[request[o].config]
      BY <1>8, <3>1, <3>2
    <3>4. \A u \in Things : linked'[u] = request[o].config => linked[u] = request[o].config
      BY <1>9, <3>1
    <3> QED
      BY <3>1, <3>2, <3>3, <3>4 DEF SoundRequest, Live, None
  <2> QED
    BY <2>1 DEF Sound
<1>11. IdsApart'
  BY <1>3 DEF IInv, IdsApart
<1>12. \A pr : Defaults(pr)' \subseteq Defaults(pr)
  BY <1>5, <1>8 DEF Defaults, ConfigsOf, Live
<1>13. Holding'
  BY <1>3, <1>12 DEF IInv, Holding, Setting, Rivals
<1>14. BlankRows'
  BY <1>5, <1>8 DEF IInv, BlankRows, Live
<1>15. LinksApart'
  BY <1>4, <1>9 DEF IInv, LinksApart
<1>16. LinkedConfigsExist'
  <2>1. ASSUME NEW u \in Things, linked'[u] # NoConfig
        PROVE  config'[linked'[u]].state = "live" /\ config'[linked'[u]].project = None
    <3>1. CASE u = t
      BY <1>2, <1>5, <1>8, <1>9, <3>1
    <3>2. CASE u # t
      <4>1. linked'[u] = linked[u] /\ linked[u] \in Configs /\ linked[u] # c0
        BY <1>4, <1>9, <2>1, <3>2 DEF IInv, TypeOK
      <4> QED
        BY <1>8, <2>1, <4>1 DEF IInv, LinkedConfigsExist, Live
    <3> QED
      BY <3>1, <3>2
  <2> QED
    BY <2>1 DEF LinkedConfigsExist, Live
<1> QED
  BY <1>7, <1>10, <1>11, <1>13, <1>14, <1>15, <1>16

-----------------------------------------------------------------------------
(* The whole.                                                              *)

LEMMA InitHolds == Init => IInv
<1> SUFFICES ASSUME Init PROVE IInv
  OBVIOUS
<1>1. TypeOK
  <2>1. NoRow \in Config /\ NoTest \in Test /\ Idle \in Request
    BY DEF NoRow, Config, States, NoTest, Test, Idle, Request
  <2> QED
    BY <2>1, CrashesAssumption DEF Init, TypeOK
<1>2. BlankRows /\ LinksApart /\ LinkedConfigsExist
  BY DEF Init, NoRow, BlankRows, LinksApart, LinkedConfigsExist, Live
<1>3. Sound /\ IdsApart
  BY DEF Init, Idle, None, Sound, SoundRequest, IdsApart
<1>4. Holding
  BY DEF Init, Idle, Holding, Setting
<1> QED
  BY <1>1, <1>2, <1>3, <1>4 DEF IInv

\* Tests keep their type.
LEMMA TestsTyped ==
    ASSUME NEW p \in Processes, IInv, Start(p) \/ Continue(p) \/ Crash(p)
    PROVE  test' \in [Tests -> Test]
<1>1. NoTest \in Test /\ test \in [Tests -> Test]
  BY DEF NoTest, Test, IInv, TypeOK
<1>2. CASE UNCHANGED test
  BY <1>1, <1>2
<1>3. CASE Delete(p)
  BY <1>1, <1>3 DEF Delete
<1>4. CASE CreateTest(p)
  <2>1. request[p].config \in Configs
    BY <1>4 DEF CreateTest, IInv, Sound, SoundRequest, None
  <2>2. \A q \in Tests : [test[q] EXCEPT !.config = request[p].config] \in Test
    BY <1>1, <2>1 DEF Test
  <2> QED
    BY <1>1, <1>4, <2>2 DEF CreateTest
<1>5. CASE UpdateTest(p)
  <2>1. \A q \in Tests : [test[q] EXCEPT !.edited = test[q] # NoTest] \in Test
    BY <1>1 DEF Test
  <2> QED
    BY <1>1, <1>5, <2>1 DEF UpdateTest
<1>6. CASE DeleteTest(p)
  BY <1>1, <1>6 DEF DeleteTest, Without
<1>7. CASE DeleteThingTest(p)
  BY <1>1, <1>7 DEF DeleteThingTest, Without
<1>8. CASE SmsRequest(p) \/ ProjectRequest(p) \/ AssignThing(p) \/ BeginUnassign(p) \/ AddThingTest(p)
  BY <1>2, <1>8 DEF SmsRequest, ProjectRequest, Routes, AssignThing, BeginUnassign, AddThingTest
<1>9. CASE BeginWrite(p) \/ ClearFlag(p) \/ Insert(p) \/ Save(p) \/ BreakDeadlock(p)
           \/ BeginDelete(p) \/ RefuseDelete(p) \/ Crash(p)
  BY <1>2, <1>9 DEF BeginWrite, ClearFlag, Insert, Save, BreakDeadlock, BeginDelete, RefuseDelete, Crash
<1> QED
  BY <1>3, <1>4, <1>5, <1>6, <1>7, <1>8, <1>9 DEF Start, Continue

\* So is the count of crashes, which a crash alone raises.
LEMMA CrashesTyped ==
    ASSUME NEW p \in Processes, IInv, Start(p) \/ Continue(p) \/ Crash(p)
    PROVE  crashes' \in 0..MaxCrashes
<1>1. crashes \in 0..MaxCrashes
  BY DEF IInv, TypeOK
<1>2. CASE Crash(p)
  BY <1>1, <1>2, CrashesAssumption DEF Crash
<1>3. CASE Start(p)
  BY <1>1, <1>3 DEF Start, SmsRequest, ProjectRequest, Routes, AssignThing, BeginUnassign, AddThingTest,
                    DeleteThingTest
<1>4. CASE Continue(p)
  BY <1>1, <1>4 DEF Continue, BeginWrite, ClearFlag, Insert, Save, BreakDeadlock, BeginDelete, Delete,
                    RefuseDelete, CreateTest, UpdateTest, DeleteTest
<1> QED
  BY <1>2, <1>3, <1>4

LEMMA StepHolds ==
    ASSUME IInv, [Next]_vars
    PROVE  IInv'
<1>1. CASE UNCHANGED vars
  <2>1. UNCHANGED <<config, test, linked, request, crashes>>
    BY <1>1 DEF vars
  <2>2. TypeOK' /\ IdsApart'
    BY <2>1 DEF IInv, TypeOK, IdsApart
  <2>3. Sound'
    BY <2>1 DEF IInv, Sound, SoundRequest, Live
  <2>4. Holding'
    BY <2>1 DEF IInv, Holding, Setting, Rivals, Defaults, ConfigsOf, Live
  <2>5. BlankRows' /\ LinksApart' /\ LinkedConfigsExist'
    BY <2>1, RowsAlike DEF IInv
  <2> QED
    BY <2>2, <2>3, <2>4, <2>5 DEF IInv
<1>2. ASSUME NEW p \in Processes, Start(p) \/ Continue(p) \/ Crash(p)
      PROVE  IInv'
  <2>1. test' \in [Tests -> Test] /\ crashes' \in 0..MaxCrashes
    BY <1>2, TestsTyped, CrashesTyped
  <2>2. /\ config \in [Configs -> Config] /\ linked \in [Things -> Configs \cup {NoConfig}]
        /\ request \in [Processes -> Request]
    BY DEF IInv, TypeOK
  <2>3. CASE AssignThing(p)
    <3>1. UNCHANGED request
      BY <2>3 DEF AssignThing
    <3> QED
      BY <2>1, <2>2, <2>3, <3>1, AssignKept DEF IInv, TypeOK
  <2>4. CASE Quiet(p)
    <3>1. UNCHANGED <<config, linked>>
      BY <2>4 DEF Quiet
    <3> QED
      BY <2>1, <2>2, <2>4, <3>1, QuietKept DEF IInv, TypeOK
  <2>5. CASE BeginWrite(p) \/ ClearFlag(p)
    <3>1. UNCHANGED <<config, linked>>
      BY <2>5 DEF BeginWrite, ClearFlag
    <3> QED
      BY <2>1, <2>2, <2>5, <3>1, BeginWriteKept, ClearFlagKept DEF IInv, TypeOK
  <2>6. CASE Insert(p) \/ Save(p)
    <3>1. UNCHANGED linked
      BY <2>6 DEF Insert, Save
    <3>2. config' \in [Configs -> Config]
      BY <2>6, Written
    <3> QED
      BY <2>1, <2>2, <2>6, <3>1, <3>2, WriteKept DEF IInv, TypeOK
  <2>7. CASE Delete(p)
    <3>1. linked' \in [Things -> Configs \cup {NoConfig}]
      BY <2>2, <2>7 DEF Delete
    <3> QED
      BY <2>1, <2>7, <3>1, DeleteKept DEF IInv, TypeOK
  <2> QED
    BY <1>2, <2>3, <2>4, <2>5, <2>6, <2>7, StartQuiet, ContinueQuiet DEF Start, Continue
<1> QED
  BY <1>1, <1>2 DEF Next

LEMMA Inductive == Spec => []IInv
BY InitHolds, StepHolds, PTL DEF Spec

\* Whatever requests are under way, each process is at one of the service's steps with a
\* project, a configuration and a thing of the right kind.
THEOREM TypesHold == Spec => []TypeOK
<1>1. IInv => TypeOK
  BY DEF IInv
<1> QED
  BY <1>1, Inductive, PTL

\* assign_thing_qaqc, unassign_thing_qaqc and delete_config: the configuration that a sensor's
\* link names is there and is no project's.
THEOREM LinksGrounded == Spec => []LinkedConfigsExist
<1>1. IInv => LinkedConfigsExist
  BY DEF IInv
<1> QED
  BY <1>1, Inductive, PTL

\* create_config and update_config: a default that is set with no rival beside it is its
\* project's only one.
THEOREM SoleDefaultKept == Spec => SoleDefault
<1> DEFINE Sole == \A p \in Processes, pr \in Projects :
                     /\ Insert(p) \/ Save(p)
                     /\ request[p].default /\ request[p].project = pr /\ request[p].alone
                     => \A a, b \in Defaults(pr)' : a = b
<1>1. ASSUME IInv
      PROVE  Sole
  <2> SUFFICES ASSUME NEW p \in Processes, NEW pr \in Projects, Insert(p) \/ Save(p),
                      request[p].default, request[p].project = pr, request[p].alone,
                      NEW c \in Defaults(pr)'
               PROVE  c = request[p].config
    OBVIOUS
  <2>1. Setting(p) /\ request[p].todo = {}
    BY DEF Insert, Save
  <2>2. \A d \in Defaults(pr) : d \in {request[p].config} \cup request[p].cleared
    BY <1>1, <2>1 DEF IInv, Holding
  <2> QED
    BY <1>1, <2>2, DefaultsAfterWrite
<1>2. IInv => [Sole]_vars
  BY <1>1
<1> QED
  BY <1>2, Inductive, PTL DEF SoleDefault
=============================================================================
