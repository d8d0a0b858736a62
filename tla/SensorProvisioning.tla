--------------------------- MODULE SensorProvisioning ---------------------------
(***************************************************************************)
(* How sensors, simulated sensors and datasets are made, linked, synced and *)
(* deleted: services/timeio/orchestrator.py, things.py, simulator.py, the   *)
(* sensor part of project_service.py, simulator_service.py, dataset_service *)
(* and sms_service.                                                        *)
(*                                                                         *)
(* A thing has rows in the ConfigDB and in its schema, both written by the  *)
(* TSM's workers after a message, a link to a project, and perhaps a        *)
(* simulation.  No transaction spans two of these.  A creation waits for    *)
(* the rows and gives up after a time, the message stays under way.         *)
(***************************************************************************)
EXTENDS Naturals

CONSTANTS
    Processes,    \* of the API
    Projects,
    Things,       \* by the uuid that a creation draws
    Schemas,
    MaxPolls,     \* how often a creation looks for its thing: 30 in the code
    MaxMessages,  \* under way for a thing
    MaxFailures   \* refused calls, lost rights, unacknowledged messages, deaths of processes

None == "none"

ASSUME ProjectsAssumption == None \notin Projects
ASSUME ThingsAssumption   == None \notin Things
ASSUME SchemasAssumption  == None \notin Schemas
ASSUME BoundsAssumption   == /\ MaxPolls \in Nat \ {0}
                             /\ MaxMessages \in Nat \ {0}
                             /\ MaxFailures \in Nat

VARIABLES
    projects,  \* the projects that exist
    schema,    \* schema[p]: the project's schema_name
    links,     \* links[p]: project_sensors
    sims,      \* the things with a row in simulations
    home,      \* home[t]: schema and project that t was ordered for
    config,    \* the things in the ConfigDB, and in schema_thing_mapping
    known,     \* the schemas in the ConfigDB
    rows,      \* the things in the database of their schema
    inbox,     \* inbox[t]: messages on frontend_thing_update
    setup,     \* the things whose set-up the ConfigDB updater has triggered
    told,      \* told[t]: what the last request that ended for t told its user
    erased,    \* history: the things that remove_sensor deleted from the source
    loose,     \* history: the things whose link failed at the end of their creation
    request,   \* request[w]: the request that process w is at
    failures

tsm  == <<config, known, rows, inbox, setup>>
app  == <<projects, schema, links, sims>>
vars == <<projects, schema, links, sims, home, config, known, rows, inbox, setup,
          told, erased, loose, request, failures>>

-----------------------------------------------------------------------------
Creations == {"sensor", "group", "simulated", "dataset"}

Request == [step    : {"idle", "ordered", "waiting", "made", "opened", "linking",
                       "unlinked", "forgotten", "deleted", "syncing"},
            kind    : Creations \cup {None, "link", "remove", "forget", "sync"},
            thing   : Things \cup {None},
            project : Projects \cup {None},
            schema  : Schemas \cup {None},
            polls   : 0 .. MaxPolls]

At(step, kind, t, p) == [step |-> step, kind |-> kind, thing |-> t, project |-> p,
                         schema |-> None, polls |-> 0]
Idle == At("idle", None, None, None)

Go(w, step)  == request' = [request EXCEPT ![w].step = step]
Finish(w)    == request' = [request EXCEPT ![w] = Idle]
Creating(w)  == request[w].kind \in Creations

\* The end of a request, with what its user is told of the thing.
Answer(w, answer) ==
    /\ Finish(w)
    /\ told' = [told EXCEPT ![request[w].thing] = answer]

\* An unexpected end: a pool that refuses, a message that is not acknowledged, a death.
\* What a creation swallows instead is LinkFails.
Fail(w) ==
    /\ failures < MaxFailures
    /\ failures' = failures + 1
    /\ IF Creating(w) THEN Answer(w, "failed") ELSE Finish(w) /\ UNCHANGED told

\* Some things are there before, made by the TSM's own frontend.
Init ==
    /\ projects = Projects
    /\ schema \in [Projects -> Schemas \cup {None}]
    /\ links = [p \in Projects |-> {}]
    /\ sims = {}
    /\ config \in SUBSET Things
    /\ home \in [Things -> [schema : Schemas \cup {None}, project : {None}]]
    /\ \A t \in Things : home[t].schema # None <=> t \in config
    /\ known = {home[t].schema : t \in config}
    /\ rows = config
    /\ inbox = [t \in Things |-> 0]
    /\ setup = {}
    /\ told = [t \in Things |-> None]
    /\ erased = {} /\ loose = {}
    /\ request = [w \in Processes |-> Idle]
    /\ failures = 0

-----------------------------------------------------------------------------
(* Creation.                                                               *)

\* The project's schema, or one derived from a name; create_dataset does not trust a
\* schema that the ConfigDB does not know, and a request for a group takes the group's.
Targets(kind, p) ==
    IF kind = "group" THEN Schemas
    ELSE IF schema[p] = None \/ (kind = "dataset" /\ schema[p] \notin known) THEN Schemas
    ELSE {schema[p]}

Order(w, kind, t, p) ==
    /\ request[w] = Idle /\ home[t].schema = None
    /\ p \in projects \/ (kind = "group" /\ p = None)
    /\ \E s \in Targets(kind, p) : home' = [home EXCEPT ![t] = [schema |-> s, project |-> p]]
    /\ request' = [request EXCEPT ![w] =
           [At("ordered", kind, t, p) EXCEPT !.schema = IF p = None THEN None ELSE schema[p]]]
    /\ UNCHANGED <<app, tsm, told, erased, loose, failures>>

Send(t) == inbox' = [inbox EXCEPT ![t] = @ + 1]

\* The message, with the credentials that are looked up or made for it, is composed and sent.
\* Without the acknowledgement the creation fails, also if the message got through.
Publish(w) ==
    LET t == request[w].thing IN
    /\ request[w].step = "ordered"
    /\ \/ Send(t) /\ Go(w, "waiting") /\ UNCHANGED <<told, failures>>
       \/ (Send(t) \/ UNCHANGED inbox) /\ Fail(w)
    /\ UNCHANGED <<app, home, config, known, rows, setup, erased, loose>>

\* Mutant: the loop has no limit.
Poll_NeverGivesUp(w) ==
    LET t == request[w].thing IN
    /\ request[w].step = "waiting"
    /\ \/ t \in rows /\ Go(w, "made") /\ UNCHANGED <<told, failures>>
       \/ /\ t \notin rows
          /\ UNCHANGED request
          /\ UNCHANGED <<told, failures>>
       \/ Fail(w)
    /\ UNCHANGED <<app, home, tsm, erased, loose>>

\* Found: what is written to the thing's row then (datastreams, properties, parser) is
\* data.  Any of these calls may be refused a connection.
Poll(w) ==
    LET t == request[w].thing IN
    /\ request[w].step = "waiting"
    /\ \/ t \in rows /\ Go(w, "made") /\ UNCHANGED <<told, failures>>
       \/ /\ t \notin rows
          /\ request[w].polls + 1 < MaxPolls
          /\ request' = [request EXCEPT ![w].polls = @ + 1]
          /\ UNCHANGED <<told, failures>>
       \/ /\ t \notin rows
          /\ request[w].polls + 1 = MaxPolls
          /\ Answer(w, "failed") /\ UNCHANGED failures
       \/ Fail(w)
    /\ UNCHANGED <<app, home, tsm, erased, loose>>

\* create_sensor of things.py: a project that had no schema gets the thing's, whatever it
\* has by now; if it is gone, the update of its row fails.
AssignSchema(w) ==
    LET r == request[w] IN
    /\ r.step = "made" /\ r.kind \in {"sensor", "group"}
    /\ IF r.project = None \/ (r.schema = None /\ r.project \notin projects)
       THEN /\ Answer(w, IF r.project = None THEN "created" ELSE "failed")
            /\ UNCHANGED schema
       ELSE /\ schema' = IF r.schema = None
                         THEN [schema EXCEPT ![r.project] = home[r.thing].schema]
                         ELSE schema
            /\ Go(w, "opened") /\ UNCHANGED told
    /\ UNCHANGED <<projects, links, sims, home, tsm, erased, loose, failures>>

SaveSimulation(w) ==
    /\ request[w].step = "made" /\ request[w].kind = "simulated"
    /\ sims' = sims \cup {request[w].thing}
    /\ Go(w, "opened")
    /\ UNCHANGED <<projects, schema, links, home, tsm, told, erased, loose, failures>>

\* The same insert without add_sensor, and an error that is not swallowed.
LinkDataset(w) ==
    LET r == request[w] IN
    /\ r.step = "made" /\ r.kind = "dataset"
    /\ IF r.project \in projects
       THEN links' = [links EXCEPT ![r.project] = @ \cup {r.thing}] /\ Answer(w, "created")
       ELSE UNCHANGED links /\ Answer(w, "failed")
    /\ UNCHANGED <<projects, schema, sims, home, tsm, erased, loose, failures>>

-----------------------------------------------------------------------------
(* add_sensor, alone or as the end of a creation.                           *)

FindToLink(w, t, p) ==
    /\ request[w] = Idle /\ p \in projects /\ t \in rows
    /\ request' = [request EXCEPT ![w] = At("opened", "link", t, p)]
    /\ UNCHANGED <<app, home, tsm, told, erased, loose, failures>>

\* The end of add_sensor: a creation answers alike whether it returned or raised.
EndLink(w) == IF Creating(w) THEN Answer(w, "created") ELSE Finish(w) /\ UNCHANGED told

\* A project without a schema is to get the thing's, if the thing has a mapping; one that
\* cannot be read counts as none.
OpenProject(w) ==
    LET r == request[w]
        mapped == IF schema[r.project] = None /\ r.thing \in config
                  THEN home[r.thing].schema ELSE None
    IN
    /\ r.step = "opened"
    /\ IF r.project \in projects
       THEN /\ \E s \in {mapped, None} :
                  /\ request' = [request EXCEPT ![w] = [r EXCEPT !.step = "linking", !.schema = s]]
                  /\ s # mapped => failures < MaxFailures
                  /\ failures' = IF s = mapped THEN failures ELSE failures + 1
            /\ UNCHANGED told
       ELSE EndLink(w) /\ UNCHANGED failures
    /\ UNCHANGED <<app, home, tsm, erased, loose>>

\* Mutant: the row is not inserted when the project still needs a schema.
Link_SchemaFirst(w) ==
    LET r == request[w] IN
    /\ r.step = "linking"
    /\ IF r.project \in projects /\ r.thing \notin links[r.project]
       THEN /\ links' = IF r.schema = None
                        THEN [links EXCEPT ![r.project] = @ \cup {r.thing}] ELSE links
            /\ schema' = IF r.schema = None THEN schema
                         ELSE [schema EXCEPT ![r.project] = r.schema]
       ELSE UNCHANGED <<links, schema>>
    /\ EndLink(w)
    /\ UNCHANGED <<projects, sims, home, tsm, erased, loose, failures>>

\* One transaction; IntegrityError, for a link that exists or a project that does not,
\* rolls the schema back, too, and passes for success.
Link(w) ==
    LET r == request[w] IN
    /\ r.step = "linking"
    /\ IF r.project \in projects /\ r.thing \notin links[r.project]
       THEN /\ links' = [links EXCEPT ![r.project] = @ \cup {r.thing}]
            /\ schema' = IF r.schema = None THEN schema
                         ELSE [schema EXCEPT ![r.project] = r.schema]
       ELSE UNCHANGED <<links, schema>>
    /\ EndLink(w)
    /\ UNCHANGED <<projects, sims, home, tsm, erased, loose, failures>>

\* add_sensor raises for another reason: the user has lost the rights since the request began,
\* a connection is refused, a statement fails and is rolled back.  A user who links is told.
\* A creation swallows that error, too, and answers as if the link were made.
LinkFails(w) ==
    LET r == request[w] IN
    /\ r.step \in {"opened", "linking"}
    /\ failures < MaxFailures /\ failures' = failures + 1
    /\ loose' = IF Creating(w) THEN loose \cup {r.thing} ELSE loose
    /\ EndLink(w)
    /\ UNCHANGED <<app, home, tsm, erased>>

-----------------------------------------------------------------------------
(* Deletion.                                                               *)

\* delete_thing_cascade: either half may fail, the first without a trace, and the first
\* looks in one schema only.  See TimeIODatabase.
Cascade(t, s) ==
    /\ rows' \in {IF s = home[t].schema THEN rows \ {t} ELSE rows, rows}
    /\ config' \in {config \ {t}, config}
    /\ LET failed == (config' = config /\ t \in config)
                     \/ (rows' = rows /\ t \in rows /\ s = home[t].schema)
       IN  /\ failed => failures < MaxFailures
           /\ failures' = IF failed THEN failures + 1 ELSE failures
    /\ UNCHANGED <<known, inbox, setup>>

\* The schema that deletes look in: the project's, else the one that the thing maps to.
SchemaFor(p, t) ==
    IF p \in projects /\ schema[p] # None THEN schema[p]
    ELSE IF t \in config THEN home[t].schema ELSE None

Unlink(p, t) == links' = [links EXCEPT ![p] = @ \ {t}]

\* remove_sensor, for a linked thing, or from the list of all sensors, where the project
\* is the first one that has the thing's schema.
RemoveSensor(w, t, p, fromSource) ==
    /\ request[w] = Idle /\ p \in projects
    /\ t \in links[p] \/ (t \in config /\ schema[p] = home[t].schema)
    /\ Unlink(p, t)
    /\ told' = [told EXCEPT ![t] = "unlinked"]
    /\ request' = IF fromSource
                  THEN [request EXCEPT ![w] = At("unlinked", "remove", t, p)]
                  ELSE request
    /\ UNCHANGED <<projects, schema, sims, home, tsm, erased, loose, failures>>

\* The project's row is read again; what the deletion answers is not.
DeleteSource(w) ==
    LET r == request[w] IN
    /\ r.step = "unlinked"
    /\ IF r.project \in projects /\ SchemaFor(r.project, r.thing) # None
       THEN /\ Cascade(r.thing, SchemaFor(r.project, r.thing))
            /\ erased' = erased \cup (config \ config')
            /\ Answer(w, "deleted")
       ELSE Finish(w) /\ UNCHANGED <<tsm, told, erased, failures>>
    /\ UNCHANGED <<app, home, loose>>

\* Mutant: the simulation's deletion is not committed.
ForgetSimulation_NoCommit(w, t, p) ==
    /\ request[w] = Idle /\ p \in projects /\ t \in sims \cap links[p]
    /\ request' = [request EXCEPT ![w] = At("forgotten", "forget", t, p)]
    /\ UNCHANGED <<app, home, tsm, told, erased, loose, failures>>

\* delete_simulated_thing, from the list of the project's simulations.
ForgetSimulation(w, t, p) ==
    /\ request[w] = Idle /\ p \in projects /\ t \in sims \cap links[p]
    /\ sims' = sims \ {t}
    /\ request' = [request EXCEPT ![w] = At("forgotten", "forget", t, p)]
    /\ UNCHANGED <<projects, schema, links, home, tsm, told, erased, loose, failures>>

\* Here, too, the answer is not looked at; an exception ends the request.
DeleteSimulated(w) ==
    LET r == request[w] IN
    /\ r.step = "forgotten"
    /\ \/ Cascade(r.thing, SchemaFor(r.project, r.thing)) /\ Go(w, "deleted") /\ UNCHANGED told
       \/ Fail(w) /\ UNCHANGED tsm
    /\ UNCHANGED <<app, home, erased, loose>>

UnlinkSimulated(w) ==
    LET r == request[w] IN
    /\ r.step = "deleted"
    /\ IF r.project \in projects THEN Unlink(r.project, r.thing) ELSE UNCHANGED links
    /\ Answer(w, "deleted")
    /\ UNCHANGED <<projects, schema, sims, home, tsm, erased, loose, failures>>

-----------------------------------------------------------------------------
(* sync_sensor: the configuration as the ConfigDB has it, on the creations' topic. *)

\* The requests that are about to send a message for t.
Sending(t) ==
    {w \in Processes : request[w].thing = t /\ request[w].step \in {"ordered", "syncing"}}

\* Mutant: a thing that is not in the ConfigDB is synced as well.
ReadConfig_Any(w, t) ==
    /\ request[w] = Idle /\ home[t].schema # None /\ inbox[t] < MaxMessages /\ Sending(t) = {}
    /\ request' = [request EXCEPT ![w] = At("syncing", "sync", t, None)]
    /\ UNCHANGED <<app, home, tsm, told, erased, loose, failures>>

ReadConfig(w, t) ==
    /\ request[w] = Idle /\ t \in config
    /\ inbox[t] < MaxMessages /\ Sending(t) = {}
    /\ request' = [request EXCEPT ![w] = At("syncing", "sync", t, None)]
    /\ UNCHANGED <<app, home, tsm, told, erased, loose, failures>>

\* Most callers do not look whether it worked.
PublishSync(w) ==
    /\ request[w].step = "syncing"
    /\ Send(request[w].thing) \/ UNCHANGED inbox
    /\ Finish(w)
    /\ UNCHANGED <<app, home, config, known, rows, setup, told, erased, loose, failures>>

-----------------------------------------------------------------------------
(* The rest of the world.                                                  *)

\* _ensure_schema_name, in every request that names the project, if Keycloak answers: the
\* schema is the group's, that of the TSM's project of its name, or derived from the name.
ResolveSchema(p) ==
    /\ p \in projects /\ schema[p] = None
    /\ \E s \in Schemas : schema' = [schema EXCEPT ![p] = s]
    /\ UNCHANGED <<projects, links, sims, home, tsm, told, erased, loose, request, failures>>

\* The links go with the project, things and simulations do not.
DeleteProject(p) ==
    /\ p \in projects
    /\ projects' = projects \ {p}
    /\ links' = [links EXCEPT ![p] = {}]
    /\ UNCHANGED <<schema, sims, home, tsm, told, erased, loose, request, failures>>

\* The client of a request that dies sees it fail.
Crash(w) ==
    /\ request[w] # Idle
    /\ Fail(w)
    /\ UNCHANGED <<app, home, tsm, erased, loose>>

\* The TSM's ConfigDB updater creates or updates, and has the thing set up.
Configure(t) ==
    /\ inbox[t] > 0
    /\ inbox' = [inbox EXCEPT ![t] = @ - 1]
    /\ config' = config \cup {t}
    /\ known' = known \cup {home[t].schema}
    /\ setup' = setup \cup {t}
    /\ UNCHANGED <<app, home, rows, told, erased, loose, request, failures>>

\* A set-up that finds no configuration does nothing.
SetUp(t) ==
    /\ t \in setup
    /\ setup' = setup \ {t}
    /\ rows' = IF t \in config THEN rows \cup {t} ELSE rows
    /\ UNCHANGED <<app, home, config, known, inbox, told, erased, loose, request, failures>>

LoseMessage(t) ==
    /\ inbox[t] > 0
    /\ inbox' = [inbox EXCEPT ![t] = @ - 1]
    /\ UNCHANGED <<app, home, config, known, rows, setup, told, erased, loose, request, failures>>

-----------------------------------------------------------------------------
Continue(w) ==
    \/ Publish(w) \/ Poll(w) \/ AssignSchema(w) \/ SaveSimulation(w) \/ LinkDataset(w)
    \/ OpenProject(w) \/ Link(w) \/ LinkFails(w)
    \/ DeleteSource(w) \/ DeleteSimulated(w) \/ UnlinkSimulated(w)
    \/ PublishSync(w)

\* A request begins, or a bulk import comes to its next row: each is a creation of its own, and
\* is told "created" or "failed" in the import's report.
Start(w) ==
    \E t \in Things :
        \/ \E p \in Projects \cup {None}, kind \in Creations : Order(w, kind, t, p)
        \/ \E p \in Projects :
              \/ FindToLink(w, t, p)
              \/ \E fromSource \in BOOLEAN : RemoveSensor(w, t, p, fromSource)
              \/ ForgetSimulation(w, t, p)
        \/ ReadConfig(w, t)

Next ==
    \/ \E w \in Processes : Start(w) \/ Continue(w) \/ Crash(w)
    \/ \E p \in Projects : ResolveSchema(p) \/ DeleteProject(p)
    \/ \E t \in Things : Configure(t) \/ SetUp(t) \/ LoseMessage(t)

Spec == Init /\ [][Next]_vars

\* A request that began goes on: nothing in it waits without a bound.
FairSpec == Spec /\ \A w \in Processes : WF_vars(Continue(w))

-----------------------------------------------------------------------------
(* Properties.                                                             *)

\* Every variable has the form that the code gives it.
TypeOK ==
    /\ projects \subseteq Projects
    /\ schema \in [Projects -> Schemas \cup {None}]
    /\ links \in [Projects -> SUBSET Things]
    /\ sims \subseteq Things
    /\ home \in [Things -> [schema : Schemas \cup {None}, project : Projects \cup {None}]]
    /\ config \subseteq Things /\ rows \subseteq Things /\ setup \subseteq Things
    /\ known \subseteq Schemas
    /\ inbox \in [Things -> 0 .. MaxMessages]
    /\ told \in [Things -> {None, "created", "failed", "unlinked", "deleted"}]
    /\ erased \subseteq Things /\ loose \subseteq Things
    /\ request \in [Processes -> Request]
    /\ failures \in 0 .. MaxFailures

\* A thing that was ordered for a project and is not linked to it is being made, or its
\* user was told: of a failure, of the removal; or the project is gone.  The exception is
\* a creation whose link, its very last step, failed: it was answered "created".
OrphansAreTold ==
    \A t \in Things :
        LET p == home[t].project IN
        p # None /\ p \in projects /\ t \notin links[p] =>
            \/ told[t] \in {"failed", "unlinked", "deleted"}
            \/ \E w \in Processes : request[w].thing = t /\ Creating(w)
            \/ t \in loose

\* A simulation has its thing, however its deletion is interrupted, unless the thing was
\* deleted as a sensor, which does not know of simulations.
SimulationsHaveThings == \A t \in sims : t \in config \/ t \in erased

Gone(t) == home[t].schema # None /\ t \notin config /\ inbox[t] = 0 /\ Sending(t) = {}

\* A thing that is deleted stays so, once no message and no request that has its
\* configuration in hand is left: nothing but these makes it again.
GoneStaysGone ==
    [][\A t \in Things : Gone(t) => Gone(t)' /\ (t \in rows' => t \in rows)]_vars

\* What Provisioned speaks of: the things that were ordered, those whose creation is at
\* work, those that the project they were ordered for does not have, and those that a
\* message or a request may bring.
Ordered == {t \in Things : home[t].schema # None}
Open    == {t \in Things : \E w \in Processes : request[w].thing = t /\ Creating(w)}
Missing == {t \in Things : /\ home[t].project # None /\ home[t].project \in projects
                           /\ t \notin links[home[t].project]}
Coming  == {t \in Things : inbox[t] > 0 \/ Sending(t) # {}}

Promise == INSTANCE Provisioned WITH
    ordered <- Ordered, open <- Open, missing <- Missing, there <- config, data <- rows,
    coming <- Coming, word <- told, loose <- loose

\* However creations, links, deletions and messages interleave, users see what
\* Provisioned promises.
ImplementsPromise == Promise!Spec

\* Every request comes to its end, whatever the TSM does.
RequestsEnd == \A w \in Processes : request[w] # Idle ~> request[w] = Idle
=============================================================================
