----------------------------- MODULE QaqcConfigs -----------------------------
(***************************************************************************)
(* QA/QC configurations and their tests: services/qaqc_service.py and      *)
(* api/v1/endpoints/qaqc.py over the tables config_db.qaqc, qaqc_test and   *)
(* thing of the TSM.                                                       *)
(*                                                                         *)
(* A handler opens one connection per call of the service, so that what it *)
(* read under one is old when it writes under the next; within a call the  *)
(* statements are one transaction at READ COMMITTED: an UPDATE sees the     *)
(* rows that were committed when it began, and waits for those that another*)
(* transaction has changed.  A handler never awaits, so that an API process*)
(* is at one request at a time, but several processes serve.  Names,       *)
(* context windows and arguments of tests are left out.                    *)
(***************************************************************************)
EXTENDS Integers

CONSTANTS
    Processes,  \* of the API
    Projects,   \* rows of config_db.project
    Locals,     \* projects of the application, each pointing to a schema or not yet
    Schema,     \* Schema[l]: the TSM project of l's schema, None without one
    Things,
    MaxConfigs, \* rows of config_db.qaqc that are ever made
    Tests,      \* rows of config_db.qaqc_test
    MaxCrashes  \* how often an API process dies within a request

None     == "none"
NoConfig == 0

ASSUME ProjectsAssumption == None \notin Projects
ASSUME SchemaAssumption   == Schema \in [Locals -> Projects \cup {None}]
ASSUME ConfigsAssumption  == MaxConfigs \in Nat
ASSUME CrashesAssumption  == MaxCrashes \in Nat

VARIABLES
    config,   \* config[c]: a row of config_db.qaqc
    test,     \* test[q]: a row of config_db.qaqc_test
    linked,   \* linked[t]: the thing's legacy_qaqc_id
    request,  \* request[p]: the request that process p is at
    crashes

vars == <<config, test, linked, request, crashes>>

-----------------------------------------------------------------------------
(* Rows and requests.                                                      *)

Configs == 1..MaxConfigs
States  == {"unused", "live", "deleted"}

Config == [state : States, project : Projects \cup {None}, default : BOOLEAN]
Test   == [config : Configs \cup {NoConfig}, edited : BOOLEAN]

\* op: what the request does to its configuration; todo: rows its running UPDATE has
\* still to clear; cleared: those it has cleared and keeps locked; doomed: tests that it has
\* deleted and not yet committed; alone: no request that
\* sets a default of the same project has run beside this one (a note for SoleDefault).
Request == [op      : {None, "create", "update", "delete", "tests", "unassign"},
            step    : {"idle", "checked", "clearing", "deleting", "unlinking"},
            project : Projects \cup {None},
            config  : Configs \cup {NoConfig},
            thing   : Things \cup {None},
            default : BOOLEAN,
            todo    : SUBSET Configs,
            cleared : SUBSET Configs,
            doomed  : SUBSET Tests,
            alone   : BOOLEAN]

Idle == [op |-> None, step |-> "idle", project |-> None, config |-> NoConfig, thing |-> None,
         default |-> FALSE, todo |-> {}, cleared |-> {}, doomed |-> {}, alone |-> TRUE]

Free(p)   == request[p].step = "idle"
Finish(p) == request' = [request EXCEPT ![p] = Idle]

Live(c) == config[c].state = "live"

\* The configurations and the tests that the lists show.
ConfigsOf(pr) == {c \in Configs : Live(c) /\ config[c].project = pr}
TestsOf(c)    == {q \in Tests : test[q].config = c}

\* Mutant: the project is not compared.
Belongs_Any(c, pr) == Live(c)

\* A configuration is reached through its project alone; those of a sensor have none.
Belongs(c, pr) == Live(c) /\ config[c].project = pr

\* Rows that another open transaction has changed or deleted: who writes them waits for its
\* end.  The row of a configuration is deleted last and needs no lock of its own.
Locks(p)       == request[p].cleared
Locked(p)      == UNION {Locks(o) : o \in Processes \ {p}}
LockedTests(p) == UNION {request[o].doomed : o \in Processes \ {p}}
LockedThings   == {request[o].thing : o \in {o \in Processes : request[o].step = "deleting"}}

Setting(p) == request[p].step = "clearing"

\* The id that the sequence gives next: neither taken nor drawn by a request under way.
Drawn == {c \in Configs : config[c].state # "unused" \/ \E p \in Processes : request[p].config = c}
Fresh == {c \in Configs \ Drawn : 1..(c - 1) \subseteq Drawn}

NoRow  == [state |-> "unused", project |-> None, default |-> FALSE]
NoTest == [config |-> NoConfig, edited |-> FALSE]

Init ==
    /\ config = [c \in Configs |-> NoRow]
    /\ test = [q \in Tests |-> NoTest]
    /\ linked = [t \in Things |-> NoConfig]
    /\ request = [p \in Processes |-> Idle]
    /\ crashes = 0

-----------------------------------------------------------------------------
(* Handlers: each finds the project and looks at the configuration, under  *)
(* connections of their own, before the service is called.                 *)

Check(p, op, pr, c, default) ==
    request' = [request EXCEPT ![p] = [Idle EXCEPT !.op = op, !.step = "checked", !.project = pr,
                                                   !.config = c, !.default = default]]

\* sms_create_qaqc_config: the schema is all that it looks up.
CreateRoute(p, pr) == \E c \in Fresh, d \in BOOLEAN : Check(p, "create", pr, c, d)

\* sms_update_qaqc_config, with is_default given; a change of other fields leaves the flags.
UpdateRoute(p, pr) == \E c \in Configs, d \in BOOLEAN : Belongs(c, pr) /\ Check(p, "update", pr, c, d)

\* sms_delete_qaqc_config.
DeleteRoute(p, pr) == \E c \in Configs : Belongs(c, pr) /\ Check(p, "delete", pr, c, FALSE)

\* sms_add_test, sms_update_test and sms_delete_test.
TestRoute(p, pr) == \E c \in Configs : Belongs(c, pr) /\ Check(p, "tests", pr, c, FALSE)

Routes(p, pr) ==
    /\ CreateRoute(p, pr) \/ UpdateRoute(p, pr) \/ DeleteRoute(p, pr) \/ TestRoute(p, pr)
    /\ UNCHANGED <<config, test, linked, crashes>>

\* get_tsm_project, of the application's projects: 404 without a schema, or for a schema
\* that the TSM does not know.
TsmProjects == {Schema[l] : l \in Locals} \ {None}

\* /sms/qaqc/{schema_name}: the schema has a project of the TSM, or 404.
SmsRequest(p) == Free(p) /\ \E pr \in Projects : Routes(p, pr)

\* /projects/{project_id}/qaqc, kept for older clients: the same, through the application's
\* project and its schema.
ProjectRequest(p) ==
    /\ Free(p)
    /\ \E pr \in TsmProjects : Routes(p, pr)

-----------------------------------------------------------------------------
(* create_config and update_config.                                        *)

\* The first statement: with a default asked for, the flags of the project's other
\* configurations are to be cleared, those committed by now.
BeginWrite(p) ==
    LET r == request[p]
        rivals == {o \in Processes \ {p} : Setting(o) /\ request[o].default
                                           /\ request[o].project = r.project}
    IN  /\ r.step = "checked" /\ r.op \in {"create", "update"}
        /\ request' =
             [o \in Processes |->
                CASE o = p -> [r EXCEPT !.step = "clearing",
                                        !.todo = IF r.default THEN ConfigsOf(r.project) \ {r.config}
                                                 ELSE {},
                                        !.alone = ~(r.default /\ rivals # {})]
                  [] o # p -> [request[o] EXCEPT !.alone = @ /\ ~(r.default /\ o \in rivals)]]
        /\ UNCHANGED <<config, test, linked, crashes>>

\* One row of that UPDATE; a row deleted meanwhile is passed over.
ClearFlag(p) ==
    /\ Setting(p)
    /\ \E c \in request[p].todo \ Locked(p) :
         request' = [request EXCEPT ![p].todo = @ \ {c},
                                    ![p].cleared = IF Live(c) THEN @ \cup {c} ELSE @]
    /\ UNCHANGED <<config, test, linked, crashes>>

\* Mutant: the flags of the others are left as they are.
Cleared_Kept(p, c) == config[c]

Cleared(p, c) == [config[c] EXCEPT !.default = @ /\ c \notin request[p].cleared]

\* INSERT and commit.
Insert(p) ==
    LET r == request[p]
    IN  /\ Setting(p) /\ r.op = "create" /\ r.todo = {}
        /\ config' = [c \in Configs |->
                        IF c = r.config THEN [state |-> "live", project |-> r.project,
                                              default |-> r.default]
                        ELSE Cleared(p, c)]
        /\ Finish(p)
        /\ UNCHANGED <<test, linked, crashes>>

\* UPDATE of the configuration itself, if it is still there, and commit.
Save(p) ==
    LET r == request[p]
    IN  /\ Setting(p) /\ r.op = "update" /\ r.todo = {} /\ r.config \notin Locked(p)
        /\ config' = [c \in Configs |->
                        IF c = r.config /\ Live(c) THEN [config[c] EXCEPT !.default = r.default]
                        ELSE Cleared(p, c)]
        /\ Finish(p)
        /\ UNCHANGED <<test, linked, crashes>>

\* PostgreSQL breaks a circle of waiting transactions by failing one of them, which the
\* service rolls back.
NeedsRow(p) == IF ~Setting(p) THEN {}
               ELSE IF request[p].todo # {} THEN request[p].todo
               ELSE IF request[p].op = "update" THEN {request[p].config} ELSE {}
WaitsFor(p) == IF NeedsRow(p) # {} /\ NeedsRow(p) \subseteq Locked(p)
               THEN {o \in Processes \ {p} : NeedsRow(p) \cap Locks(o) # {}} ELSE {}

\* Mutant: the failed transaction is not rolled back and keeps its rows.
BreakDeadlock_Open(p) == Setting(p) /\ WaitsFor(p) # {} /\ UNCHANGED vars

BreakDeadlock(p) ==
    /\ \E circle \in SUBSET Processes :
         p \in circle /\ \A o \in circle : WaitsFor(o) \cap circle # {}
    /\ Finish(p)
    /\ UNCHANGED <<config, test, linked, crashes>>

-----------------------------------------------------------------------------
(* delete_config and the tests.                                            *)

\* DELETE of the tests, those committed by now; unassign_thing_qaqc has set the thing's link
\* to NULL before.
BeginDelete(p) ==
    LET r == request[p]
    IN  /\ \/ r.step = "checked" /\ r.op = "delete"
           \/ r.step = "unlinking" /\ r.thing \notin LockedThings
        /\ TestsOf(r.config) \cap LockedTests(p) = {}
        /\ request' = [request EXCEPT ![p].step = "deleting", ![p].doomed = TestsOf(r.config)]
        /\ UNCHANGED <<config, test, linked, crashes>>

\* DELETE of the configuration and commit; unassign_thing_qaqc spares one with a project.
Delete(p) ==
    LET r == request[p]
    IN  /\ r.step = "deleting" /\ r.config \notin Locked(p)
        /\ config' = IF r.op = "unassign" /\ config[r.config].project # None THEN config
                     ELSE [config EXCEPT ![r.config] = [NoRow EXCEPT !.state = "deleted"]]
        /\ test' = [q \in Tests |-> IF q \in r.doomed THEN NoTest ELSE test[q]]
        /\ linked' = [t \in Things |-> IF t = r.thing THEN NoConfig ELSE linked[t]]
        /\ Finish(p)
        /\ UNCHANGED crashes

\* config_db belongs to the TSM.  Whether it refuses to part a test and its configuration the
\* application does not know: if it does, a test added meanwhile fails the deletion.
RefuseDelete(p) ==
    /\ request[p].step = "deleting"
    /\ TestsOf(request[p].config) \ request[p].doomed # {}
    /\ Finish(p)
    /\ UNCHANGED <<config, test, linked, crashes>>

\* create_test; for a configuration deleted meanwhile config_db may refuse it.
CreateTest(p) ==
    LET r == request[p]
    IN  /\ r.step = "checked" /\ r.op = "tests"
        /\ \/ \E q \in Tests :
                /\ test[q] = NoTest
                /\ test' = [test EXCEPT ![q].config = r.config]
           \/ ~Live(r.config) /\ UNCHANGED test
        /\ Finish(p)
        /\ UNCHANGED <<config, linked, crashes>>

\* update_test goes by the test's id, whatever its configuration; an unknown one is not
\* noticed until the answer is looked up.
UpdateTest(p) ==
    /\ request[p].step = "checked" /\ request[p].op = "tests"
    /\ \E q \in Tests \ LockedTests(p) : test' = [test EXCEPT ![q].edited = test[q] # NoTest]
    /\ Finish(p)
    /\ UNCHANGED <<config, linked, crashes>>

\* delete_test, by the id as well.
Without(q) == [test EXCEPT ![q] = NoTest]
DeleteTest(p) ==
    /\ request[p].step = "checked" /\ request[p].op = "tests"
    /\ \E q \in Tests \ LockedTests(p) : test' = Without(q)
    /\ Finish(p)
    /\ UNCHANGED <<config, linked, crashes>>

-----------------------------------------------------------------------------
(* The configuration of one sensor.                                        *)

\* assign_thing_qaqc, in one transaction; who had one before keeps the row, unlinked.
AssignThing(p) ==
    /\ Free(p)
    /\ \E t \in Things \ LockedThings, c \in Fresh :
         /\ config' = [config EXCEPT ![c].state = "live"]
         /\ linked' = [linked EXCEPT ![t] = c]
    /\ UNCHANGED <<test, request, crashes>>

\* unassign_thing_qaqc reads the link without locking it: what it will remove is whatever
\* link there is by then, and what it will delete is the configuration that it has read.
BeginUnassign(p) ==
    /\ Free(p)
    /\ \E t \in Things :
         /\ linked[t] # NoConfig
         /\ request' = [request EXCEPT ![p] = [Idle EXCEPT !.op = "unassign", !.step = "unlinking",
                                                           !.thing = t, !.config = linked[t]]]
    /\ UNCHANGED <<config, test, linked, crashes>>

\* get_thing_qaqc: the sensors that have one.
Linked == {t \in Things : linked[t] # NoConfig}

\* add_thing_qaqc_test looks the link up and goes on as create_test does.
AddThingTest(p) ==
    /\ Free(p)
    /\ \E t \in Linked : Check(p, "tests", None, linked[t], FALSE)
    /\ UNCHANGED <<config, test, linked, crashes>>

\* delete_thing_qaqc_test takes any test's id and looks at nothing.
DeleteThingTest(p) ==
    /\ Free(p)
    /\ \E q \in Tests \ LockedTests(p) : test[q] # NoTest /\ test' = Without(q)
    /\ UNCHANGED <<config, linked, request, crashes>>

-----------------------------------------------------------------------------
(* The whole.                                                              *)

\* A process that dies takes its transaction with it.
Crash(p) ==
    /\ ~Free(p) /\ crashes < MaxCrashes
    /\ crashes' = crashes + 1
    /\ Finish(p)
    /\ UNCHANGED <<config, test, linked>>

Start(p) == SmsRequest(p) \/ ProjectRequest(p) \/ AssignThing(p) \/ BeginUnassign(p)
            \/ AddThingTest(p) \/ DeleteThingTest(p)

Continue(p) == BeginWrite(p) \/ ClearFlag(p) \/ Insert(p) \/ Save(p) \/ BreakDeadlock(p)
               \/ BeginDelete(p) \/ Delete(p) \/ RefuseDelete(p)
               \/ CreateTest(p) \/ UpdateTest(p) \/ DeleteTest(p)

Next == \E p \in Processes : Start(p) \/ Continue(p) \/ Crash(p)

Spec == Init /\ [][Next]_vars

\* A process goes on with the request that it has begun; PostgreSQL serves those that wait
\* for a row in the order in which they came, so that none waits forever for rows that
\* others keep taking.
Fairness == \A p \in Processes : SF_vars(Continue(p))

FairSpec == Spec /\ Fairness

-----------------------------------------------------------------------------
(* Properties.                                                             *)

\* Every variable stays within its type.  (TypeOK)
TypeOK ==
    /\ config \in [Configs -> Config]
    /\ test \in [Tests -> Test]
    /\ linked \in [Things -> Configs \cup {NoConfig}]
    /\ request \in [Processes -> Request]
    /\ crashes \in 0..MaxCrashes

Defaults(pr) == {c \in ConfigsOf(pr) : config[c].default}

\* "Clears the default flag on all other configs in the project first" (create_config): when
\* a request that sets the default has had no other such request of its project beside it,
\* its project has no second default, whatever was deleted, added or unset meanwhile.  Two
\* creations side by side may leave two: neither sees the other's row.
SoleDefault ==
    [][\A p \in Processes, pr \in Projects :
         /\ Insert(p) \/ Save(p)
         /\ request[p].default /\ request[p].project = pr /\ request[p].alone
         => \A a, b \in Defaults(pr)' : a = b]_vars

\* The configuration that a sensor's link names is there and is no project's, through
\* replaced links, two removals at once, and deletions by way of the projects.
LinkedConfigsExist ==
    \A t \in Things : linked[t] # NoConfig => Live(linked[t]) /\ config[linked[t]].project = None

\* Every request comes to its end: transactions that wait in a circle are broken up.
RequestsEnd == \A p \in Processes : ~Free(p) ~> Free(p)
=============================================================================
