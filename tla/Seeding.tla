------------------------------ MODULE Seeding ------------------------------
(***************************************************************************)
(* Start-up and demonstration data: scripts/start.sh, setup_keycloak.py,   *)
(* core/database.py and main.py bring the API up; scripts/seed_data.py and *)
(* seed_keycloak.py fill the system through its API, and core/seeding.py   *)
(* its databases, up to the demonstration project, where it always fails.  *)
(*                                                                         *)
(* A run of a seed script takes its steps in order and may be stopped      *)
(* between any two of them, or be refused at any of them, and is then      *)
(* started again.  Scripts are run one at a time; the services they write  *)
(* to outlive them.                                                        *)
(***************************************************************************)
EXTENDS Integers, Sequences

CONSTANTS
    ApiWorkers, \* gunicorn's processes
    MaxTries,   \* that a script waits for a service; in the code 3, 5, 10, 12, 20 or 30
    MaxRuns,    \* of seed scripts
    MaxFaults,  \* requests of the scripts that are refused or not answered
    MaxStarts   \* of the API's container

ASSUME WorkersAssumption == "once" \notin ApiWorkers
ASSUME TriesAssumption   == MaxTries \in Nat \ {0}
ASSUME BoundsAssumption  == MaxRuns \in Nat /\ MaxFaults \in Nat /\ MaxStarts \in Nat

VARIABLES
    boot,      \* where start.sh is
    attempts,  \* of start.sh to set Keycloak up
    init,      \* init[i]: where init_db() is, in start.sh ("once") or in a worker
    database,  \* what the application's database has
    have,      \* have[x]: how many of item x there are
    missed,    \* items that a failed look took for missing (a note for OneOfEach)
    run,       \* the run of a seed script
    runs, faults, starts

seedingVars == <<boot, attempts, init, database, have, missed, run, runs, faults, starts>>

-----------------------------------------------------------------------------
(* Items and steps.                                                        *)

\* seed_data.py, with the Keycloak part of seed_keycloak.py.
ApiSteps == <<"api", "keycloak", "users", "roles", "group", "subgroups", "grants", "token",
              "owner", "hydro", "members", "sensor", "source_owner", "sources", "device_type",
              "api_type", "parser", "source_sensor", "config", "tests", "function", "done">>

\* core/seeding.py, as far as a run of it comes.
DatabaseSteps == <<"regions", "watersheds", "frost", "catalogue", "stations", "demo_group", "demo">>

Steps == [api |-> ApiSteps, database |-> DatabaseSteps]

Items == {"admin", "users", "roles", "group", "subgroups", "grants", "memberships", "hydro",
          "members", "sensor", "sources", "device_type", "api_type", "parser", "source_sensor",
          "syncer", "config", "tests", "function", "regions", "features", "watersheds",
          "catalogue", "stations", "demo_group"}

\* What no service keeps unique, and the scripts look for before they add.
SeededProjects == {"hydro", "sources"}
Entities == {"catalogue"}
Sought   == SeededProjects \cup Entities

NoRun == [kind |-> "none", at |-> 0, tries |-> 0, found |-> "unknown", clean |-> TRUE]

Running  == run.kind # "none"
StepName == Steps[run.kind][run.at]
At(s)    == Running /\ StepName = s

Position(s) == CHOOSE n \in DOMAIN Steps[run.kind] : Steps[run.kind][n] = s

\* The next step, or a later one, begins.
Jump(s, clean) == run' = [run EXCEPT !.at = Position(s), !.tries = 0, !.found = "unknown",
                                     !.clean = @ /\ clean]
Proceed(clean) == Jump(Steps[run.kind][run.at + 1], clean)
Exit == run' = NoRun

Make(xs)  == have' = [x \in Items |-> IF x \in xs THEN 1 ELSE have[x]]
Add(x)    == have' = [have EXCEPT ![x] = @ + 1]

Fault == faults < MaxFaults /\ faults' = faults + 1

Healthy(w) == boot = "serving" /\ init[w] = "up"
ApiIsUp    == \E w \in ApiWorkers : Healthy(w)
HasTables  == database = "tables"

script == <<have, missed, run, runs, faults>>
server == <<boot, attempts, init, database, starts>>

SeedingInit ==
    /\ boot = "down" /\ attempts = 0
    /\ init = [i \in ApiWorkers \cup {"once"} |-> "down"]
    /\ database = "empty"
    /\ have = [x \in Items |-> 0]
    /\ missed = {}
    /\ run = NoRun
    /\ runs = 0 /\ faults = 0 /\ starts = 0

-----------------------------------------------------------------------------
(* start.sh.                                                               *)

StartContainer ==
    /\ boot = "down" /\ starts < MaxStarts
    /\ boot' = "keycloak" /\ starts' = starts + 1
    /\ UNCHANGED <<attempts, init, database, script>>

\* create_user and assign_role: the administrator is made, or brought up to date, or an error is
\* printed.
SetUpAdmin == \E made \in SUBSET {"admin"} : Make(made)

\* setup_keycloak.py: the realm, its administrator, and the client by which he logs in, each
\* made or brought up to date; of most errors it prints a line and goes on.
SetUpKeycloak ==
    /\ boot = "keycloak"
    /\ SetUpAdmin
    /\ boot' = "database" /\ attempts' = 0
    /\ UNCHANGED <<init, database, starts, missed, run, runs, faults>>

\* Without a token, or the list of clients, it ends, and is started again up to its limit.
SetUpFails ==
    /\ boot = "keycloak"
    /\ IF attempts + 1 < MaxTries THEN attempts' = attempts + 1 /\ UNCHANGED boot
       ELSE attempts' = 0 /\ boot' = "database"
    /\ SetUpAdmin
    /\ UNCHANGED <<init, database, starts, missed, run, runs, faults>>

\* init_db() runs once before the workers start, so that these find the tables.
\* Mutant: it does not.
BeginOnce_Skipped ==
    /\ boot = "database" /\ init["once"] = "down"
    /\ init' = [init EXCEPT !["once"] = "up"]
    /\ UNCHANGED <<boot, attempts, database, starts, script>>

BeginOnce ==
    /\ boot = "database" /\ init["once"] = "down"
    /\ init' = [init EXCEPT !["once"] = "look"]
    /\ UNCHANGED <<boot, attempts, database, starts, script>>

Serve ==
    /\ boot = "database" /\ init["once"] = "up"
    /\ boot' = "serving"
    /\ UNCHANGED <<attempts, init, database, starts, script>>

\* lifespan() of main.py calls init_db() or not, as STARTUP_DB_INIT and the debug setting say.
StartWorker(w) ==
    /\ boot = "serving" /\ init[w] = "down"
    /\ \E s \in {"look", "up"} : init' = [init EXCEPT ![w] = s]
    /\ UNCHANGED <<boot, attempts, database, starts, script>>

\* A container that stops, or whose init_db() or a worker fails for good, loses its processes.
StopContainer ==
    /\ boot # "down"
    /\ boot' = "down" /\ attempts' = 0
    /\ init' = [i \in ApiWorkers \cup {"once"} |-> "down"]
    /\ UNCHANGED <<database, starts, script>>

-----------------------------------------------------------------------------
(* init_db(): the schema, then its tables, in two transactions that each look and then create. *)

\* CREATE SCHEMA IF NOT EXISTS sees the schema or does not; with it, create_all looks for the
\* tables.
LookForSchema(i) ==
    /\ init[i] = "look"
    /\ init' = [init EXCEPT ![i] = CASE database = "empty"  -> "schema"
                                    [] database = "schema" -> "tables"
                                    [] database = "tables" -> "up"]
    /\ UNCHANGED <<boot, attempts, database, starts, script>>

\* "Already exists" and "duplicate" are taken for success, and init_db() returns.
CreateSchema(i) ==
    /\ init[i] = "schema"
    /\ database' = IF database = "empty" THEN "schema" ELSE database
    /\ init' = [init EXCEPT ![i] = IF database = "empty" THEN "tables" ELSE "up"]
    /\ UNCHANGED <<boot, attempts, starts, script>>

\* create_all, one transaction: it waits for another that creates the same tables, and then
\* has nothing left to do or fails with a duplicate.
CreateTables(i) ==
    /\ init[i] = "tables"
    /\ database' = "tables"
    /\ init' = [init EXCEPT ![i] = "up"]
    /\ UNCHANGED <<boot, attempts, starts, script>>

Initialise(i) == LookForSchema(i) \/ CreateSchema(i) \/ CreateTables(i)

-----------------------------------------------------------------------------
(* Runs.                                                                   *)

BeginRun ==
    /\ ~Running /\ runs < MaxRuns /\ runs' = runs + 1
    /\ \E k \in DOMAIN Steps : run' = [NoRun EXCEPT !.kind = k, !.at = 1]
    /\ UNCHANGED <<have, missed, faults, server>>

\* Stopped, or ended by an error that nothing catches.
Stop ==
    /\ Running
    /\ Exit
    /\ UNCHANGED <<have, missed, runs, faults, server>>

Finish == At("done") /\ Exit /\ UNCHANGED <<have, missed, runs, faults, server>>

\* One more try, or what follows the last.
\* Mutant: there is no last.
Waited_Forever(ready, last) ==
    IF ready THEN Proceed(TRUE)
    ELSE run' = [run EXCEPT !.tries = IF @ + 1 < MaxTries THEN @ + 1 ELSE @]

Waited(ready, last) ==
    IF ready THEN Proceed(TRUE)
    ELSE IF run.tries + 1 < MaxTries THEN run' = [run EXCEPT !.tries = @ + 1]
    ELSE last

\* Steps that go through the API, which may be down.
ApiCalls == SeededProjects \cup {"members", "sensor", "device_type", "api_type", "parser", "source_sensor"}
Reached  == StepName \in ApiCalls => ApiIsUp
Failing  == Fault \/ (~Reached /\ UNCHANGED faults)

\* What an error leads to: a project's part is skipped, an error of the application's
\* database ends the run, and of the rest a line is logged.  A configuration that cannot be
\* made loses its tests, and a failed list of the projects the rest of the QA/QC part as well.
AfterError ==
    CASE StepName = "group"   -> Jump("token", FALSE)
      [] StepName = "hydro"   -> Jump("source_owner", FALSE)
      [] StepName = "sources" -> Jump("config", FALSE)
      [] StepName = "config"  -> Jump("function", FALSE) \/ Jump("done", FALSE)
      [] StepName \in {"regions", "watersheds"} -> Exit
      [] OTHER -> Proceed(FALSE)

Refused ==
    /\ Running /\ StepName \notin {"api", "keycloak", "token", "owner", "source_owner", "frost", "sensor",
                                  "source_sensor", "demo", "done"}
    /\ Failing /\ AfterError
    /\ UNCHANGED <<have, missed, runs, server>>

\* A step whose effect is the same however often it is taken.
Ensure(s, xs) ==
    /\ At(s) /\ Reached
    /\ Make(xs) /\ Proceed(TRUE)
    /\ UNCHANGED <<missed, runs, faults, server>>

-----------------------------------------------------------------------------
(* Items that are looked for and then added.                               *)

\* What is there is kept.  A failed look at a project, or at FROST, is passed over: the item
\* counts as missing.
\* Mutant: no look.
Look_Blind(x) ==
    /\ At(x) /\ run.found = "unknown"
    /\ x \in SeededProjects => have["group"] = 1
    /\ Reached
    /\ run' = [run EXCEPT !.found = "no"]
    /\ UNCHANGED <<have, missed, runs, faults, server>>

Look(x) ==
    /\ At(x) /\ run.found = "unknown"
    /\ x \in SeededProjects => have["group"] = 1
    /\ \/ /\ Reached
          /\ IF have[x] > 0 THEN Proceed(TRUE) ELSE run' = [run EXCEPT !.found = "no"]
          /\ UNCHANGED <<missed, faults>>
       \/ /\ x \in SeededProjects \cup Entities /\ Failing
          /\ run' = [run EXCEPT !.found = "no", !.clean = FALSE]
          /\ missed' = missed \cup {x}
    /\ UNCHANGED <<have, runs, server>>

\* The addition may be done and not be answered.
Create(x) ==
    /\ At(x) /\ run.found = "no"
    /\ Reached /\ Add(x)
    /\ \/ Proceed(TRUE) /\ UNCHANGED faults
       \/ Fault /\ AfterError
    /\ UNCHANGED <<missed, runs, server>>

\* create_project, for a group that Keycloak has; without it the project is skipped.
SeedProject == \E x \in SeededProjects : Look(x) \/ Create(x)

NoGroup ==
    /\ \E x \in SeededProjects : At(x)
    /\ have["group"] = 0 /\ AfterError
    /\ UNCHANGED <<have, missed, runs, faults, server>>

\* ensure_frost_entity, for the sensor and the property that the stations share.
SeedEntity == \E x \in Entities : Look(x) \/ Create(x)

-----------------------------------------------------------------------------
(* seed_keycloak.py.                                                       *)

WaitForKeycloak ==
    /\ At("keycloak")
    /\ \E ready \in BOOLEAN : Waited(ready, Jump("token", FALSE))
    /\ UNCHANGED <<have, missed, runs, faults, server>>

\* Users, roles of the client and groups have unique names in Keycloak.
SeedUsers   == Ensure("users", {"users"})
EnsureRoles == Ensure("roles", {"roles"})
EnsureGroup == Ensure("group", {"group"})

\* The subgroups of a group that is new, and of one that was there.
EnsureSubgroups == Ensure("subgroups", {"subgroups"})

\* Roles go to the subgroups and users into them, as far as both are there.
FillSubgroups ==
    Ensure("grants", IF have["subgroups"] = 0 THEN {}
                     ELSE {x \in {"grants"} : have["roles"] = 1}
                          \cup {x \in {"memberships"} : have["users"] = 1})

-----------------------------------------------------------------------------
(* seed_data.py.                                                           *)

\* It goes on without the API, and then fails to log in.
WaitForApi ==
    /\ At("api")
    /\ Waited(ApiIsUp, Proceed(FALSE))
    /\ UNCHANGED <<have, missed, runs, faults, server>>

\* get_access_token of the administrator, and of the users who are to own the projects.
Login ==
    /\ Running /\ StepName \in {"token", "owner", "source_owner"}
    /\ LET user == IF StepName = "token" THEN "admin" ELSE "users"
       IN  Waited(ApiIsUp /\ have["admin"] = 1 /\ have[user] = 1, Exit)
    /\ UNCHANGED <<have, missed, runs, faults, server>>

\* A member who is there already is answered 409.
SeedMembers == Ensure("members", {"members"})

\* Three attempts that nothing refuses for being the second; a token that has expired, which
\* is renewed, counts as one, other than the comment has it.
CreateSensor(x) ==
    /\ At(x)
    /\ \/ Reached /\ Add(x) /\ Proceed(TRUE) /\ UNCHANGED faults
       \/ /\ Failing
          /\ \/ UNCHANGED have
             \/ ApiIsUp /\ Add(x)
          /\ Waited(FALSE, Proceed(FALSE))
    /\ UNCHANGED <<missed, runs, server>>

CreateSimulatedSensor == CreateSensor("sensor")
CreateSourceSensor    == CreateSensor("source_sensor")

RegisterDeviceType == Ensure("device_type", {"device_type"})

\* A type that is there is kept as it is.  One whose script is refused is made without.
RegisterApiType ==
    /\ At("api_type") /\ Reached
    /\ IF have["api_type"] = 1 THEN Proceed(TRUE) /\ UNCHANGED <<have, faults>>
       ELSE \/ Make({"api_type", "syncer"}) /\ Proceed(TRUE) /\ UNCHANGED faults
            \/ Make({"api_type"}) /\ Proceed(FALSE) /\ Fault
    /\ UNCHANGED <<missed, runs, server>>

\* A parser is added by every run.
CreateCsvParser ==
    /\ At("parser") /\ Reached
    /\ Add("parser")
    /\ \/ Proceed(TRUE) /\ UNCHANGED faults
       \/ Fault /\ AfterError
    /\ UNCHANGED <<missed, runs, server>>

-----------------------------------------------------------------------------
(* core/seeding.py.                                                        *)

\* A layer and its features are committed at once.
\* Mutant: the layer is committed before.
SaveLayer_Apart(s, xs) ==
    /\ At(s)
    /\ \/ ~HasTables /\ Exit /\ UNCHANGED have
       \/ HasTables /\ have[s] = 1 /\ Proceed(TRUE) /\ UNCHANGED have
       \/ HasTables /\ have[s] = 0 /\ Make(xs) /\ Proceed(TRUE)
       \/ HasTables /\ have[s] = 0 /\ Make({s}) /\ Exit
    /\ UNCHANGED <<missed, runs, faults, server>>

SaveLayer(s, xs) ==
    /\ At(s)
    /\ \/ ~HasTables /\ Exit /\ UNCHANGED have
       \/ HasTables /\ have[s] = 1 /\ Proceed(TRUE) /\ UNCHANGED have
       \/ HasTables /\ have[s] = 0 /\ Make(xs) /\ Proceed(TRUE)
    /\ UNCHANGED <<missed, runs, faults, server>>

SeedRegions == SaveLayer("regions", {"regions", "features"})
SeedWatersheds == SaveLayer("watersheds", {"watersheds"})

\* Without FROST the run leaves out what needs it.
WaitForFrost ==
    /\ At("frost")
    /\ \E ready \in BOOLEAN :
         Waited(ready, Jump("demo_group", FALSE))
    /\ UNCHANGED <<have, missed, runs, faults, server>>

\* Regions learn the stations that FROST has for them, if it has any.
LinkRegions == \E xs \in SUBSET {"stations"} : Ensure("stations", xs)

EnsureDemoGroup == Ensure("demo_group", {"demo_group"})

\* The project is made with a field that the model no longer has, and one that is there is
\* asked for it: seed_data() raises in either case, and what follows is never reached.
FailAtDemo ==
    /\ At("demo")
    /\ Exit
    /\ UNCHANGED <<have, missed, runs, faults, server>>

-----------------------------------------------------------------------------
(* QA/QC, with which seed_data.py ends.                                     *)

\* Without a project of the TSM nothing is seeded; a default configuration that is there is
\* taken to have its tests.
SeedConfig ==
    /\ At("config")
    /\ IF have["sensor"] + have["source_sensor"] = 0 THEN Jump("done", TRUE) /\ UNCHANGED have
       ELSE IF have["config"] = 1 THEN Jump("function", TRUE) /\ UNCHANGED have
       ELSE Make({"config"}) /\ Proceed(TRUE)
    /\ UNCHANGED <<missed, runs, faults, server>>

SeedTests    == Ensure("tests", {"tests"})
SeedFunction == Ensure("function", {"function"})

-----------------------------------------------------------------------------
(* The whole.                                                              *)

Step ==
    \/ WaitForApi \/ WaitForKeycloak \/ Login \/ WaitForFrost
    \/ SeedUsers \/ EnsureRoles \/ EnsureGroup \/ EnsureSubgroups \/ FillSubgroups
    \/ SeedProject \/ NoGroup \/ SeedMembers \/ RegisterDeviceType \/ RegisterApiType \/ CreateCsvParser
    \/ CreateSimulatedSensor \/ CreateSourceSensor
    \/ SeedRegions \/ SeedWatersheds \/ LinkRegions \/ SeedEntity \/ EnsureDemoGroup \/ FailAtDemo
    \/ SeedConfig \/ SeedTests \/ SeedFunction
    \/ Refused \/ Finish

Server ==
    \/ StartContainer \/ SetUpKeycloak \/ SetUpFails \/ BeginOnce \/ Serve \/ StopContainer
    \/ \E w \in ApiWorkers : StartWorker(w)
    \/ \E i \in ApiWorkers \cup {"once"} : Initialise(i)

SeedingNext == Server \/ BeginRun \/ Stop \/ Step

SeedingSpec == SeedingInit /\ [][SeedingNext]_seedingVars

\* A run goes on by itself: every wait of it has its limit, and every request its end.
FairSeeding == SeedingSpec /\ WF_seedingVars(Step)

-----------------------------------------------------------------------------
(* Properties.                                                             *)

\* Every variable stays within its type.  (SeedingTypeOK)
SeedingTypeOK ==
    /\ boot \in {"down", "keycloak", "database", "serving"}
    /\ attempts \in 0..(MaxTries - 1)
    /\ init \in [ApiWorkers \cup {"once"} -> {"down", "look", "schema", "tables", "up"}]
    /\ database \in {"empty", "schema", "tables"}
    /\ have \in [Items -> Nat]
    /\ missed \subseteq Sought
    /\ run \in [kind : {"none"} \cup DOMAIN Steps, at : Nat, tries : 0..(MaxTries - 1),
                found : {"unknown", "no"}, clean : BOOLEAN]
    /\ Running => run.at \in DOMAIN Steps[run.kind]
    /\ runs \in 0..MaxRuns /\ faults \in 0..MaxFaults /\ starts \in 0..MaxStarts

\* What the runs are for.  Left out are the tests of a configuration and the script of an API
\* type: a run that was stopped, or refused, between the two is not made good by a later one.
Promised ==
    [api |-> {"users", "roles", "group", "subgroups", "grants", "memberships", "hydro", "members",
              "sensor", "sources", "device_type", "api_type", "parser", "source_sensor", "config",
              "function"},
     database |-> {"regions", "features", "watersheds", "catalogue", "demo_group"}]

\* "Idempotent -- safe to run multiple times" (seed_keycloak.py, the first part of seed_data.py):
\* a run of seed_data.py in which nothing is refused ends with all that it is for, wherever the
\* runs before it were stopped or refused.  One of seeding.py always fails at the demonstration
\* project, and has by then made all that comes before it.
CleanRunsComplete ==
    (At("done") \/ At("demo")) /\ run.clean => \A x \in Promised[run.kind] : have[x] > 0

\* "Try finding existing first to avoid duplicates": nothing that the scripts look for is there
\* twice, unless a look failed.
OneOfEach == \A x \in Sought : have[x] > 1 => x \in missed

\* A worker that answers "healthy" finds its tables, though init_db() takes a duplicate schema
\* of a rival for success: start.sh has run it before there are rivals.
HealthyHasTables == \A w \in ApiWorkers : Healthy(w) => HasTables

\* A run ends, whatever it has to wait for.
RunsEnd == Running ~> ~Running
=============================================================================
