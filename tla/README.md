# Water Data Platform: verification project

TLA+ models of the Water Data Platform's API and worker (`api/app`), the TLC
configurations that check them on small instances, and TLAPS proofs of what
holds for every value of the constants. `PROJECT.json` lists the same things
for tools: components, runs, the lines each definition stands for, a mutant of
the code for every checked property, hazards and theorems. Paths
below are relative to `api/app` unless they start with another directory.

## 1. The system

The platform adds projects, members, alerts, computations and layers to a
*TSM* installation that stores sensors ("things") and their observations.

| process | what it is | number |
|---|---|---|
| API | FastAPI over uvicorn; project, computation and sensor endpoints are `async def` without an await of their own, so one request at a time; external sources, alerts and others are `def` and run in a thread pool | one in `deploy/docker-compose.prod.yml`; 4 or 2 gunicorn processes with `scripts/start.sh`, `api/scripts/start.sh` |
| worker | Celery, prefork, queues `imports`, `computations`, `celery`; an MQTT subscriber thread starts with it | no `--concurrency`, so one process per core |
| beat | `-B` in the development compose file: a simulation step every 10 s, the inactivity sweep every 30 min | none in the production file, where the sweep never runs |
| TSM's workers, FROST, MQTT, Keycloak, GeoServer, MinIO | outside this repository | external in the models |

They share the application database (PostgreSQL through SQLAlchemy sessions),
the TimeIO database (ConfigDB and one schema per project, through a psycopg2
pool of `services/timeio/timeio_db.py`), Redis (broker and results), the MQTT
broker and the directory `app/computations`. There is no lock above the
databases' own, so almost every rule of the code is a query followed by a
later write.

### Components

For each: its state; operations; what is hard; what makes it correct.

**Alert rules** (`services/alert_evaluator.py`, `api/v1/endpoints/alerts.py`,
`computations/context.py`). Rows of `alert_definitions` and `alerts`. A
`qaqc_done` message makes a task that measures every active QA/QC rule of a
thing and raises or resolves; a finished computation evaluates its script's
rules; scripts raise alerts themselves; users create, switch, delete,
acknowledge and test-trigger. Hard: two workers at the same rule, rules loaded
once and used long after, a failed commit that spoils the session. Correct: no
duplicate of an active alert, no alert without rule, alerts that follow the data.

**Sensor activity** (`services/monitoring_service.py`,
`tasks/monitoring_tasks.py`, `worker/mqtt_handler.py`). One
`sensor_activity_configs` row per thing (tracking, threshold, last sighting,
last status), one definition "Inactive Sensor" per project, an alert per silent
sensor *found by the sensor's name*, and the status among the thing's
properties. `data_parsed` messages become record tasks, beat starts sweeps.
Hard: a sweep works on the rows and the time of its start while record tasks
commit; check-then-create of configs, definitions and alerts; renames; lost and
duplicated messages. Correct: an alarm only for silence, cleared only by data.

**TimeIO database access** (`services/timeio/timeio_db.py`). A pool of at most
ten connections per process; some sixty methods that take one, a few that call
another such method while they hold theirs; `delete_thing_cascade`, which
deletes over two databases. Hard: an empty pool, failures between the two
halves. Correct: no shared connection, none lost, "deleted" means deleted.

**Projects, roles and members** (`services/rbac_service.py`,
`services/project_service.py`). Project rows (owner, Keycloak group id, cached
group name), member rows, and the groups in a token. Hard: two sources of a
role; rights are looked up, Keycloak may be asked, and the row is written later.
Correct: an owner keeps control, a change is by someone who may make it *then*,
what is listed can be opened.

**Computation scripts and jobs** (`api/v1/endpoints/computations.py`,
`tasks/computation_tasks.py`). A script is a row and a file, a job a row and a
Celery task. Nobody but a reader (`/jobs`, `/tasks`) copies a result into its
row. Hard: pairs that cannot be written together, a delete racing a run.
Correct: no job without script, no run without job, an end that stays.

**Sensor provisioning** (`services/timeio/orchestrator.py`, `mqtt_client.py`,
`thing_management_client.py`, `api/v1/endpoints/things.py`, `add_sensor` and
`remove_sensor` of the project service). `create_sensor` publishes a request,
waits 10 s for the broker, polls 30 times for the thing, then updates it and
links it. Hard: answers that come after the timeout, two creations of one
schema, a sync or a late message that undoes a deletion, a link that fails and is
answered "created" all the same. Correct: a thing without a link is one its user
was told of, or the one that a failed link left; every request ends; what is
deleted stays deleted.

**Simulated sensors** (`services/simulator_service.py`,
`tasks/simulation_tasks.py`, `api/v1/endpoints/simulator.py`). A `simulations`
row per thing; a step publishes values for all that are due and then writes
their times in one transaction. Hard: a step that overlaps the next one, rows
deleted meanwhile, one simulation that spoils the others. Correct: one value per
interval, and publishing that goes on.

**QA/QC configurations** (`services/qaqc_service.py`, `api/v1/endpoints/qaqc.py`).
ConfigDB rows with a default per project, their tests, and an own configuration
per thing. Hard: clear-then-set of the default by two requests, row locks that
wait for each other, links read without a lock. Correct: one default, no link to
a configuration that is gone.

**External sources, parsers and a sensor's properties** (`timeio_db.py`,
`services/sms_service.py`, `api/v1/endpoints/sms.py`, `external_sources.py`,
`custom_parsers.py`). One update of a sensor is a row of transactions; scripts
lie in MinIO and are named by a row. Hard: writers of one JSON column that each
read all of it first, check-then-insert, file and row. Correct: no lost change
without a rival, one parser per name, a registered script that exists.

**Geospatial layers** (`services/database_service.py`,
`services/geoserver_service.py`, `api/v1/endpoints/geospatial.py`). Rows of
layers and features, and GeoServer's layers of the same names. An import writes
the rows, publishes, and takes its rows back when that fails. Hard: the undo
comes late and goes by name. Correct: features have layers, an undo takes only
its own.

**Bulk import** (`api/v1/endpoints/bulk.py`, `tasks/import_tasks.py`). A file in
`temp_imports` and a task. Hard: four ways to fail. Correct: the file goes away
where API and worker share the directory.

**Start-up and seeding** (`scripts/start.sh`, `core/database.py`, `main.py`,
`api/scripts/*.py`, `core/seeding.py`). Several workers may make the tables;
scripts of some twenty steps fill five services, and are run again when stopped.
Hard: what is half done, what is done twice, services that are not up. Correct:
a run that nothing disturbs completes what is missing and doubles nothing. The
databases' script (`core/seeding.py`) never gets past its demonstration project.

**The rest** keeps little state of its own: datasets (things with another
payload), dashboards, tokens and keys (`core/security.py`), read-only queries to
FROST, and the frontend.

## 2. The plan

Order: what decides about users' alarms first, then the shared resource under
everything, then rights, then the pairs of stores, then the rest of the tasks
and of the configuration, and what brings the system up.

| module | models | state |
|---|---|---|
| `AlertEvaluator` | alert rules and alerts | done, proved |
| `InactivityAlarm` | abstract: what activity tracking promises | done |
| `SensorActivity` | record tasks, sweeps, requests; implements `InactivityAlarm` | done, proved |
| `TimeIODatabase` | the pool, nested calls, cascade delete | done, proved |
| `ProjectAccess` | roles, projects, members | done, proved |
| `JobLife` | abstract: what the page of a script's jobs promises | done |
| `ScriptJobs` | scripts, files, jobs, Celery results; implements `JobLife` | done, proved |
| `Provisioned` | abstract: what a thing's creation and deletion promise | done |
| `SensorProvisioning` | things from creation to deletion, with TSM's workers, the broker and timeouts; simulations' rows, datasets; implements `Provisioned` | done, proved |
| `QaqcConfigs` | defaults, tests and assignments, with row locks | done, proved |
| `SensorConfig` | properties, sources, parsers, types with scripts | done, proved |
| `Layers` | layers, features, GeoServer | done, proved |
| `WorkerTasks` | simulation steps, bulk import | done, proved |
| `Seeding` | start-up, tables, seed scripts | done, proved |

Each module has an `MC` module with the constants of its small instances and
one `.cfg` per question; each `...Proofs` module extends TLAPS and the one or two
modules that it is about. For the sake of those that two modules share, the names
of `SensorActivity`, `Seeding` and `WorkerTasks` carry the module's (`TasksNext`).
Modules to be proved about use no recursive operator.

## 3. The modules

### AlertEvaluator

`rule[r]` is the state of a definition's row, `reading[r]` what its evaluation
would find (no observation, clear, breach, a failing query), `alert[a]` a row
with its rule, its status and the task that wrote it, `task[w]` what worker
process `w` is at: the rules it loaded and has left, the current one, the row a
query returned, and whether its session has committed (then a touched rule is
read again, and a deleted one raises). A task goes `Begin` - `Measure` -
`CheckActive` - `InsertAlert`, or `FindActive` - `ResolveFound`, each a
statement with its commit, and back to `Measure`. `ScriptAlert` and
`ScriptDone` are a computation's own alerts and its evaluation afterwards. The
requests are one action each, with their names in the code.

### SensorActivity and InactivityAlarm

`config[t]` is the row of sensor `t`, `name[t]` and `status[t]` are what TSM
knows of it, `def[d]` and `alert[a]` the definitions and alerts, `pending` the
messages under way, `work[w]` the task of a worker with the row it read and the
time it took at its start. Time is a counter. A record task is `BeginRecord`, `CreateConfig`, `RecordSeen`,
`FindDef`, `GetName`, `FindAlert`, `ResolveAlert`, `UpdateStatus`; a sweep picks
sensors (`PickThing`), creates the definition if it sees none, and raises. The
constant `Edits` says which requests users make in a run.

`InactivityAlarm` has an alarm per sensor: raised while the sensor is quiet,
stale once it is seen again, cleared only when stale, or by a request. It is
implemented with one worker, one threshold, and names of their own that stay:
the conditions without which the code does not keep the promise. The properties
of `activity_race` drop them and say what is left.

### TimeIODatabase

`out` is what the pool has handed out, `call[p]` the call of thread `p`: its
kind, its step, the connection it holds and the one a nested method holds.
`project` and `configdb` are the things with rows in either half, `answer[t]`
what a delete of `t` returned. A plain call stands for every method that takes
one connection and returns it in a `finally`. `delete_thing_cascade` is modelled
statement group by statement group, with the connection it never returns and
the pool's refusal (psycopg2 raises, it does not wait), which its inner handler
takes for a failure of the project's transaction. (`health_check` does not
release in a `finally` either, but has no caller.)

### ProjectAccess

`project[p]` has owner, group, cached group name and whether the id column holds
a name (the old form); `members[p][u]` is the row's role. `request[w]` is what a
process is at: who asks with which token, for what, and what it has looked up. A
group stands for its id and its name; names may end alike, because the code also
matches by suffix. `Receive` - `FetchName` (Keycloak may not answer) - `Decide`
- the write. Tokens with entitlements are left out: the realm does not issue
them. A realm admin's request does not ask Keycloak, which is the case "no
answer" of the lookup.

### ScriptJobs and JobLife

`script[s]` is the row of a script and `files` the files, `job[j]` a job's row
and `task[j]` what Celery knows under the same id, `request[p]` what an API
process is at, with the rows its open transaction has locked or the results it
has read, `runner[r]` a worker process. A delete is `DeleteJobs` (uncommitted),
`RemoveFile`, `DeleteScript`, the last of which fails when a job was inserted in
between: the ORM sets the job's script to NULL and the column refuses.
`ReadResults` and `RecordResults` are the two halves of both status requests.
API processes may die (`Crash`), the worker may go down (`LoseTask`: Celery
acknowledges early), results expire.

`JobLife` has only scripts, what was sent to run, what each run came to, and the
page. A run ends once, the page shows that end or none, for good, and a script
goes with all its jobs in one step. What a job came to (`Outcome`) is in the result
backend and, when that has dropped it, in the hands of the requests that have read
it; when the last of them ends it is unknown for ever.

### SensorProvisioning and Provisioned

A thing has no row of its own in one place. `config` and `rows` are the things
in the ConfigDB and in the database of their schema; only TSM's workers write
there (`Configure`, `SetUp`), after a message (`inbox`). `links[p]` is
`project_sensors`, `sims` the rows of `simulations`, `schema[p]` a project's
schema name, which may still be missing. `request[w]` is what process `w` is at:
a creation is `Order` (the uuid and schema are drawn), `Publish`, `Poll`, then
`AssignSchema`, `SaveSimulation` or `LinkDataset`, and for the first two
`OpenProject` and `Link`, the two halves of `add_sensor`, which a user may ask
for alone (`FindToLink`). `LinkFails` is what `add_sensor` raises: a user who links
is told, a creation swallows it, answers "created" and leaves its thing without a
link; the history variable `loose` keeps these. A bulk import is one creation after
another. A removal is `RemoveSensor` and `DeleteSource`, a
simulated thing goes with `ForgetSimulation`, `DeleteSimulated`,
`UnlinkSimulated`: a commit each. A sync reads the configuration and sends it
(`ReadConfig`, `PublishSync`). `Cascade` is the outcome of
`delete_thing_cascade`, the steps of which are in `TimeIODatabase`. `told[t]` is
what the last ended request said of `t`, `erased` a history variable. The TSM is
not in this repository: its workers take a message in any order and at any time,
or lose it, and a set-up without configuration does nothing.

`Provisioned` speaks of things only: ordered, open (their creation is not
answered), missing from the project they were ordered for, there, with data, coming
(something under way may bring them), and the last word to the user. A thing
appears only if it is coming, and is coming only through its order or a `Sync` while
it is there; "created" is said of things only that are not missing, but in the one
step in which a creation's link fails (`SettleLoose`). The mapping reads `open` and `coming` off the requests and messages (`Open`, `Coming`), and
`missing` off links and projects (`Missing`).

### QaqcConfigs

`config[c]` is a row of `config_db.qaqc`, `test[q]` of `qaqc_test`, `linked[t]`
the link of a sensor, `request[p]` what API process `p` is at. Handlers look
first (`Check`, under a connection of its own) and write later. A write is
`BeginWrite`, a `ClearFlag` for every row of the running UPDATE, each of which
stays locked, and `Insert` or `Save`; a deletion is `BeginDelete` and `Delete`.
`BreakDeadlock` is PostgreSQL failing one of a circle of waiting transactions.

### SensorConfig

`properties[k]` is the request that wrote key `k` last: only who wrote is told
apart. `external[s]` are the rows of a source and the link to one, `parser` and
`store` the parsers and the one that is used, `type` and `script` the row and
the file of a type with a script. An update of a sensor is one request with
several `parts`, each of them a read (`ReadProperties`, `ReadLink`) and a write
(`WriteProperties`, `WriteLink`) of their own; `settled` and `raced` are history
variables that say who had a rival. `Crash` stops a request anywhere.

### Layers

`layer[n]` is the number of the request that made the row, so that a row made
again under its name is another one; `features[n]` the features in the same way;
`workspace`, `store` and `served[n]` are GeoServer's. An import is `Import`,
`SaveImport`, `Connect`, then a `Look` and an `Ensure...` or `Publish...` for each
call, and `Undo` and `Delete` when one fails. A call may be done and not answered.

### WorkerTasks

`sim[s]` is the row of a simulation, `things` what the ConfigDB has, `step[w]`
the step that worker `w` is at: what it loaded (`BeginStep`), what is left after
looking the things up (`Connect`), published (`Publish`) and committed (`Commit`).
`upload[i]` and `tempFiles` are the bulk imports. Time is kept as ages, up to
`MaxAge`. Beat's steps queue up without limit, so that a step may always be
waiting.

### Seeding

`boot` is where `start.sh` is, `init[i]` where `init_db()` is in the start script
or in a worker, `database` what it has made, `run` the step of the seed script
that runs, and `have[x]` how many of item `x` there are. The scripts are lists of
steps (`ApiSteps`, `DatabaseSteps`); most are an `Ensure` that may be repeated,
others look and then create (`Look`, `Create`), and `Refused` says what each
script does about an error. The list of `core/seeding.py` ends with the
demonstration project (`FailAtDemo`): its `Project(...)` names a field that the
model has no longer (`core/seeding.py:485`, `models/user_context.py:66`), a
project that is there is asked for the same field (494), and the error rolls back
and ends the run (800-803). The seventh step thus always is the last.

## 4. The runs

| run | instance | distinct states |
|---|---|---|
| `alerts` | 2 workers, a QA/QC and a script rule, 2 alert rows, 3 changes | 206,307 |
| `activity` | 1 worker, 2 sensors, clock to 2, 2 requests | 335,088 |
| `activity_race` | 2 workers, 1 sensor, 2 names, renames | 558,444 |
| `pool` | 2 threads, 3 connections, 2 things, 1 failure | 265,538 |
| `access` | 2 processes, 2 users, 2 groups, 1 project, 3 tokens | 1,185,221 |
| `jobs` | 2 API processes, 1 runner, 1 script, 2 jobs, 1 death | 144,789 |
| `provision` | 2 processes, 1 project, 1 thing, 2 schemas, 1 message, 1 failure | 474,866 |
| `qaqc` | 2 processes, 1 project, 2 configurations, 1 test, 1 thing, 1 death | 50,261 |
| `config` | 2 processes, 1 thing, 2 keys, 3 requests, 2 rows of a kind | 321,260 |
| `layers` | 2 processes, 1 name, 2 projects, 4 requests | 295,268 |
| `seeding` | 2 workers, 1 start, 2 runs, 2 tries, 2 faults | 561,940 |
| `tasks` | 2 workers, 1 simulation, 2 configurations, 1 upload | 88,297 |

What they show:

- **alerts**. Racing workers break dedup, but boundedly: `OneActivePerWorker`.
  `NoOrphanAlert`: however a delete and running tasks interleave, no alert's row
  survives its rule's. `OffStaysQuiet`: a rule that is off and that no task holds
  any more raises nothing. `ClearSettles`, `BreachSettles`: when the data stays
  put, alerts end up saying what the data says, duplicates and stale resolves
  notwithstanding.
- **activity**. The tasks implement `InactivityAlarm` (`ImplementsAlarm`).
- **activity_race**. With stale sweeps and renames an alert may come or go too
  late, but silence is reported in the end (`SilenceIsReported`) and a return is
  noticed (`ReturnIsNoticed`).
- **pool**. Connections are never shared (`HeldApart`), only deletes lose them
  (`OnlyDeletesLeak`), and since the pool refuses instead of waiting, nested
  calls on an empty pool cannot wait for each other (`CallsEnd`).
- **access**. `OwnerKeepsControl`; `ChangeIsAuthorized`: though rights are
  checked well before the write, they hold when it comes;
  `RemovedStaysRemoved`: no request that saw a row revives it;
  `ListedAreViewable`: what the list shows can be opened, and with the role that
  the list shows, although two functions resolve it; for projects whose id column
  holds an id.
- **jobs**. `JobsHaveScripts`; `RunsAreRecorded`: what was sent to the worker is
  listed, or its script is gone, or a process died in between;
  `FilelessScriptWasRun`: a delete leaves a listed script without its file only
  if a run was submitted under it; `ImplementsJobLife`: the page
  shows no end but that of the job's run, and keeps it; `WatchedJobsEnd`: a job whose
  page stays open leaves PENDING.
- **provision**. `OrphansAreTold`: a thing ordered for a project and not linked
  to it is being made, or its user was told of a failure or a removal, also when
  the acknowledgement is lost and the thing appears later, or the link itself, the
  creation's last step, failed (`loose`); no interleaving and no other failure
  leaves such a thing. The link's IntegrityError counts as success, and may: the
  link is there, or the project is not. `SimulationsHaveThings`: a simulation outlives its thing only if the
  thing was deleted as a sensor (`remove_sensor` does not know of simulations).
  `ImplementsPromise`: all of it is what `Provisioned` allows. In particular a
  deleted thing stays away once no message for it and no reader of its
  configuration is left; the condition is needed, since a sync or a creation that
  is under way makes the thing again. `RequestsEnd`.
- **qaqc**. `SoleDefault`: who sets a default with no rival beside leaves no
  second one, through deletions and changes of other kinds (two rivals may leave
  two). `LinkedConfigsExist`: a sensor's link never names a configuration that
  is gone, though links are removed on the strength of an older look.
  `RequestsEnd`: circles of row locks are broken and let go.
- **config**. `UndisturbedChangesStay`: a property written without a rival is
  lost only to a write of that key, or to one whose reading failed and which
  then replaces everything. `LinkedSourcesExist`, `SyncersHaveScripts`,
  `ParsersAreUpserted` (without two uploads side by side).
- **layers**. `OnlyOwnIsUndone`: an import that fails minutes later takes back its
  own layer and never one that was made under the name since.
  `FeaturesHaveLayers`: also for features that come while it is taken back.
- **seeding**. `CleanRunsComplete`: a run that nothing disturbs ends with all that
  it promises, wherever earlier runs stopped; the databases' script, which always
  fails at its last step, with all that comes before. `OneOfEach`: what scripts look for
  is doubled only if a look failed. `HealthyHasTables`: workers take a
  duplicate for success, which is right because `start.sh` ran first.
  `RunsEnd`.
- **tasks**. `Paced`: the interval is kept between published values, unless steps
  overlapped or were not committed. `KeepsPublishing`: a sound simulation is
  published again and again, whatever others in its step do. `FilesGoAway`: the
  worker can remove what the API has written, as `docker-compose.yml` mounts one
  directory for both; in `deploy/docker-compose.prod.yml` they share no volume, the
  task finds no file, and the API's stays.

Types are not among the runs' properties: a theorem states them for each module.

### Where the code departs from its comments

These came up while modelling. They are the reason for the conditions in the
properties above, and no run is kept for them.

- "Already active, do not spam" (`alert_evaluator.py`): two workers insert two.
- "Resolves the alert automatically when data resumes" (`monitoring_service.py`):
  two first sweeps create two definitions "Inactive Sensor", and alerts of the
  second are never looked at again.
- "Record that a sensor sent data": a triggered QC run is published on the same
  topic and recorded as data.
- "Delete a thing and all its related data" (`timeio_db.py`): the function leaks
  its connection; once the pool is short it skips the rows and answers True.
- "user in project's Keycloak group -> viewer" (`rbac_service.py`): moving a
  project to another group leaves the cached group name, by which access goes.
- "Log but don't fail" (`simulator.py`): nothing is logged. A creation, there and
  in `things.py`, answers "created" whatever `add_sensor` raised, lost rights too;
  the user sees no link and no error.
- The databases' script (`core/seeding.py`) never completes: see `Seeding`.
- Starting and stopping a simulation looks for keys that the list does not have
  and answers 404 or 500; nothing changes.
- In `seed_data.py` a renewed token is said not to count as an attempt; it does.
- A default QA/QC configuration that was seeded without its tests is taken for
  complete by every later run.

### Bounds

Every bound is a constant or named in a comment: rows are taken from a finite
set of ids (closed rows that nobody holds may pass theirs on in
`AlertEvaluator`), user changes are counted (`MaxChanges`), clock, messages under
way, failures and deaths have a maximum. Two processes are enough for every race
in the code, since each rule is a pair of one read and one write of one row;
where a third could matter (more duplicates, more leaks) the theorems take any
number. Two rules, sensors or jobs let one interfere with another. Two names show
a rename; a clock of 2 with a threshold of 1 shows being seen, silent and seen
again. A creation polls twice instead of 30 times (`MaxPolls`): found at once,
found late, given up. One message under way per thing (`MaxMessages`)
suffices: a message writes the same rows each time, so a second one only matters
by coming late, which the first may as well. With one thing, two requests meet
at it in every pair of steps, and two schemas tell the right from the wrong one.
A list of jobs updates only the 50 newest, which two jobs never exceed.

In the newer modules, requests are counted (`MaxRequests`): three let a third see
what two that crossed have left, four let an import fail after its layer was
deleted and made again. One name, one thing and one type of each kind suffice, as
nothing there relates two. `Seeding` has two runs, so that the second finds what
the first left, two faults anywhere, and two tries instead of up to thirty; scripts
run one at a time, as their start by hand has it, their data files can be read,
and the client of the realm is there. Workers start only after `start.sh` has made
the tables, without which `HealthyHasTables` would not hold (`BeginOnce_Skipped`); the
production compose file starts one process without it, which has no rival. `activity` has one
worker, so a sighting during a sweep is met in `activity_race`, which has no deletion
of definitions and no two sensors of one name. `access` leaves out projects whose id
column holds a group's name: for them the list and the resolver may differ. `WorkerTasks` has one simulation: what others in
the same step do to it is that the connection or the commit fails, which
`ConnectFails` and `CommitFails` may do at any time. Its intervals are 1 and 2
(`Default`), and ages stop at `MaxAge` = 2, where every interval is over.

### Fairness

Weak fairness of a task or request that has begun: processes are not suspended
for ever. Strong fairness that a kind of task is taken again and again: Celery's
queues are first in, first out, QC runs keep finishing, and beat sends sweeps.
`activity_race` thus speaks of a deployment with beat, which the production
compose file is not. In `ScriptJobs`, strong fairness of a request that goes on,
as PostgreSQL grants a row lock in turn, and of the jobs page, which asks every
5 s (`frontend/app/projects/[id]/computations/client.tsx`). In `SensorProvisioning` weak fairness of a
request that has begun, since its sleeps and its waits for the broker are all
bounded; nothing is assumed of the TSM. `QaqcConfigs` has strong fairness of a
request that goes on, since PostgreSQL serves those who wait for a row in turn;
`Seeding` weak fairness of the script's step: every wait has its limit.
In `WorkerTasks` time passes, beat keeps sending and the queue is first in, first
out, so steps and imports are taken again and again; strong fairness of looking a
thing up and of publishing says that failures do not single out one simulation.
Nothing obliges a user to act, a message to arrive or a failure to happen.

## 5. The proofs

The constants are arbitrary sets with the assumptions stated in the modules (a
null value is not one of the ids, a bound is a natural number, a configuration's
intervals have a shortest one, and so on). Each component has an inductive invariant
(`IInv`, or `ActivityInv`, `SeedingInv` and `TasksInv` where two share a module),
shown to hold initially and to be kept by each action; the safety properties follow
from it, the action properties from it and one step. Every invariant and every
action property that a run checks is stated by a theorem.

- **AlertEvaluatorProofs**. `OneActivePerWorker` is not inductive: a worker about
  to insert must be known to have no active row of its own for the rule
  (`PendingHasNone`), which lasts because only it writes rows under its name.
  `DedupWithOneWorker` draws the conclusion that a single worker process keeps
  what the comments promise. `OffRulesStayQuiet` goes action by action: a rule is
  loaded only while it is on, and only who has loaded it raises it.
  `CascadeComplete`, `ResolvedByQaqcOnly`, types.
- **TimeIODatabaseProofs**. Each step is shown to touch only the connections of
  its own call and free ones (`Local`); separation and "deletes alone lose one"
  are then set algebra. The extra invariant (`Nesting`) says when a second
  connection is held.
- **ProjectProofs** has `ProjectAccess` and `Seeding`, the two ways to a project.
  Rights checked before a write could be lost before it if they came from the
  requester's row. They are not, since the only rows that give them are the owners'
  and no request changes those (`OwnersHaveRows`, `Sound`). `OwnerStays`,
  `ChangesAuthorized`, `NoneComesBack`, `ListedCanBeOpened`, types. In `Seeding`, a
  run that nothing has disturbed has everything that the steps behind it are for,
  and what it looked for and did not find stays missing until it adds it, as no
  other script runs beside it; the tables are complete before any worker starts,
  because `start.sh` runs `init_db` alone. At its last step a script has all that it
  promises behind it (`AllBehind`). Hence `RunsComplete`, `NothingTwice`,
  `HealthyAreReady`, types.
- **TaskProofs** has `ScriptJobs` and `WorkerTasks`, what the Celery worker is
  given to do. A request that will write knows that its job id is its
  own and unwritten (`Sound`, `RequestsApart`), and all results in anybody's
  hands agree (`FoundAgree`): hence `JobsScripted`, `RunsRecorded`,
  `FilesMissedByRuns` and `EndsFinal` for any number of processes.
  `JobsLiveAsPromised` is the refinement of `JobLife`: as all who have read a result
  agree, what a job came to does not depend on whose reading the mapping takes
  (`FoundIsOutcome`), and is forgotten only with the last of them (`FoundDrops`).
  `HeldSound` adds that nobody else holds results. `StepsArePaced`
  needs to know what a row says of a simulation whose steps did not overlap and
  were all committed (`SimSound`): one step holds it at most, nothing was published
  since that step took its time except by it, and when none has it to write, the
  row's time is no earlier than the last publication's.
- **SensorProvisioningProofs**. `OrphansAreTold` needs to know that the request at
  a thing is the creation for its project (`Sound`) and the only one (`Apart`: a
  uuid is drawn once, and nothing is known of it before, `Used`).
  `SimulationsHaveThings` needs that a creation which saves its simulation has
  seen the thing, and that no deletion can have begun. `GoneStays` is shown with
  the same steps (`Kept`): `OrphansTold`, `SimulationsGrounded`, types.
  `ProvisioningKeepsPromise` is the refinement: a lemma per action (`...KeepsPromise`)
  names its step of `Provisioned`, and a few on the mapping say how it follows a
  request that begins, goes on or ends (`OpenEnds`, `ComingSent`); a creation whose link fails settles as loose. It rests on
  `Apart`, as only one creation can be open for a thing, on what requests know of
  their thing (`Sound`), and on `HomesSound`: a thing gets its project with its order.
- **QaqcConfigsProofs**. What a request has looked up stays true of its
  configuration until it writes (`SoundRequest`): an id is drawn once
  (`IdsApart`), a row never changes its project, and one link at most names a
  configuration (`LinksApart`). Who sets a default alone has no rival, and every
  default there is is either its own or among the rows that its UPDATE has
  cleared or will clear (`Holding`); that lasts because whoever else makes a
  default is a rival. `LinksGrounded`, `SoleDefaultKept`, types.
- **SensorProofs** has `SensorConfig` and `SensorActivity`. Of `SensorConfig`, all
  steps but the reading and writing of properties are of one shape (`Quiet`:
  another request in the place of one). Three things are known in between: an upload that goes on has its script (`Stored`), one upload
  at most has looked for the parser unless two have raced (`Upserting`), and who
  has read the properties has the settled ones as they are (`Fresh`).
  `LinksHaveRows`, `SyncersScripted`, `NamesMakeOneParser`, `ChangesStay`, types.
  `TasksImplementAlarm` is the refinement: each step of the tasks and requests is a
  `Sighting`, `Raise`, `Clear`, `Request` or `Wait` of `InactivityAlarm`, or none.
  The gaps between a task's reads and its writes are closed by an invariant that
  says what of its readings still holds (`TasksStayInformed`). Its conditions
  (`Undisturbed`) are those of the run: one worker, one threshold, names that are the
  sensors' own and stay, definitions that users leave to the tasks. It is for any
  number of sensors, definitions, alerts and messages, and any clock.
- **LayersProofs**. An import that has saved its layer holds that row's number and
  no other (`SoundRequest`), which is what an undo goes by. A deletion takes the
  features of the row it deletes, whoever added them: `FeaturesGrounded`,
  `OwnUndone`, types.

Each lemma about a kind of step (`...Quiet`, `...Kept`) is used for all actions of
that kind, and the last lemma before the theorems, on one step, splits on the actions.

Only model-checked: the liveness properties (`...End`, `...Settles`,
`KeepsPublishing`, `FilesGoAway`, `SilenceIsReported`, `ReturnIsNoticed`).
`ResolvedByQaqcOnly`, `GoneStays` and `EndsFinal` are proved of properties that no run
checks (the last two follow from the refinements, which runs check). Out of the prover's reach altogether: liveness
under fairness, ENABLED, and induction over data, so what `parse_group_roles` (a
fold) computes is used in the proofs as an unknown function.

## 6. Not modelled

What the TSM does with a message beyond the rows of a thing is outside;
credentials in messages are data. Thresholds, script texts, observation values,
HTTP formats and logging are data that no property needs. Dashboards (one row, one owner, one
statement per request), read-only queries to FROST and to layers, signature
checks, the ingestion service, the files that MinIO keeps of datasets and custom
QA/QC functions (one call each), and the frontend have hardly any control to
check. `scripts/simulate_sensors.py` and `scripts/seed.py` are older forms of
`seed_data.py`, with steps of the same kinds. What `core/seeding.py` would do after
its demonstration project (dashboard, script, second project, things) is never
reached. A bulk import whose process dies takes its report with it, and so what it
said of the rows before. Failures of the application
database other than the ones above (a refused key, a row that is gone, a lost
process) are left out: a failing statement ends its request or task in the same
way.
