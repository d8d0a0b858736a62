--------------------------- MODULE SensorActivity ---------------------------
(***************************************************************************)
(* Sensor activity tracking (services/monitoring_service.py).  Every       *)
(* data_parsed message becomes a record task, which notes when the sensor  *)
(* was last seen and resolves its inactivity alert; Celery Beat sends      *)
(* sweeps, which raise an alert for every tracked sensor that has been     *)
(* silent for longer than its threshold and resolve the alerts of those    *)
(* that are back.  Alerts belong to the project's definition named         *)
(* "Inactive Sensor" and are found by the NAME of the sensor.              *)
(*                                                                         *)
(* One project.  Every query and every commit of a task is a step.         *)
(*                                                                         *)
(* (Names that SensorConfig has too carry the component's, so that         *)
(* SensorProofs can be about both.)                                        *)
(***************************************************************************)
EXTENDS Integers, FiniteSets

CONSTANTS
    Things,
    Names,         \* names a sensor can have
    Name0,         \* Name0[t]: the name of t to begin with
    Workers,
    DefIds,        \* ids of alert definitions named "Inactive Sensor" at some time
    AlertIds,
    Thresholds,    \* values of inactivity_threshold_hours
    MaxClock,      \* bound on time
    MaxPending,    \* bound on the record tasks queued for one sensor
    MaxChanges,    \* bound on the users' requests and on failures
    Edits          \* the requests considered, a subset of AllEdits

AllEdits == {"config", "definition", "delete", "acknowledge", "rename", "trigger"}

NoThing == "no thing"
NoName  == "no name"
NoDef   == "no definition"
NoAlert == "no alert"
Never   == -1

ASSUME ThingsAssumption == NoThing \notin Things /\ Name0 \in [Things -> Names]
ASSUME NamesAssumption  == NoName \notin Names
ASSUME IdsAssumption    == NoDef \notin DefIds /\ NoAlert \notin AlertIds
ASSUME BoundsAssumption ==
    /\ Thresholds \subseteq Nat /\ Thresholds # {}
    /\ MaxClock \in Nat /\ MaxPending \in Nat /\ MaxChanges \in Nat
    /\ Edits \subseteq AllEdits

VARIABLES
    clock,
    name,       \* name[t]: in the thing table of the TimeIO database
    status,     \* status[t]: the status among the properties of the thing
    config,     \* config[t]: the row of sensor_activity_configs
    def,        \* def[d]: "absent", "named" (Inactive Sensor) or "renamed"
    alert,      \* alert[a]: a row of alerts
    pending,    \* pending[t]: record tasks of t in the queue
    work,       \* work[w]: the task worker w runs
    changes     \* how many of the MaxChanges are used

activityVars == <<clock, name, status, config, def, alert, pending, work, changes>>

Time     == 0 .. MaxClock
Sighting == Time \cup {Never}

Config == [exists : BOOLEAN, track : BOOLEAN, thr : Thresholds, seen : Sighting]

DefaultThreshold == CHOOSE h \in Thresholds : TRUE

NoConfig == [exists |-> FALSE, track |-> FALSE, thr |-> DefaultThreshold, seen |-> Never]

Alert == [def : DefIds \cup {NoDef}, name : Names \cup {NoName}, last : Sighting,
          status : {"unused", "active", "acknowledged", "resolved", "deleted"}]

UnusedAlert == [def |-> NoDef, name |-> NoName, last |-> Never, status |-> "unused"]

\* loaded: the configs a sweep has read; expired: they are read again when next
\* touched, because the session has committed; silent: what the sweep computed.
Task == [kind    : {"none", "record", "sweep"},
         step    : {"idle", "create", "seen", "pick", "def", "mkdef",
                    "name", "find", "insert", "resolve", "status"},
         thing   : Things \cup {NoThing},
         todo    : SUBSET Things,
         loaded  : [Things -> Config],
         expired : BOOLEAN,
         now     : Time,
         silent  : BOOLEAN,
         last    : Sighting,
         def     : DefIds \cup {NoDef},
         name    : Names \cup {NoName},
         found   : AlertIds \cup {NoAlert}]

NoTask == [kind |-> "none", step |-> "idle", thing |-> NoThing, todo |-> {},
           loaded |-> [t \in Things |-> NoConfig], expired |-> FALSE, now |-> 0,
           silent |-> FALSE, last |-> Never, def |-> NoDef, name |-> NoName,
           found |-> NoAlert]

ActivityTypeOK ==
    /\ clock \in Time
    /\ name \in [Things -> Names]
    /\ status \in [Things -> {"active", "inactive"}]
    /\ config \in [Things -> Config]
    /\ def \in [DefIds -> {"absent", "named", "renamed"}]
    /\ alert \in [AlertIds -> Alert]
    /\ pending \in [Things -> 0 .. MaxPending]
    /\ work \in [Workers -> Task]
    /\ changes \in 0 .. MaxChanges

ActivityInit ==
    /\ clock = 0
    /\ name = Name0
    /\ status = [t \in Things |-> "active"]
    /\ config = [t \in Things |-> NoConfig]
    /\ def = [d \in DefIds |-> "absent"]
    /\ alert = [a \in AlertIds |-> UnusedAlert]
    /\ pending = [t \in Things |-> 0]
    /\ work = [w \in Workers |-> NoTask]
    /\ changes = 0

Change == changes < MaxChanges /\ changes' = changes + 1

Silent(c, now) == c.seen = Never \/ now - c.seen > c.thr

NamedDefs == {d \in DefIds : def[d] = "named"}

\* The rows that both alert queries select.
Active(d, n) ==
    {a \in AlertIds : alert[a].def = d /\ alert[a].name = n /\ alert[a].status = "active"}

\* A closed row is found by no query any more, so it keeps only its definition.
Closed(row, st) == [row EXCEPT !.status = st, !.name = NoName, !.last = Never]

\* When no task holds it, it may leave the model and pass its id on.
FreeIds == {a \in AlertIds : /\ alert[a].status # "active"
                             /\ \A w \in Workers : work[w].found # a}

NewId == CHOOSE a \in FreeIds : TRUE

Doing(w, kind, step) == work[w].kind = kind /\ work[w].step = step

-----------------------------------------------------------------------------
(* The environment.                                                        *)

Tick ==
    /\ clock < MaxClock
    /\ clock' = clock + 1
    /\ UNCHANGED <<name, status, config, def, alert, pending, work, changes>>

\* A message on data_parsed: lost (the subscriber was away, the broker of the
\* queue too), delivered, or delivered twice (QoS 1).
Deliver(t) ==
    \E n \in 0 .. 2 : /\ pending[t] + n <= MaxPending
                      /\ pending' = [pending EXCEPT ![t] = @ + n]

\* Data of t were parsed.
DataParsed(t) ==
    /\ Deliver(t)
    /\ UNCHANGED <<clock, name, status, config, def, alert, work, changes>>

-----------------------------------------------------------------------------
(* Tasks: taking one, losing one, going on.                                *)

\* Beat and the queue hand a sweep to an idle worker: the tracked configs are
\* loaded, and the time is taken once for all of them.
BeginSweep(w) ==
    /\ work[w] = NoTask
    /\ LET todo == {t \in Things : config[t].exists /\ config[t].track} IN
       /\ todo # {}
       /\ work' = [work EXCEPT ![w] =
            [NoTask EXCEPT !.kind = "sweep", !.step = "pick", !.todo = todo, !.now = clock,
                         !.loaded = [t \in Things |-> IF t \in todo THEN config[t] ELSE NoConfig]]]
    /\ UNCHANGED <<clock, name, status, config, def, alert, pending, changes>>

\* A record task is taken from the queue and looks for the config.
BeginRecord(w, t) ==
    /\ work[w] = NoTask
    /\ pending[t] > 0
    /\ pending' = [pending EXCEPT ![t] = @ - 1]
    /\ work' = [work EXCEPT ![w] =
            [NoTask EXCEPT !.kind = "record", !.thing = t,
                         !.step = IF config[t].exists THEN "seen" ELSE "create"]]
    /\ UNCHANGED <<clock, name, status, config, def, alert, changes>>

EndTask(w) == work' = [work EXCEPT ![w] = NoTask]

\* The process dies or a database is out of reach; the task is not retried.
Abandon(w) ==
    /\ Change
    /\ work[w] # NoTask
    /\ EndTask(w)
    /\ UNCHANGED <<clock, name, status, config, def, alert, pending>>

\* A sweep goes on with the next sensor, or ends.
NextThing(w) ==
    work' = [work EXCEPT ![w] =
        IF work[w].todo = {} THEN NoTask
        ELSE [NoTask EXCEPT !.kind = "sweep", !.step = "pick", !.todo = work[w].todo,
                          !.now = work[w].now, !.expired = work[w].expired,
                          !.loaded = IF work[w].expired THEN @ ELSE work[w].loaded]]

\* The task is through with the alert: a record task ends, a sweep goes on to
\* the status of the thing.
AlertDone(w, committed) ==
    IF work[w].kind = "record" THEN EndTask(w)
    ELSE work' = [work EXCEPT ![w].step = "status", ![w].found = NoAlert,
                              ![w].expired = @ \/ committed]
-----------------------------------------------------------------------------
(* Record tasks.                                                           *)

\* Tracking depends on the ingest type.  thing_uuid is unique: a row inserted in
\* the meantime fails this commit, and the task with it.  So does a thing whose
\* project is not found.
CreateConfig(w) ==
    LET t == work[w].thing IN
    /\ Doing(w, "record", "create")
    /\ \/ /\ ~config[t].exists
          /\ \E b \in BOOLEAN :
                config' = [config EXCEPT ![t] = [NoConfig EXCEPT !.exists = TRUE, !.track = b]]
          /\ work' = [work EXCEPT ![w].step = "seen"]
          /\ UNCHANGED changes
       \/ /\ config[t].exists
          /\ EndTask(w)
          /\ UNCHANGED <<config, changes>>
       \/ /\ Change
          /\ EndTask(w)
          /\ UNCHANGED config
    /\ UNCHANGED <<clock, name, status, def, alert, pending>>

\* Mutant: the sighting is not committed.
RecordSeen_NoCommit(w) ==
    /\ Doing(w, "record", "seen")
    /\ work' = [work EXCEPT ![w].step = "def"]
    /\ UNCHANGED <<clock, name, status, config, def, alert, pending, changes>>

RecordSeen(w) ==
    /\ Doing(w, "record", "seen")
    /\ config' = [config EXCEPT ![work[w].thing].seen = clock]
    /\ work' = [work EXCEPT ![w].step = "def"]
    /\ UNCHANGED <<clock, name, status, def, alert, pending, changes>>

\* No definition, no alert to resolve.
FindDef(w) ==
    /\ Doing(w, "record", "def")
    /\ \/ NamedDefs = {} /\ EndTask(w)
       \/ \E d \in NamedDefs : work' = [work EXCEPT ![w].step = "name", ![w].def = d]
    /\ UNCHANGED <<clock, name, status, config, def, alert, pending, changes>>

-----------------------------------------------------------------------------
(* Sweeps.                                                                 *)

\* The next sensor, as it was loaded or, after a commit, as it is now.
PickThing(w) ==
    /\ Doing(w, "sweep", "pick")
    /\ \E t \in work[w].todo :
          LET c == IF work[w].expired THEN config[t] ELSE work[w].loaded[t] IN
          work' = [work EXCEPT ![w].step = "def", ![w].thing = t, ![w].todo = @ \ {t},
                               ![w].loaded[t] = NoConfig,
                               ![w].silent = Silent(c, work[w].now), ![w].last = c.seen]
    /\ UNCHANGED <<clock, name, status, config, def, alert, pending, changes>>

GetDef(w) ==
    /\ Doing(w, "sweep", "def")
    /\ \/ /\ NamedDefs = {}
          /\ work' = [work EXCEPT ![w].step = "mkdef"]
       \/ \E d \in NamedDefs : work' = [work EXCEPT ![w].step = "name", ![w].def = d]
    /\ UNCHANGED <<clock, name, status, config, def, alert, pending, changes>>

\* Nothing keeps a project from having two definitions of this name.  (For want
\* of an id in the model the insert fails, and the sweep with it.)
CreateDef(w) ==
    LET free == {d \in DefIds : def[d] = "absent" /\ \A v \in Workers : work[v].def # d} IN
    /\ Doing(w, "sweep", "mkdef")
    /\ \/ \E d \in free :
             /\ def' = [def EXCEPT ![d] = "named"]
             /\ work' = [work EXCEPT ![w].step = "name", ![w].def = d, ![w].expired = TRUE]
       \/ free = {} /\ EndTask(w) /\ UNCHANGED def
    /\ UNCHANGED <<clock, name, status, config, alert, pending, changes>>

-----------------------------------------------------------------------------
(* Both.                                                                   *)

GetName(w) ==
    /\ work[w].step = "name"
    /\ work' = [work EXCEPT ![w].step = "find", ![w].name = name[work[w].thing]]
    /\ UNCHANGED <<clock, name, status, config, def, alert, pending, changes>>

\* The lookup fails: the alert is left as it is.
NameUnknown(w) ==
    /\ Change
    /\ work[w].step = "name"
    /\ IF work[w].kind = "record" THEN EndTask(w) ELSE NextThing(w)
    /\ UNCHANGED <<clock, name, status, config, def, alert, pending>>

\* _ensure_alert_active and _resolve_alert look for the active alert.
FindAlert(w) ==
    LET found == Active(work[w].def, work[w].name) IN
    /\ work[w].step = "find"
    /\ \/ /\ work[w].silent /\ found = {}
          /\ work' = [work EXCEPT ![w].step = "insert"]
       \/ /\ ~work[w].silent
          /\ \E a \in found : work' = [work EXCEPT ![w].step = "resolve", ![w].found = a]
       \/ /\ work[w].silent <=> found # {}
          /\ AlertDone(w, FALSE)
    /\ UNCHANGED <<clock, name, status, config, def, alert, pending, changes>>

\* Mutant: the new row is not committed.
InsertAlert_NoCommit(w) ==
    /\ work[w].step = "insert"
    /\ AlertDone(w, TRUE)
    /\ UNCHANGED <<clock, name, status, config, def, alert, pending, changes>>

\* The foreign key refuses a definition deleted in the meantime; the session is
\* not rolled back and the sweep ends there.
InsertAlert(w) ==
    /\ work[w].step = "insert"
    /\ \/ /\ def[work[w].def] # "absent"
          /\ FreeIds # {}
          /\ alert' = [alert EXCEPT ![NewId] =
                [def |-> work[w].def, name |-> work[w].name, last |-> work[w].last,
                 status |-> "active"]]
          /\ AlertDone(w, TRUE)
       \/ /\ def[work[w].def] = "absent" \/ FreeIds = {}
          /\ EndTask(w)
          /\ UNCHANGED alert
    /\ UNCHANGED <<clock, name, status, config, def, pending, changes>>

\* Mutant: the resolution is lost.
ResolveAlert_NoCommit(w) ==
    /\ work[w].step = "resolve"
    /\ AlertDone(w, TRUE)
    /\ UNCHANGED <<clock, name, status, config, def, alert, pending, changes>>

\* UPDATE by primary key; a row deleted in the meantime fails the commit.
ResolveAlert(w) ==
    LET a == work[w].found IN
    /\ work[w].step = "resolve"
    /\ \/ /\ alert[a].status # "deleted"
          /\ alert' = [alert EXCEPT ![a] = Closed(@, "resolved")]
          /\ AlertDone(w, TRUE)
       \/ /\ alert[a].status = "deleted"
          /\ EndTask(w)
          /\ UNCHANGED alert
    /\ UNCHANGED <<clock, name, status, config, def, pending, changes>>

\* _update_frost_status, best effort: the thing's properties are written or not.
UpdateStatus(w) ==
    LET t == work[w].thing
        new == IF work[w].silent THEN "inactive" ELSE "active" IN
    /\ work[w].step = "status"
    /\ \/ status' = [status EXCEPT ![t] = new] /\ UNCHANGED changes
       \/ Change /\ UNCHANGED status
    /\ NextThing(w)
    /\ UNCHANGED <<clock, name, config, def, alert, pending>>
-----------------------------------------------------------------------------
(* Users.                                                                  *)

\* GET and PATCH of activity-config create the row when there is none.
update_activity_config(t) ==
    /\ "config" \in Edits /\ Change
    /\ \E b \in BOOLEAN, h \in Thresholds :
          config' = [config EXCEPT ![t] = [@ EXCEPT !.exists = TRUE, !.track = b, !.thr = h]]
    /\ UNCHANGED <<clock, name, status, def, alert, pending, work>>

\* The definition is a row like any other: it can be created, renamed, named so.
edit_alert_definition(d) ==
    /\ "definition" \in Edits /\ Change
    /\ def' = [def EXCEPT ![d] = IF @ = "named" THEN "renamed" ELSE "named"]
    /\ UNCHANGED <<clock, name, status, config, alert, pending, work>>

delete_alert_definition(d) ==
    /\ "delete" \in Edits /\ Change
    /\ def[d] # "absent"
    /\ def' = [def EXCEPT ![d] = "absent"]
    /\ alert' = [a \in AlertIds |->
            IF alert[a].def = d THEN Closed(alert[a], "deleted") ELSE alert[a]]
    /\ UNCHANGED <<clock, name, status, config, pending, work>>

acknowledge_alert(a) ==
    /\ "acknowledge" \in Edits /\ Change
    /\ alert[a].status \in {"active", "acknowledged", "resolved"}
    /\ alert' = [alert EXCEPT ![a] = Closed(@, "acknowledged")]
    /\ UNCHANGED <<clock, name, status, config, def, pending, work>>

rename_thing(t) ==
    /\ "rename" \in Edits /\ Change
    /\ \E n \in Names \ {name[t]} : name' = [name EXCEPT ![t] = n]
    /\ UNCHANGED <<clock, status, config, def, alert, pending, work>>

\* A QC run is asked for by a message on data_parsed, the topic of the sightings.
trigger_thing_qaqc(t) ==
    /\ "trigger" \in Edits /\ Change
    /\ Deliver(t)
    /\ UNCHANGED <<clock, name, status, config, def, alert, work>>

-----------------------------------------------------------------------------
Advance(w) ==
    \/ CreateConfig(w) \/ RecordSeen(w) \/ FindDef(w)
    \/ PickThing(w) \/ GetDef(w) \/ CreateDef(w)
    \/ GetName(w) \/ FindAlert(w) \/ InsertAlert(w) \/ ResolveAlert(w) \/ UpdateStatus(w)

ActivityNext ==
    \/ Tick
    \/ \E w \in Workers : \/ BeginSweep(w)
                          \/ \E t \in Things : BeginRecord(w, t)
                          \/ Advance(w)
                          \/ NameUnknown(w)
                          \/ Abandon(w)
    \/ \E t \in Things : \/ DataParsed(t)
                         \/ update_activity_config(t)
                         \/ rename_thing(t)
                         \/ trigger_thing_qaqc(t)
    \/ \E d \in DefIds : edit_alert_definition(d) \/ delete_alert_definition(d)
    \/ \E a \in AlertIds : acknowledge_alert(a)

ActivitySpec == ActivityInit /\ [][ActivityNext]_activityVars

\* A task that runs keeps running.  Beat keeps sending sweeps, and the queue is
\* first in, first out: sweeps and the record tasks of every sensor are taken
\* again and again, however busy the workers are.
Fairness ==
    /\ \A w \in Workers : WF_activityVars(Advance(w))
    /\ SF_activityVars(\E w \in Workers : BeginSweep(w))
    /\ \A t \in Things : SF_activityVars(\E w \in Workers : BeginRecord(w, t))

FairSpec == ActivitySpec /\ Fairness

-----------------------------------------------------------------------------
(* Properties.                                                             *)

Tracked(t) == config[t].exists /\ config[t].track

\* The alerts that are up for t under its present name.
Up(t) == UNION {Active(d, name[t]) : d \in NamedDefs}

\* What the tables say of each sensor's alarm, and of its silence.
SensorAlarm == [t \in Things |->
                  IF Up(t) = {} THEN "off"
                  ELSE IF \E a \in Up(t) : alert[a].last = config[t].seen THEN "on"
                  ELSE "stale"]
SensorQuiet == [t \in Things |-> config[t].exists /\ Silent(config[t], clock)]

\* With one worker, one name per sensor and one threshold, the tasks implement
\* the alarm that tracking promises: raised only while the sensor is silent,
\* reporting its latest sighting, and cleared by tasks only after a later one.
Alarms == INSTANCE InactivityAlarm WITH
    alarm <- SensorAlarm, quiet <- SensorQuiet, requests <- changes

ImplementsAlarm == Alarms!Spec

\* A tracked sensor that stays silent ends up with an active alert and the status
\* "inactive", whatever older tasks still do.  (Provided that its name is its own,
\* and, ids being a bound of the model, that there is one for the next row.)
OwnName(t) == \A u \in Things \ {t} : name[u] # name[t]

SilenceIsReported ==
    \A t \in Things :
        /\ <>[](Tracked(t) /\ Silent(config[t], clock) /\ OwnName(t))
        /\ <>[](FreeIds # {} /\ \E d \in DefIds : def[d] # "renamed")
        => <>[](Up(t) # {} /\ status[t] = "inactive")

\* A tracked sensor that stays within its threshold ends up with no active alert
\* under its name and the status "active", an alert that a sweep raised too late
\* included.  Only one definition may have the name: the tasks look at one.
ReturnIsNoticed ==
    \A t \in Things :
        /\ <>[](Tracked(t) /\ ~Silent(config[t], clock) /\ OwnName(t))
        /\ <>[](Cardinality(NamedDefs) = 1)
        => <>[](Up(t) = {} /\ status[t] = "active")
=============================================================================
