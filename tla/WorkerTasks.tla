----------------------------- MODULE WorkerTasks -----------------------------
(***************************************************************************)
(* Two kinds of work of the Celery worker that no other module has: the    *)
(* simulation step, which beat sends every ten seconds                     *)
(* (tasks/simulation_tasks.py), and the import of an uploaded file         *)
(* (tasks/import_tasks.py); with the requests that give them something to  *)
(* do, of endpoints/simulator.py and endpoints/bulk.py.                    *)
(*                                                                         *)
(* Time is kept as ages: how long ago something was, up to MaxAge.         *)
(***************************************************************************)
EXTENDS Integers, FiniteSetsExt, Functions

CONSTANTS
    Workers,  \* worker processes
    Sims,     \* simulated things
    Imports,  \* uploads, of GeoJSON and of time series alike
    Configs,  \* configurations of a simulation, [shape, intervals]
    Default,  \* the interval when the configuration has none, 60 s
    MaxAge    \* at which ages stop

ASSUME AgeAssumption == Default \in Nat \ {0} /\ MaxAge \in Nat /\ MaxAge >= Default

\* Of the intervals of a configuration, if it has any, one is the shortest.
ASSUME ConfigsAssumption ==
    /\ Configs # {}
    /\ \A c \in Configs :
          /\ c.intervals \subseteq Int
          /\ c.intervals # {} => \E m \in c.intervals : \A n \in c.intervals : m <= n

VARIABLES
    sim,       \* sim[s]: the row of simulations for s
    things,    \* simulated things in the TSM's ConfigDB
    step,      \* step[w]: the simulation step that w is at
    upload,    \* upload[i]: how far file i is, its request first and then its task
    tempFiles, \* files in temp_imports
    latest,    \* latest[s]: age of the latest step that published s (a note for Paced)
    disturbed  \* simulations whose steps overlapped, or were not committed (for Paced)

simVars    == <<sim, things, latest, disturbed>>
importVars == <<upload, tempFiles>>
tasksVars  == <<simVars, step, importVars>>

Never == MaxAge + 1
Older(age) == IF age < MaxAge THEN age + 1 ELSE age

\* The shortest interval of the datastreams, one second at least; what they say is
\* truncated, so that it may be 0.
Interval(c) == IF c.intervals = {} THEN Default ELSE Max({1, Min(c.intervals)})

Row  == [state : {"absent", "present", "deleted"}, enabled : BOOLEAN, config : Configs,
         last : 0 .. Never]

NoRow == [state |-> "absent", enabled |-> FALSE, config |-> CHOOSE c \in Configs : TRUE,
          last |-> Never]
Present == {s \in Sims : sim[s].state = "present"}

\* hand: the loaded simulations that are still to be dealt with, and their configurations' shapes.
Empty  == [s \in {} |-> {}]
NoStep == [phase |-> "idle", age |-> 0, hand |-> Empty, done |-> {}]
SimulationStep ==
    [phase : {"idle", "loaded", "publishing", "importing"}, age : 0 .. MaxAge,
     hand : UNION {[S -> {c.shape : c \in Configs}] : S \in SUBSET Sims}, done : SUBSET Sims]

Held(w) == DOMAIN step[w].hand \cup step[w].done

TasksInit ==
    /\ sim = [s \in Sims |-> NoRow]
    /\ things = {}
    /\ step = [w \in Workers |-> NoStep]
    /\ upload = [i \in Imports |-> "none"]
    /\ tempFiles = {}
    /\ latest = [s \in Sims |-> Never]
    /\ disturbed = {}

TasksTypeOK ==
    /\ sim \in [Sims -> Row]
    /\ things \subseteq Sims
    /\ step \in [Workers -> SimulationStep]
    /\ upload \in [Imports -> {"none", "writing", "queued", "running", "ended", "lost"}]
    /\ tempFiles \subseteq Imports
    /\ latest \in [Sims -> 0 .. Never]
    /\ disturbed \subseteq Sims

-----------------------------------------------------------------------------
(* Requests of the simulator's pages.                                      *)

\* Mutant: what has never run has no interval to wait for, and waits.
Due_AfterFirst(s) ==
    /\ sim[s].state = "present" /\ sim[s].enabled
    /\ sim[s].last \in Interval(sim[s].config) .. MaxAge

\* Of the enabled ones, those whose interval is over, and those which never ran.
Due(s) ==
    /\ sim[s].state = "present" /\ sim[s].enabled
    /\ sim[s].last >= Interval(sim[s].config)

\* The thing is there when the row is written (SensorProvisioning has the steps).
create_simulated_thing(s) ==
    /\ sim[s].state = "absent"
    /\ \E c \in Configs :
         sim' = [sim EXCEPT ![s] = [state |-> "present", enabled |-> TRUE, config |-> c,
                                       last |-> Never]]
    /\ things' = things \cup {s}
    /\ UNCHANGED <<latest, disturbed, step, importVars>>

\* A dictionary with entries fails when its interval is asked for, and an empty one is stored.
update_simulation_config(s) ==
    /\ sim[s].state = "present"
    /\ \E c \in Configs, on \in BOOLEAN :
         sim' = [sim EXCEPT ![s].config = c, ![s].enabled = on]
    /\ UNCHANGED <<things, latest, disturbed, step, importVars>>

\* start_simulation and stop_simulation look for keys, "uuid" and "id", that the list of the
\* simulations does not have: without a simulation they answer 404, and 500 with one.
start_or_stop_simulation == UNCHANGED tasksVars

delete_simulated_thing(s) ==
    /\ s \in Present
    /\ sim' = [sim EXCEPT ![s] = [NoRow EXCEPT !.state = "deleted"]]
    /\ latest' = [latest EXCEPT ![s] = Never]
    /\ disturbed' = disturbed \ {s}
    /\ UNCHANGED <<things, step, importVars>>

\* By that request's second half or by another.
ThingDeleted(s) ==
    /\ s \in things
    /\ things' = things \ {s}
    /\ UNCHANGED <<sim, latest, disturbed, step, importVars>>

-----------------------------------------------------------------------------
(* run_simulation_step().                                                  *)

\* What is noted for Paced of those that it no longer speaks of.
Disturb(S) ==
    /\ disturbed' = disturbed \cup (S \cap Present)
    /\ latest' = [s \in Sims |-> IF s \in disturbed' THEN Never ELSE latest[s]]

IsFree(w) == step[w].phase = "idle"

\* Beat sends a step every ten seconds, and there may always be one that waits.  The rows are
\* loaded and the time is taken, once for all of the step.
BeginStep(w) ==
    LET due == {s \in Sims : Due(s)} IN
    /\ IsFree(w) /\ due # {}
    /\ step' = [step EXCEPT ![w] = [NoStep EXCEPT !.phase = "loaded",
                                                !.hand = [s \in due |-> sim[s].config.shape]]]
    /\ Disturb({s \in due : \E v \in Workers : s \in Held(v)})
    /\ UNCHANGED <<sim, things, importVars>>

\* Things that the ConfigDB does not have are passed over.
Connect(w) ==
    /\ step[w].phase = "loaded"
    /\ step' = [step EXCEPT ![w].phase = "publishing",
                            ![w].hand = Restrict(@, DOMAIN @ \cap things)]
    /\ UNCHANGED <<simVars, importVars>>

\* Without the broker the step ends; an error of the ConfigDB leaves nothing to publish.
ConnectFails(w) ==
    /\ step[w].phase = "loaded"
    /\ \/ step' = [step EXCEPT ![w] = NoStep]
       \/ step' = [step EXCEPT ![w].phase = "publishing", ![w].hand = Empty]
    /\ UNCHANGED <<simVars, importVars>>

\* process_single_simulation, and the time of the step for the row.  Of the others, a dictionary
\* gives nothing to publish, and a list that raises not even the time.
Publish(w, s) ==
    /\ step[w].phase = "publishing" /\ s \in DOMAIN step[w].hand
    /\ LET shape == step[w].hand[s] IN
       /\ \E raises \in {FALSE, shape # "list"} :
            step' = [step EXCEPT ![w].hand = Restrict(@, DOMAIN @ \ {s}),
                                 ![w].done = IF raises THEN @ ELSE @ \cup {s}]
       /\ latest' = IF shape = "list" /\ s \in Present \ disturbed
                    THEN [latest EXCEPT ![s] = Min({@, step[w].age})] ELSE latest
    /\ UNCHANGED <<sim, things, disturbed, importVars>>

\* One transaction.  If one of the rows has gone, none is written.
\* Mutant: the session is closed without one.
Commit_None(w) ==
    /\ step[w].phase = "publishing" /\ DOMAIN step[w].hand = {}
    /\ step' = [step EXCEPT ![w] = NoStep]
    /\ UNCHANGED <<simVars, importVars>>

Commit(w) ==
    /\ step[w].phase = "publishing" /\ DOMAIN step[w].hand = {}
    /\ IF step[w].done \subseteq Present
       THEN /\ sim' = [s \in Sims |->
                         IF s \in step[w].done THEN [sim[s] EXCEPT !.last = step[w].age] ELSE sim[s]]
            /\ UNCHANGED <<latest, disturbed>>
       ELSE /\ Disturb(step[w].done)
            /\ UNCHANGED sim
    /\ step' = [step EXCEPT ![w] = NoStep]
    /\ UNCHANGED <<things, importVars>>

CommitFails(w) ==
    /\ step[w].phase = "publishing" /\ DOMAIN step[w].hand = {}
    /\ Disturb(step[w].done)
    /\ step' = [step EXCEPT ![w] = NoStep]
    /\ UNCHANGED <<sim, things, importVars>>

-----------------------------------------------------------------------------
(* Imports.                                                                *)

\* The file is written piece by piece.
BeginUpload(i) ==
    /\ upload[i] = "none"
    /\ upload' = [upload EXCEPT ![i] = "writing"]
    /\ tempFiles' = tempFiles \cup {i}
    /\ UNCHANGED <<simVars, step>>

\* Beyond 200 MB, or when a piece cannot be read or written.
RefuseUpload(i) ==
    /\ upload[i] = "writing"
    /\ upload' = [upload EXCEPT ![i] = "ended"]
    /\ tempFiles' = tempFiles \ {i}
    /\ UNCHANGED <<simVars, step>>

\* A delay() that fails may have sent the task all the same.
Submit(i) ==
    /\ upload[i] = "writing"
    /\ upload' = [upload EXCEPT ![i] = "queued"]
    /\ \E failed \in BOOLEAN : tempFiles' = IF failed THEN tempFiles \ {i} ELSE tempFiles
    /\ UNCHANGED <<simVars, step>>

TakeImport(w, i) ==
    /\ IsFree(w) /\ upload[i] = "queued"
    /\ step' = [step EXCEPT ![w].phase = "importing"]
    /\ upload' = [upload EXCEPT ![i] = "running"]
    /\ UNCHANGED <<simVars, tempFiles>>

\* import_geojson_task, as import_timeseries_task: a missing file is an error.  With one or
\* without, or when something raises in between, the file is removed in the end.
\* Mutant: not when something raises.
EndImport_Kept(w, i) ==
    /\ step[w].phase = "importing" /\ upload[i] = "running"
    /\ step' = [step EXCEPT ![w] = NoStep]
    /\ upload' = [upload EXCEPT ![i] = "ended"]
    /\ \E removed \in BOOLEAN : tempFiles' = IF removed THEN tempFiles \ {i} ELSE tempFiles
    /\ UNCHANGED simVars

EndImport(w, i) ==
    /\ step[w].phase = "importing" /\ upload[i] = "running"
    /\ step' = [step EXCEPT ![w] = NoStep]
    /\ upload' = [upload EXCEPT ![i] = "ended"]
    /\ tempFiles' = tempFiles \ {i}
    /\ UNCHANGED simVars

-----------------------------------------------------------------------------
(* Time and failures.                                                      *)

Tick ==
    /\ sim' = [s \in Sims |-> [sim[s] EXCEPT !.last = Older(@)]]
    /\ step' = [w \in Workers |-> IF step[w].phase \in {"loaded", "publishing"}
                                  THEN [step[w] EXCEPT !.age = Older(@)] ELSE step[w]]
    /\ latest' = [s \in Sims |-> Older(latest[s])]
    /\ UNCHANGED <<things, disturbed, importVars>>

\* A worker process dies; its task, acknowledged when it began, does not come again.
LoseWorker(w) ==
    /\ ~IsFree(w)
    /\ step' = [step EXCEPT ![w] = NoStep]
    /\ Disturb(step[w].done)
    /\ IF step[w].phase = "importing"
       THEN \E i \in Imports : upload[i] = "running" /\ upload' = [upload EXCEPT ![i] = "lost"]
       ELSE UNCHANGED upload
    /\ UNCHANGED <<sim, things, tempFiles>>

\* The API's process dies with an upload, or the queue loses its task.
LoseImport(i) ==
    /\ upload[i] \in {"writing", "queued"}
    /\ upload' = [upload EXCEPT ![i] = "lost"]
    /\ UNCHANGED <<simVars, step, tempFiles>>

TasksNext ==
    \/ Tick \/ start_or_stop_simulation
    \/ \E s \in Sims : create_simulated_thing(s) \/ update_simulation_config(s)
                       \/ delete_simulated_thing(s) \/ ThingDeleted(s)
    \/ \E w \in Workers : \/ BeginStep(w) \/ Connect(w) \/ ConnectFails(w) \/ Commit(w) \/ CommitFails(w)
                          \/ LoseWorker(w)
                          \/ \E s \in Sims : Publish(w, s)
                          \/ \E i \in Imports : TakeImport(w, i) \/ EndImport(w, i)
    \/ \E i \in Imports : BeginUpload(i) \/ RefuseUpload(i) \/ Submit(i) \/ LoseImport(i)

TasksSpec == TasksInit /\ [][TasksNext]_tasksVars

\* Time passes, beat keeps sending, and the queue is first in, first out: steps and imports
\* are taken again and again.  Tasks and requests go on.  Processes that die and services that
\* fail do not single out one simulation.
TasksFairness ==
    /\ WF_tasksVars(Tick)
    /\ SF_tasksVars(\E w \in Workers : BeginStep(w))
    /\ \A w \in Workers : WF_tasksVars(Connect(w) \/ ConnectFails(w)) /\ WF_tasksVars(Commit(w) \/ CommitFails(w))
    /\ \A s \in Sims : /\ SF_tasksVars(\E w \in Workers : s \in DOMAIN step[w].hand /\ Connect(w))
                       /\ SF_tasksVars(\E w \in Workers : Publish(w, s))
    /\ \A i \in Imports : /\ WF_tasksVars(RefuseUpload(i) \/ Submit(i))
                          /\ SF_tasksVars(\E w \in Workers : TakeImport(w, i))
                          /\ WF_tasksVars(\E w \in Workers : EndImport(w, i))

FairTasks == TasksSpec /\ TasksFairness

-----------------------------------------------------------------------------
(* Properties.                                                             *)

\* A simulation is taken up again only when its interval has passed since the last step that
\* published it, unless steps of it have overlapped or one was not committed: what was
\* published is what the rows say.
Paced ==
    [][\A w \in Workers : \A s \in (Held(w)' \ Held(w)) \ disturbed' :
          latest[s] >= Interval(sim[s].config)]_tasksVars

\* An enabled simulation with its thing and a list that can be worked off is published again
\* and again, whatever becomes of the others in the same step.
Healthy(s) ==
    /\ sim[s].state = "present" /\ sim[s].enabled /\ sim[s].config.shape = "list"
    /\ s \in things

Published(s) == \E w \in Workers : Publish(w, s) /\ step[w].hand[s] = "list"

KeepsPublishing == \A s \in Sims : <>[]Healthy(s) => []<><<Published(s)>>_tasksVars

\* An uploaded file does not stay in temp_imports, whether its upload is refused, cannot be
\* handed over, or its import fails; only a process that dies, or a lost task, leaves it there.
FilesGoAway == \A i \in Imports : i \in tempFiles ~> (i \notin tempFiles \/ upload[i] = "lost")
=============================================================================
