------------------------------ MODULE ScriptJobs ------------------------------
(***************************************************************************)
(* Computation scripts and their jobs: api/v1/endpoints/computations.py,    *)
(* tasks/computation_tasks.py and the tables of models/computations.py.     *)
(*                                                                         *)
(* A script is a row and a file, a job a row and a Celery task; nothing     *)
(* writes both of a pair at once.  A handler has no await after its         *)
(* dependencies, so that each API process is at one request at a time, but  *)
(* several processes may serve.  The rights a request needs are the subject *)
(* of ProjectAccess; a script's text is abstracted to the presence of its   *)
(* file.                                                                   *)
(***************************************************************************)
EXTENDS Integers

CONSTANTS
    Processes,  \* of the API
    Runners,    \* processes of the Celery worker
    Scripts,
    Jobs,       \* job rows and tasks, under the one id that Celery draws
    MaxCrashes  \* how often an API process dies within a request

None == "none"

ASSUME ScriptsAssumption == None \notin Scripts
ASSUME JobsAssumption    == None \notin Jobs
ASSUME CrashesAssumption == MaxCrashes \in Nat

VARIABLES
    script,   \* script[s]: the state of its row
    files,    \* the scripts whose file exists
    job,      \* job[j]: the row
    task,     \* task[j]: what broker, worker and result backend know
    request,  \* request[p]: the request that process p is at
    runner,   \* runner[r]: the task that it runs and how far it is
    crashes

vars == <<script, files, job, task, request, runner, crashes>>

-----------------------------------------------------------------------------
(* Rows, tasks, requests.                                                  *)

Ended    == {"SUCCESS", "FAILURE"}
Contents == {None, "result", "error"}

JobRow == [status : {None, "PENDING", "deleted"} \cup Ended,
           script : Scripts \cup {None}, content : Contents]
Task   == [state : {"unused", "queued", "running", "ready", "lost", "expired"},
           script : Scripts \cup {None}, status : {"PENDING"} \cup Ended, content : Contents]

\* locked: rows that the open transaction has deleted; found: what AsyncResult said of
\* the jobs to be updated.
Request == [step   : {"idle", "saved", "checked", "sent", "purged", "removed", "editing", "synced"},
            script : Scripts \cup {None},
            job    : Jobs \cup {None},
            locked : SUBSET Jobs,
            found  : SUBSET [job : Jobs, status : {"PENDING"} \cup Ended, content : Contents]]

Idle == [step |-> "idle", script |-> None, job |-> None, locked |-> {}, found |-> {}]
At(step, s) == [Idle EXCEPT !.step = step, !.script = s]

Live(j)   == job[j].status \notin {None, "deleted"}
JobsOf(s) == {j \in Jobs : Live(j) /\ job[j].script = s}

\* Rows that a delete of another process has locked; whoever writes them waits.
LockedBy(others) == UNION {request[p].locked : p \in others}

Finish(p) == request' = [request EXCEPT ![p] = Idle]

Init ==
    /\ script = [s \in Scripts |-> None]
    /\ files = {}
    /\ job = [j \in Jobs |-> [status |-> None, script |-> None, content |-> None]]
    /\ task = [j \in Jobs |-> [state |-> "unused", script |-> None,
                               status |-> "PENDING", content |-> None]]
    /\ request = [p \in Processes |-> Idle]
    /\ runner = [r \in Runners |-> [task |-> None, loaded |-> FALSE]]
    /\ crashes = 0

-----------------------------------------------------------------------------
(* Upload, update, delete.                                                 *)

SaveFile(p, s) ==
    /\ request[p] = Idle /\ script[s] = None
    /\ \A q \in Processes : request[q].script # s
    /\ files' = files \cup {s}
    /\ request' = [request EXCEPT ![p] = At("saved", s)]
    /\ UNCHANGED <<script, job, task, runner, crashes>>

\* The project may be gone by now, then the row is refused and the file stays.
InsertScript(p) ==
    /\ request[p].step = "saved"
    /\ \E state \in {"present", "dropped"} : script' = [script EXCEPT ![request[p].script] = state]
    /\ Finish(p)
    /\ UNCHANGED <<files, job, task, runner, crashes>>

FindToEdit(p, s) ==
    /\ request[p] = Idle /\ script[s] = "present"
    /\ request' = [request EXCEPT ![p] = At("editing", s)]
    /\ UNCHANGED <<script, files, job, task, runner, crashes>>

\* open(.., "w") creates the file if it is not there.
WriteContent(p) ==
    /\ request[p].step = "editing"
    /\ files' = files \cup {request[p].script}
    /\ Finish(p)
    /\ UNCHANGED <<script, job, task, runner, crashes>>

\* Mutant: the jobs' deletion is committed by itself.
DeleteJobs_Committed(p, s) ==
    /\ request[p] = Idle /\ script[s] = "present"
    /\ JobsOf(s) \cap LockedBy(Processes) = {}
    /\ job' = [j \in Jobs |-> IF j \in JobsOf(s) THEN [job[j] EXCEPT !.status = "deleted"]
                              ELSE job[j]]
    /\ request' = [request EXCEPT ![p] = At("purged", s)]
    /\ UNCHANGED <<script, files, task, runner, crashes>>

\* The jobs go first, in a transaction that stays open.  A script that goes between the
\* lookup and this leaves nothing to do, as when it goes right after.
DeleteJobs(p, s) ==
    /\ request[p] = Idle /\ script[s] = "present"
    /\ JobsOf(s) \cap LockedBy(Processes) = {}
    /\ request' = [request EXCEPT ![p] = [At("purged", s) EXCEPT !.locked = JobsOf(s)]]
    /\ UNCHANGED <<script, files, job, task, runner, crashes>>

RemoveFile(p) ==
    /\ request[p].step = "purged"
    /\ files' = files \ {request[p].script}
    /\ request' = [request EXCEPT ![p].step = "removed"]
    /\ UNCHANGED <<script, job, task, runner, crashes>>

\* Mutant: no commit at the end.
DeleteScript_NoCommit(p) ==
    /\ request[p].step = "removed"
    /\ Finish(p)
    /\ UNCHANGED <<script, files, job, task, runner, crashes>>

\* The ORM sets the script of the jobs it still finds, those inserted meanwhile, to
\* NULL, which the column refuses: then the transaction is rolled back, without the file.
DeleteScript(p) ==
    LET s == request[p].script IN
    /\ request[p].step = "removed"
    /\ IF JobsOf(s) \subseteq request[p].locked
       THEN /\ script' = [script EXCEPT ![s] = IF @ = "present" THEN "deleted" ELSE @]
            /\ job' = [j \in Jobs |-> IF j \in JobsOf(s) THEN [job[j] EXCEPT !.status = "deleted"]
                                      ELSE job[j]]
       ELSE UNCHANGED <<script, job>>
    /\ Finish(p)
    /\ UNCHANGED <<files, task, runner, crashes>>

\* delete_project: the foreign keys cascade to scripts and jobs; the files stay.
DropProject(s) ==
    /\ script[s] = "present"
    /\ JobsOf(s) \cap LockedBy(Processes) = {}
    /\ script' = [script EXCEPT ![s] = "dropped"]
    /\ job' = [j \in Jobs |-> IF j \in JobsOf(s) THEN [job[j] EXCEPT !.status = "deleted"]
                              ELSE job[j]]
    /\ UNCHANGED <<files, task, request, runner, crashes>>

-----------------------------------------------------------------------------
(* Running a script.                                                       *)

\* The id is Celery's, drawn here so that ids do not run out within a request.
FindToRun(p, s) ==
    /\ request[p] = Idle /\ script[s] = "present"
    /\ \E j \in Jobs :
          /\ task[j].state = "unused" /\ \A q \in Processes : request[q].job # j
          /\ request' = [request EXCEPT ![p] = [At("checked", s) EXCEPT !.job = j]]
    /\ UNCHANGED <<script, files, job, task, runner, crashes>>

\* The task is sent before its row is written; without the file the answer is 404.
SendTask(p) ==
    LET s == request[p].script IN
    /\ request[p].step = "checked"
    /\ IF s \in files
       THEN /\ task' = [task EXCEPT ![request[p].job] = [@ EXCEPT !.state = "queued", !.script = s]]
            /\ request' = [request EXCEPT ![p].step = "sent"]
       ELSE Finish(p) /\ UNCHANGED task
    /\ UNCHANGED <<script, files, job, runner, crashes>>

\* Mutant: the column has no foreign key.
InsertJob_NoForeignKey(p) ==
    /\ request[p].step = "sent"
    /\ job' = [job EXCEPT ![request[p].job] =
                  [status |-> "PENDING", script |-> request[p].script, content |-> None]]
    /\ Finish(p)
    /\ UNCHANGED <<script, files, task, runner, crashes>>

\* The foreign key refuses the row if the script is gone; the task runs all the same.
InsertJob(p) ==
    LET s == request[p].script IN
    /\ request[p].step = "sent"
    /\ IF script[s] = "present"
       THEN job' = [job EXCEPT ![request[p].job] =
                       [status |-> "PENDING", script |-> s, content |-> None]]
       ELSE UNCHANGED job
    /\ Finish(p)
    /\ UNCHANGED <<script, files, task, runner, crashes>>

-----------------------------------------------------------------------------
(* list_script_jobs and get_computation_status bring rows up to date.       *)

Answer(j) == [job |-> j, status |-> task[j].status, content |-> task[j].content]

Outdated(s) == {j \in JobsOf(s) : job[j].status = "PENDING" /\ task[j].state = "ready"}

\* Mutant: a result that is not there yet counts, too.
ReadResults_NotReady(p, s) ==
    /\ request[p] = Idle /\ script[s] = "present"
    /\ \E js \in {JobsOf(s)} \cup {{j} : j \in JobsOf(s)} :
          /\ js # {}
          /\ request' = [request EXCEPT ![p] =
                [At("synced", s) EXCEPT !.found =
                    {Answer(j) : j \in {k \in js : job[k].status = "PENDING"}}]]
    /\ UNCHANGED <<script, files, job, task, runner, crashes>>

\* The list takes all jobs of a script (its 50 newest), the status request one.
ReadResults(p, s) ==
    /\ request[p] = Idle /\ script[s] = "present"
    /\ \E js \in {Outdated(s)} \cup {{j} : j \in Outdated(s)} :
          /\ js # {}
          /\ request' = [request EXCEPT ![p] =
                            [At("synced", s) EXCEPT !.found = {Answer(j) : j \in js}]]
    /\ UNCHANGED <<script, files, job, task, runner, crashes>>

\* Mutant: the rows are not committed.
RecordResults_NoCommit(p) ==
    /\ request[p].step = "synced"
    /\ Finish(p)
    /\ UNCHANGED <<script, files, job, task, runner, crashes>>

\* One commit for all: a row that is gone fails the others, too.
RecordResults(p) ==
    LET found == request[p].found IN
    /\ request[p].step = "synced"
    /\ \A f \in found : f.job \notin LockedBy(Processes)
    /\ IF \A f \in found : Live(f.job)
       THEN job' = [j \in Jobs |->
                       IF \E f \in found : f.job = j
                       THEN LET f == CHOOSE g \in found : g.job = j
                            IN  [job[j] EXCEPT !.status = f.status, !.content = f.content]
                       ELSE job[j]]
       ELSE UNCHANGED job
    /\ Finish(p)
    /\ UNCHANGED <<script, files, task, runner, crashes>>

\* A process dies, an open transaction is rolled back.
Crash(p) ==
    /\ request[p] # Idle /\ crashes < MaxCrashes
    /\ Finish(p)
    /\ crashes' = crashes + 1
    /\ UNCHANGED <<script, files, job, task, runner>>

-----------------------------------------------------------------------------
(* run_computation_task in the worker, and Celery around it.                *)

Free == [task |-> None, loaded |-> FALSE]

\* Celery acknowledges a task when it starts: a lost one is not run again.
Take(r, j) ==
    /\ runner[r] = Free /\ task[j].state = "queued"
    /\ runner' = [runner EXCEPT ![r].task = j]
    /\ task' = [task EXCEPT ![j].state = "running"]
    /\ UNCHANGED <<script, files, job, request, crashes>>

Store(r, status, content) ==
    /\ task' = [task EXCEPT ![runner[r].task] =
                   [@ EXCEPT !.state = "ready", !.status = status, !.content = content]]
    /\ runner' = [runner EXCEPT ![r] = Free]
    /\ UNCHANGED <<script, files, job, request, crashes>>

Load(r) ==
    /\ runner[r].task # None /\ ~runner[r].loaded
    /\ task[runner[r].task].script \in files
    /\ runner' = [runner EXCEPT ![r].loaded = TRUE]
    /\ UNCHANGED <<script, files, job, task, request, crashes>>

\* {"error": ...} is returned for a file that is missing or does not load, and is a
\* SUCCESS for Celery.
LoadFails(r) ==
    /\ runner[r].task # None /\ ~runner[r].loaded
    /\ Store(r, "SUCCESS", "error")

\* ComputationContext needs the script's row, then the script runs; what it raises is
\* returned as an error, what Celery cannot store, or a child that dies, is a FAILURE.
Run(r) ==
    /\ runner[r].loaded
    /\ \/ Store(r, "SUCCESS", "error")
       \/ Store(r, "FAILURE", "error")
       \/ script[task[runner[r].task].script] = "present" /\ Store(r, "SUCCESS", "result")

\* The worker as a whole goes down.
LoseTask(r) ==
    /\ runner[r].task # None
    /\ task' = [task EXCEPT ![runner[r].task].state = "lost"]
    /\ runner' = [runner EXCEPT ![r] = Free]
    /\ UNCHANGED <<script, files, job, request, crashes>>

\* The backend drops a result after a day; AsyncResult says PENDING again.
Expire(j) ==
    /\ task[j].state = "ready"
    /\ task' = [task EXCEPT ![j] = [@ EXCEPT !.state = "expired", !.status = "PENDING",
                                             !.content = None]]
    /\ UNCHANGED <<script, files, job, request, runner, crashes>>

-----------------------------------------------------------------------------
Continue(p) ==
    \/ InsertScript(p) \/ WriteContent(p) \/ RemoveFile(p) \/ DeleteScript(p)
    \/ SendTask(p) \/ InsertJob(p) \/ RecordResults(p)

Start(p) ==
    \E s \in Scripts :
        SaveFile(p, s) \/ FindToEdit(p, s) \/ DeleteJobs(p, s) \/ FindToRun(p, s)
        \/ ReadResults(p, s)

RunStep(r) == (\E j \in Jobs : Take(r, j)) \/ Load(r) \/ LoadFails(r) \/ Run(r)

Next ==
    \/ \E p \in Processes : Start(p) \/ Continue(p) \/ Crash(p)
    \/ \E s \in Scripts : DropProject(s)
    \/ \E r \in Runners : RunStep(r) \/ LoseTask(r)
    \/ \E j \in Jobs : Expire(j)

Spec == Init /\ [][Next]_vars

\* A handler that began goes on, and a row lock is granted in turn; the worker serves its
\* queue; and the page of the script's jobs stays open, asking every five seconds.
Fairness ==
    /\ \A p \in Processes : SF_vars(Continue(p))
    /\ \A r \in Runners : WF_vars(RunStep(r))
    /\ \A s \in Scripts : SF_vars(\E p \in Processes : ReadResults(p, s))

FairSpec == Spec /\ Fairness

-----------------------------------------------------------------------------
(* Properties.                                                             *)

\* Every row, task, request and runner has the form that the code gives it.
TypeOK ==
    /\ script \in [Scripts -> {None, "present", "deleted", "dropped"}]
    /\ files \subseteq Scripts
    /\ job \in [Jobs -> JobRow]
    /\ task \in [Jobs -> Task]
    /\ request \in [Processes -> Request]
    /\ runner \in [Runners -> [task : Jobs \cup {None}, loaded : BOOLEAN]]
    /\ crashes \in 0 .. MaxCrashes

\* A job in the list belongs to a script that exists, also when the script is deleted
\* while its run is being submitted.
JobsHaveScripts ==
    \A j \in Jobs : Live(j) => job[j].script = task[j].script
                            /\ script[job[j].script] = "present"

\* What was sent to the worker is in the list of jobs, or about to be, unless its
\* script is gone or a process died between the two.
RunsAreRecorded ==
    \A j \in Jobs :
        task[j].state # "unused" /\ script[task[j].script] = "present" /\ crashes = 0 =>
            Live(j) \/ \E p \in Processes : request[p].step = "sent" /\ request[p].job = j

\* A listed script without its file is one that is being deleted, or whose deletion
\* failed over a run submitted at the same time, or over the death of the process.
FilelessScriptWasRun ==
    \A s \in Scripts :
        script[s] = "present" /\ s \notin files /\ crashes = 0 =>
            \/ \E p \in Processes : request[p].step = "removed" /\ request[p].script = s
            \/ JobsOf(s) # {}

\* The end of a job is recorded once: no later request, nor one that read the row
\* before, changes it.
EndIsFinal ==
    [][\A j \in Jobs : job[j].status \in Ended =>
           job'[j] = job[j] \/ job'[j].status = "deleted"]_vars

\* What JobLife speaks of: which scripts are there, what was sent, what the rows show, and
\* what a job came to, which the result backend knows and, when that has dropped it, the
\* requests that have read it.
Standing == [s \in Scripts |-> IF script[s] = None THEN "new"
                               ELSE IF script[s] = "present" THEN "listed" ELSE "gone"]
Sent == [j \in Jobs |-> task[j].script]
Page == [j \in Jobs |-> [status |-> job[j].status, content |-> job[j].content]]

Known(j)  == {f \in UNION {request[p].found : p \in Processes} : f.job = j}
Ending(x) == [status |-> x.status, content |-> x.content]
Any(xs)   == CHOOSE x \in xs : TRUE

OutcomeOf(j) ==
    CASE task[j].state = "ready" -> Ending(task[j])
      [] task[j].state \in {"unused", "queued", "running"} -> [status |-> None, content |-> None]
      [] Known(j) # {} /\ task[j].state \in {"lost", "expired"} -> Ending(Any(Known(j)))
      [] OTHER -> [status |-> "UNKNOWN", content |-> None]
Outcome == [j \in Jobs |-> OutcomeOf(j)]

Life == INSTANCE JobLife WITH
    listed <- Standing, run <- Sent, outcome <- Outcome, page <- Page

\* Whatever requests, deletions, deaths and expiring results do, the page shows what
\* JobLife promises.
ImplementsJobLife == Life!Spec

\* A job that is watched leaves PENDING, unless its worker went down or its result
\* expired before it was fetched.
WatchedJobsEnd ==
    \A j \in Jobs : job[j].status = "PENDING" ~>
        job[j].status # "PENDING" \/ task[j].state \in {"lost", "expired"}
=============================================================================
