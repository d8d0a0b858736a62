----------------------------- MODULE TaskProofs -----------------------------
(***************************************************************************)
(* The work of the Celery worker.                                           *)
(*                                                                         *)
(* ScriptJobs, for any number of API processes, worker processes, scripts   *)
(* and jobs: jobs have scripts, runs have jobs, files are missed for one    *)
(* reason only, and the end of a job is final; every step is one of         *)
(* JobLife's or none.  All of it rests on what a request may rely on        *)
(* between its lookup and its write (Sound, RequestsApart): ids are its     *)
(* own, a row that it has seen was there, and a result that it has read is  *)
(* the only one there is.                                                  *)
(*                                                                         *)
(* WorkerTasks, for any number of worker processes, simulations, uploads    *)
(* and configurations: a simulation is taken up at its interval's pace.     *)
(* That rests on what a row says of a simulation that no step holds: it is  *)
(* at most as old as what was published last (SimSound).                    *)
(***************************************************************************)
EXTENDS ScriptJobs, WorkerTasks, TLAPS

\* What a request knows at each of its steps.
Sound(r) ==
    /\ r.step # "idle" => r.script \in Scripts
    /\ r.step = "saved" => script[r.script] = None /\ r.script \in files
    /\ r.step \notin {"idle", "saved"} => script[r.script] # None
    /\ r.job # None => r.step \in {"checked", "sent"}
    /\ r.step = "checked" => r.job \in Jobs /\ task[r.job].state = "unused"
    /\ r.step = "sent" =>
          /\ r.job \in Jobs /\ job[r.job].status = None
          /\ task[r.job].state # "unused" /\ task[r.job].script = r.script
    /\ \A f \in r.found :
          /\ f.status \in Ended /\ task[f.job].state \in {"ready", "expired"}
          /\ task[f.job].state = "ready" => f = Answer(f.job)
          /\ job[f.job].status \in Ended =>
                job[f.job].status = f.status /\ job[f.job].content = f.content

RequestsSound == \A p \in Processes : Sound(request[p])

\* Nobody else is at the script that a request uploads, or at the job that it makes.
RequestsApart ==
    \A p, q \in Processes : p # q =>
        /\ request[p].step = "saved" => request[q].script # request[p].script
        /\ request[p].job # None => request[q].job # request[p].job

\* Whoever has read the result of a job has read the same.
FoundAgree ==
    \A p, q \in Processes : \A f \in request[p].found, g \in request[q].found :
        f.job = g.job => f = g

\* A task runs in one place at most.
RunnersSound ==
    \A r \in Runners :
        /\ runner[r].loaded => runner[r].task # None
        /\ runner[r].task # None => task[runner[r].task].state = "running"
        /\ \A q \in Runners :
              q # r /\ runner[r].task # None => runner[q].task # runner[r].task

TasksSound ==
    \A j \in Jobs :
        /\ task[j].state = "unused" => job[j].status = None
        /\ task[j].state # "unused" =>
              task[j].script \in Scripts /\ script[task[j].script] # None
        /\ task[j].state = "ready" => task[j].status \in Ended

\* JobsHaveScripts, and that the script is one.
JobsSound == JobsHaveScripts /\ \A j \in Jobs : Live(j) => job[j].script \in Scripts

IInv ==
    /\ TypeOK
    /\ RequestsSound
    /\ RequestsApart
    /\ FoundAgree
    /\ RunnersSound
    /\ TasksSound
    /\ JobsSound
    /\ RunsAreRecorded
    /\ FilelessScriptWasRun

-----------------------------------------------------------------------------
(* Types.                                                                  *)

Results == [job : Jobs, status : {"PENDING"} \cup Ended, content : Contents]

\* The requests that the actions make are requests.
LEMMA RequestTyped ==
    /\ Idle \in Request
    /\ \A s \in Scripts, at \in {"saved", "checked", "purged", "editing"} :
          At(at, s) \in Request
    /\ \A s \in Scripts, j \in Jobs : [At("checked", s) EXCEPT !.job = j] \in Request
    /\ \A s \in Scripts, js \in SUBSET Jobs : [At("purged", s) EXCEPT !.locked = js] \in Request
    /\ \A s \in Scripts : \A found \in SUBSET Results :
          [At("synced", s) EXCEPT !.found = found] \in Request
  BY DEF Idle, At, Request, Results

LEMMA RequestsTyped ==
    ASSUME TypeOK, NEW p \in Processes, NEW r \in Request, request' = [request EXCEPT ![p] = r]
    PROVE  request' \in [Processes -> Request]
  BY DEF TypeOK

\* The rows of jobs that go are rows.
LEMMA DeletedTyped ==
    ASSUME TypeOK, NEW js,
           job' = [j \in Jobs |-> IF j \in js THEN [job[j] EXCEPT !.status = "deleted"] ELSE job[j]]
    PROVE  job' \in [Jobs -> JobRow]
<1>1. ASSUME NEW j \in Jobs
      PROVE  [job[j] EXCEPT !.status = "deleted"] \in JobRow
  BY DEF TypeOK, JobRow
<1> QED
  BY <1>1 DEF TypeOK

-----------------------------------------------------------------------------
(* Uploads, updates, deletions.                                            *)

LEMMA SaveFileStep ==
    ASSUME IInv, NEW p \in Processes, NEW s \in Scripts, SaveFile(p, s)
    PROVE  IInv'
<1>1. TypeOK'
  <2>1. request' \in [Processes -> Request]
    BY RequestTyped, RequestsTyped DEF SaveFile, IInv
  <2> QED
    BY <2>1 DEF SaveFile, IInv, TypeOK
<1>2. RequestsSound'
  BY DEF SaveFile, IInv, TypeOK, RequestsSound, Sound, Answer, Idle, At
<1>3. RequestsApart'
  BY DEF SaveFile, IInv, TypeOK, RequestsApart, At
<1>4. FoundAgree'
  BY DEF SaveFile, IInv, TypeOK, FoundAgree, At
<1>5. RunsAreRecorded'
  BY DEF SaveFile, IInv, TypeOK, RunsAreRecorded, Live, Idle
<1>6. FilelessScriptWasRun'
  BY DEF SaveFile, IInv, TypeOK, FilelessScriptWasRun, Live, JobsOf, Idle
<1>7. RunnersSound' /\ TasksSound' /\ JobsSound'
  BY DEF SaveFile, IInv, RunnersSound, TasksSound, JobsSound, JobsHaveScripts, Live
<1> QED
  BY <1>1, <1>2, <1>3, <1>4, <1>5, <1>6, <1>7 DEF IInv

LEMMA InsertScriptStep ==
    ASSUME IInv, NEW p \in Processes, InsertScript(p)
    PROVE  IInv'
<1>1. TypeOK'
  BY DEF InsertScript, IInv, TypeOK, RequestsSound, Sound, Finish, Idle, Request
<1>2. RequestsSound'
  BY DEF InsertScript, IInv, TypeOK, RequestsSound, RequestsApart, Sound, Answer,
         Finish, Idle
<1>3. RequestsApart'
  BY ScriptsAssumption DEF InsertScript, IInv, TypeOK, RequestsSound, RequestsApart,
         Sound, Finish, Idle
<1>4. FoundAgree'
  BY DEF InsertScript, IInv, TypeOK, FoundAgree, Finish, Idle
<1>5. TasksSound'
  BY DEF InsertScript, IInv, TypeOK, TasksSound, None
<1>6. JobsSound'
  BY DEF InsertScript, IInv, TypeOK, RequestsSound, JobsSound, JobsHaveScripts, Sound,
         Live, None
<1>7. RunsAreRecorded'
  BY DEF InsertScript, IInv, TypeOK, RequestsSound, TasksSound, RunsAreRecorded, Sound,
         Live, Finish
<1>8. FilelessScriptWasRun'
  BY DEF InsertScript, IInv, TypeOK, RequestsSound, FilelessScriptWasRun, Sound, Live,
         JobsOf, Finish
<1>9. RunnersSound'
  BY DEF InsertScript, IInv, RunnersSound
<1> QED
  BY <1>1, <1>2, <1>3, <1>4, <1>5, <1>6, <1>7, <1>8, <1>9 DEF IInv

LEMMA FindToEditStep ==
    ASSUME IInv, NEW p \in Processes, NEW s \in Scripts, FindToEdit(p, s)
    PROVE  IInv'
<1>1. TypeOK'
  <2>1. request' \in [Processes -> Request]
    BY RequestTyped, RequestsTyped DEF FindToEdit, IInv
  <2> QED
    BY <2>1 DEF FindToEdit, IInv, TypeOK
<1>2. RequestsSound'
  BY DEF FindToEdit, IInv, TypeOK, RequestsSound, Sound, Answer, Idle, At, None
<1>3. RequestsApart'
  BY DEF FindToEdit, IInv, TypeOK, RequestsSound, RequestsApart, Sound, At, None
<1>4. FoundAgree'
  BY DEF FindToEdit, IInv, TypeOK, FoundAgree, At
<1>5. RunsAreRecorded'
  BY DEF FindToEdit, IInv, TypeOK, RunsAreRecorded, Live, Idle
<1>6. FilelessScriptWasRun'
  BY DEF FindToEdit, IInv, TypeOK, FilelessScriptWasRun, Live, JobsOf, Idle
<1>7. RunnersSound' /\ TasksSound' /\ JobsSound'
  BY DEF FindToEdit, IInv, RunnersSound, TasksSound, JobsSound, JobsHaveScripts, Live
<1> QED
  BY <1>1, <1>2, <1>3, <1>4, <1>5, <1>6, <1>7 DEF IInv

LEMMA WriteContentStep ==
    ASSUME IInv, NEW p \in Processes, WriteContent(p)
    PROVE  IInv'
<1>1. TypeOK'
  BY DEF WriteContent, IInv, TypeOK, RequestsSound, Sound, Finish, Idle, Request
<1>2. RequestsSound'
  BY DEF WriteContent, IInv, TypeOK, RequestsSound, Sound, Answer, Finish, Idle
<1>3. RequestsApart'
  BY ScriptsAssumption DEF WriteContent, IInv, TypeOK, RequestsSound, RequestsApart,
         Sound, Finish, Idle
<1>4. FoundAgree'
  BY DEF WriteContent, IInv, TypeOK, FoundAgree, Finish, Idle
<1>5. RunsAreRecorded'
  BY DEF WriteContent, IInv, TypeOK, RunsAreRecorded, Live, Finish
<1>6. FilelessScriptWasRun'
  BY DEF WriteContent, IInv, TypeOK, FilelessScriptWasRun, Live, JobsOf, Finish
<1>7. RunnersSound' /\ TasksSound' /\ JobsSound'
  BY DEF WriteContent, IInv, RunnersSound, TasksSound, JobsSound, JobsHaveScripts, Live
<1> QED
  BY <1>1, <1>2, <1>3, <1>4, <1>5, <1>6, <1>7 DEF IInv

LEMMA DeleteJobsStep ==
    ASSUME IInv, NEW p \in Processes, NEW s \in Scripts, DeleteJobs(p, s)
    PROVE  IInv'
<1>1. TypeOK'
  <2>1. request' \in [Processes -> Request]
    BY RequestTyped, RequestsTyped DEF DeleteJobs, JobsOf, IInv
  <2> QED
    BY <2>1 DEF DeleteJobs, IInv, TypeOK
<1>2. RequestsSound'
  BY DEF DeleteJobs, IInv, TypeOK, RequestsSound, Sound, Answer, Idle, At, None
<1>3. RequestsApart'
  BY DEF DeleteJobs, IInv, TypeOK, RequestsSound, RequestsApart, Sound, At, None
<1>4. FoundAgree'
  BY DEF DeleteJobs, IInv, TypeOK, FoundAgree, At
<1>5. RunsAreRecorded'
  BY DEF DeleteJobs, IInv, TypeOK, RunsAreRecorded, Live, Idle
<1>6. FilelessScriptWasRun'
  BY DEF DeleteJobs, IInv, TypeOK, FilelessScriptWasRun, Live, JobsOf, Idle
<1>7. RunnersSound' /\ TasksSound' /\ JobsSound'
  BY DEF DeleteJobs, IInv, RunnersSound, TasksSound, JobsSound, JobsHaveScripts, Live
<1> QED
  BY <1>1, <1>2, <1>3, <1>4, <1>5, <1>6, <1>7 DEF IInv

LEMMA RemoveFileStep ==
    ASSUME IInv, NEW p \in Processes, RemoveFile(p)
    PROVE  IInv'
<1>1. TypeOK'
  BY JobsAssumption, ScriptsAssumption DEF RemoveFile, IInv, TypeOK, Request
<1>2. RequestsSound'
  BY DEF RemoveFile, IInv, TypeOK, RequestsSound, Sound, Answer
<1>3. RequestsApart'
  BY DEF RemoveFile, IInv, TypeOK, RequestsApart
<1>4. FoundAgree'
  BY DEF RemoveFile, IInv, TypeOK, FoundAgree
<1>5. RunsAreRecorded'
  BY DEF RemoveFile, IInv, TypeOK, RunsAreRecorded, Live
<1>6. FilelessScriptWasRun'
  BY DEF RemoveFile, IInv, TypeOK, FilelessScriptWasRun, Live, JobsOf
<1>7. RunnersSound' /\ TasksSound' /\ JobsSound'
  BY DEF RemoveFile, IInv, RunnersSound, TasksSound, JobsSound, JobsHaveScripts, Live
<1> QED
  BY <1>1, <1>2, <1>3, <1>4, <1>5, <1>6, <1>7 DEF IInv

LEMMA DeleteScriptStep ==
    ASSUME IInv, NEW p \in Processes, DeleteScript(p)
    PROVE  IInv'
<1>1. TypeOK'
  <2>1. request' \in [Processes -> Request]
    BY RequestTyped, RequestsTyped DEF DeleteScript, Finish, IInv
  <2>2. job' \in [Jobs -> JobRow]
    BY DeletedTyped DEF DeleteScript, IInv, TypeOK
  <2>3. script' \in [Scripts -> {None, "present", "deleted", "dropped"}]
    BY DEF DeleteScript, IInv, TypeOK
  <2> QED
    BY <2>1, <2>2, <2>3 DEF DeleteScript, IInv, TypeOK
<1>2. RequestsSound'
  BY DEF DeleteScript, IInv, TypeOK, RequestsSound, Sound, Live, JobsOf, Answer, Finish,
         Idle, Request, JobRow, Contents, Ended, None
<1>3. RequestsApart'
  BY ScriptsAssumption DEF DeleteScript, IInv, TypeOK, RequestsSound, RequestsApart,
         Sound, Finish, Idle
<1>4. FoundAgree'
  BY DEF DeleteScript, IInv, TypeOK, FoundAgree, Finish, Idle
<1>5. TasksSound'
  BY DEF DeleteScript, IInv, TypeOK, TasksSound, Live, JobsOf, None
<1>6. JobsSound'
  BY DEF DeleteScript, IInv, TypeOK, JobsSound, JobsHaveScripts, Live, JobsOf, JobRow
<1>7. RunsAreRecorded'
  BY DEF DeleteScript, IInv, TypeOK, TasksSound, JobsSound, JobsHaveScripts,
         RunsAreRecorded, Live, JobsOf, Finish
<1>8. FilelessScriptWasRun'
  <2> SUFFICES ASSUME NEW t \in Scripts, script'[t] = "present", t \notin files', crashes' = 0
               PROVE  \/ \E q \in Processes : request'[q].step = "removed" /\ request'[q].script = t
                      \/ JobsOf(t)' # {}
    BY DEF FilelessScriptWasRun
  <2>0. PICK s \in Scripts : s = request[p].script
    BY DEF DeleteScript, IInv, RequestsSound, Sound
  <2>1. CASE t = s
    <3>1. ~(JobsOf(s) \subseteq request[p].locked)
      BY <2>0, <2>1 DEF DeleteScript, IInv, TypeOK
    <3>2. JobsOf(s)' = JobsOf(s)
      BY <2>0, <3>1 DEF DeleteScript, JobsOf, Live
    <3> QED
      BY <2>1, <3>1, <3>2
  <2>2. CASE t # s
    <3>1. script[t] = "present"
      BY <2>0, <2>2 DEF DeleteScript, IInv, TypeOK
    <3>2. \A j \in JobsOf(t) : job'[j] = job[j]
      BY <2>0, <2>2 DEF DeleteScript, JobsOf
    <3>3. JobsOf(t) \subseteq JobsOf(t)'
      BY <3>2 DEF JobsOf, Live
    <3>4. \A q \in Processes : request[q].script = t => request'[q] = request[q]
      BY <2>0, <2>2 DEF DeleteScript, Finish, IInv, TypeOK
    <3> QED
      BY <3>1, <3>3, <3>4 DEF DeleteScript, IInv, FilelessScriptWasRun
  <2> QED
    BY <2>1, <2>2
<1>9. RunnersSound'
  BY DEF DeleteScript, IInv, RunnersSound
<1> QED
  BY <1>1, <1>2, <1>3, <1>4, <1>5, <1>6, <1>7, <1>8, <1>9 DEF IInv

LEMMA DropProjectStep ==
    ASSUME IInv, NEW s \in Scripts, DropProject(s)
    PROVE  IInv'
<1>1. TypeOK'
  <2>1. job' \in [Jobs -> JobRow]
    BY DeletedTyped DEF DropProject, IInv
  <2> QED
    BY <2>1 DEF DropProject, IInv, TypeOK
<1>2. RequestsSound'
  BY DEF DropProject, IInv, TypeOK, RequestsSound, Sound, Live, JobsOf, Answer, Request,
         Ended, None
<1>3. TasksSound'
  BY DEF DropProject, IInv, TypeOK, TasksSound, Live, JobsOf, None
<1>4. JobsSound'
  BY DEF DropProject, IInv, TypeOK, JobsSound, JobsHaveScripts, Live, JobsOf
<1>5. RunsAreRecorded'
  BY DEF DropProject, IInv, TypeOK, JobsSound, JobsHaveScripts, RunsAreRecorded, Live,
         JobsOf
<1>6. FilelessScriptWasRun'
  <2> SUFFICES ASSUME NEW t \in Scripts, script'[t] = "present", t \notin files', crashes' = 0
               PROVE  \/ \E p \in Processes : request'[p].step = "removed" /\ request'[p].script = t
                      \/ JobsOf(t)' # {}
    BY DEF FilelessScriptWasRun
  <2>1. t # s /\ script[t] = "present"
    BY DEF DropProject, IInv, TypeOK
  <2>2. \A j \in JobsOf(t) : job'[j] = job[j]
    BY <2>1 DEF DropProject, JobsOf
  <2>3. JobsOf(t) \subseteq JobsOf(t)'
    BY <2>2 DEF JobsOf, Live
  <2> QED
    BY <2>1, <2>3 DEF DropProject, IInv, FilelessScriptWasRun
<1>7. RequestsApart' /\ FoundAgree' /\ RunnersSound'
  BY DEF DropProject, IInv, RequestsApart, FoundAgree, RunnersSound
<1> QED
  BY <1>1, <1>2, <1>3, <1>4, <1>5, <1>6, <1>7 DEF IInv

-----------------------------------------------------------------------------
(* Runs.                                                                   *)

LEMMA FindToRunStep ==
    ASSUME IInv, NEW p \in Processes, NEW s \in Scripts, FindToRun(p, s)
    PROVE  IInv'
<1>1. TypeOK'
  <2>1. request' \in [Processes -> Request]
    BY RequestTyped, RequestsTyped DEF FindToRun, IInv
  <2> QED
    BY <2>1 DEF FindToRun, IInv, TypeOK
<1>2. RequestsSound'
  BY DEF FindToRun, IInv, TypeOK, RequestsSound, Sound, Answer, At, None
<1>3. RequestsApart'
  BY DEF FindToRun, IInv, TypeOK, RequestsSound, RequestsApart, Sound, At, None
<1>4. FoundAgree'
  BY DEF FindToRun, IInv, TypeOK, FoundAgree, At
<1>5. RunsAreRecorded'
  BY DEF FindToRun, IInv, TypeOK, RunsAreRecorded, Live, Idle
<1>6. FilelessScriptWasRun'
  BY DEF FindToRun, IInv, TypeOK, FilelessScriptWasRun, Live, JobsOf, Idle
<1>7. RunnersSound' /\ TasksSound' /\ JobsSound'
  BY DEF FindToRun, IInv, RunnersSound, TasksSound, JobsSound, JobsHaveScripts, Live
<1> QED
  BY <1>1, <1>2, <1>3, <1>4, <1>5, <1>6, <1>7 DEF IInv

\* Either the file is missing and the request ends, or its job's task is queued.
LEMMA SendTaskStep == ASSUME IInv, NEW p \in Processes, SendTask(p) PROVE IInv'
<1>0. PICK j \in Jobs, s \in Scripts : j = request[p].job /\ s = request[p].script
  BY DEF SendTask, IInv, RequestsSound, Sound
<1>1. task[j].state = "unused" /\ job[j].status = None /\ script[s] # None
  BY <1>0 DEF SendTask, IInv, RequestsSound, Sound, TasksSound
<1>2. CASE s \notin files
  <2>1. request' = [request EXCEPT ![p] = Idle] /\ UNCHANGED <<script, files, job, task, runner, crashes>>
    BY <1>0, <1>2 DEF SendTask, Finish
  <2>2. TypeOK'
    BY <2>1, RequestTyped, RequestsTyped DEF IInv, TypeOK
  <2>3. \A q \in Processes : request'[q] = request[q] \/ request'[q] = Idle
    BY <2>1 DEF IInv, TypeOK
  <2>4. RequestsSound'
    BY <2>1, <2>3 DEF IInv, RequestsSound, Sound, Idle, Answer
  <2>5. RequestsApart' /\ FoundAgree'
    BY <2>3, JobsAssumption, ScriptsAssumption DEF IInv, RequestsApart, FoundAgree, Idle, RequestsSound, Sound
  <2>6. RunsAreRecorded'
    BY <2>1 DEF SendTask, IInv, TypeOK, RunsAreRecorded, Live
  <2>7. FilelessScriptWasRun'
    BY <2>1 DEF SendTask, IInv, TypeOK, FilelessScriptWasRun, JobsOf, Live
  <2>8. RunnersSound' /\ TasksSound' /\ JobsSound'
    BY <2>1 DEF IInv, RunnersSound, TasksSound, JobsSound, JobsHaveScripts, Live
  <2> QED
    BY <2>2, <2>4, <2>5, <2>6, <2>7, <2>8 DEF IInv
<1>3. CASE s \in files
  <2>1. /\ task' = [task EXCEPT ![j] = [@ EXCEPT !.state = "queued", !.script = s]]
        /\ request' = [request EXCEPT ![p].step = "sent"]
        /\ UNCHANGED <<script, files, job, runner, crashes>>
    BY <1>0, <1>3 DEF SendTask
  <2>2. [task[j] EXCEPT !.state = "queued", !.script = s] \in Task
    BY DEF IInv, TypeOK, Task
  <2>3. [request[p] EXCEPT !.step = "sent"] \in Request
    BY DEF IInv, TypeOK, Request
  <2>4. TypeOK'
    BY <2>1, <2>2, <2>3 DEF IInv, TypeOK
  <2>5. /\ task'[j].state = "queued" /\ task'[j].script = s
        /\ \A k \in Jobs : k # j => task'[k] = task[k]
    BY <2>1 DEF IInv, TypeOK, Task
  <2>6. /\ request'[p].step = "sent" /\ request'[p].script = s /\ request'[p].job = j
        /\ request'[p].found = request[p].found
        /\ \A q \in Processes : q # p => request'[q] = request[q]
    BY <1>0, <2>1 DEF IInv, TypeOK, Request
  <2>7. \A q \in Processes : \A f \in request[q].found : f.job \in Jobs /\ f.job # j
    BY <1>1 DEF IInv, TypeOK, Request, RequestsSound, Sound
  <2>8. Sound(request[p])'
    BY <1>1, <2>1, <2>5, <2>6, <2>7 DEF IInv, RequestsSound, Sound, Answer
  <2>9. ASSUME NEW q \in Processes, q # p
        PROVE  Sound(request[q])'
    <3>1. request[q].job # j
      BY <1>0, <2>9, JobsAssumption DEF IInv, RequestsApart
    <3> QED
      BY <3>1, <2>9, <2>1, <2>5, <2>6, <2>7 DEF IInv, RequestsSound, Sound, Answer
  <2>10. RequestsSound'
    BY <2>8, <2>9 DEF RequestsSound
  <2>11. RequestsApart' /\ FoundAgree'
    BY <1>0, <2>6 DEF SendTask, IInv, RequestsApart, FoundAgree
  <2>12. RunnersSound'
    BY <1>1, <2>1, <2>5 DEF IInv, TypeOK, RunnersSound
  <2>13. TasksSound' /\ JobsSound'
    BY <1>1, <2>1, <2>5 DEF IInv, TasksSound, JobsSound, JobsHaveScripts, Live
  <2>14. RunsAreRecorded'
    BY <1>0, <2>1, <2>5, <2>6 DEF SendTask, IInv, RunsAreRecorded, Live
  <2>15. FilelessScriptWasRun'
    BY <2>1, <2>6 DEF SendTask, IInv, FilelessScriptWasRun, JobsOf, Live
  <2> QED
    BY <2>4, <2>10, <2>11, <2>12, <2>13, <2>14, <2>15 DEF IInv
<1> QED
  BY <1>2, <1>3

LEMMA InsertJobStep ==
    ASSUME IInv, NEW p \in Processes, InsertJob(p)
    PROVE  IInv'
<1>1. TypeOK'
  <2>1. request' \in [Processes -> Request]
    BY RequestTyped, RequestsTyped DEF InsertJob, Finish, IInv
  <2>2. request[p].script \in Scripts
    BY DEF InsertJob, IInv, RequestsSound, Sound
  <2>3. [status |-> "PENDING", script |-> request[p].script, content |-> None] \in JobRow
    BY <2>2 DEF JobRow, Contents
  <2>4. job' \in [Jobs -> JobRow]
    BY <2>3 DEF InsertJob, IInv, TypeOK
  <2> QED
    BY <2>1, <2>4 DEF InsertJob, IInv, TypeOK
<1>2. RequestsSound'
  BY JobsAssumption, ScriptsAssumption DEF InsertJob, IInv, TypeOK, RequestsSound,
         RequestsApart, RunnersSound, TasksSound, RunsAreRecorded, Sound, Answer,
         Finish, Idle, Request, Ended
<1>3. RequestsApart'
  BY ScriptsAssumption DEF InsertJob, IInv, TypeOK, RequestsSound, RequestsApart, Sound,
         Finish, Idle
<1>4. FoundAgree'
  BY DEF InsertJob, IInv, TypeOK, FoundAgree, Finish, Idle
<1>5. JobsSound'
  <2>0. PICK k \in Jobs : k = request[p].job
    BY DEF InsertJob, IInv, RequestsSound, Sound
  <2>1. /\ request[p].script \in Scripts /\ task[k].script = request[p].script
        /\ \A j \in Jobs : j # k => job'[j] = job[j]
    BY <2>0 DEF InsertJob, IInv, TypeOK, RequestsSound, Sound
  <2>2. job'[k] = job[k] \/ (script[request[p].script] = "present"
                              /\ job'[k].script = request[p].script)
    BY <2>0 DEF InsertJob, IInv, TypeOK
  <2> QED
    BY <2>1, <2>2 DEF InsertJob, IInv, JobsSound, JobsHaveScripts, Live
<1>6. TasksSound' /\ RunsAreRecorded' /\ FilelessScriptWasRun'
  <2>0. PICK k \in Jobs : k = request[p].job
    BY DEF InsertJob, IInv, RequestsSound, Sound
  <2>1. /\ k \in Jobs /\ request[p].script \in Scripts
        /\ task[k].state # "unused" /\ task[k].script = request[p].script
        /\ job[k].status = None
    BY <2>0 DEF InsertJob, IInv, RequestsSound, Sound
  <2>2. \A j \in Jobs : j # k => job'[j] = job[j]
    BY <2>0 DEF InsertJob, IInv, TypeOK
  <2>3. script[request[p].script] = "present" => Live(k)'
    BY <2>0, <2>1 DEF InsertJob, IInv, TypeOK, Live, None
  <2>4. TasksSound'
    BY <2>1, <2>2 DEF InsertJob, IInv, TasksSound
  <2>5. \A q \in Processes : q # p => request'[q] = request[q]
    BY DEF InsertJob, Finish, IInv, TypeOK
  <2>6. RunsAreRecorded'
    <3> SUFFICES ASSUME NEW j \in Jobs, task'[j].state # "unused", script'[task'[j].script] = "present", crashes' = 0
                 PROVE  Live(j)' \/ \E q \in Processes : request'[q].step = "sent" /\ request'[q].job = j
      BY DEF RunsAreRecorded
    <3>1. CASE j = k
      BY <3>1, <2>1, <2>3 DEF InsertJob
    <3>2. CASE j # k
      BY <3>2, <2>0, <2>2, <2>5 DEF InsertJob, IInv, RunsAreRecorded, Live
    <3> QED
      BY <3>1, <3>2
  <2>7. FilelessScriptWasRun'
    <3>1. \A s \in Scripts : JobsOf(s) \subseteq JobsOf(s)'
      BY <2>1, <2>2 DEF JobsOf, Live
    <3>2. \A q \in Processes : request[q].step = "removed" => request'[q] = request[q]
      BY <2>5 DEF InsertJob
    <3> QED
      BY <3>1, <3>2 DEF InsertJob, IInv, FilelessScriptWasRun
  <2> QED
    BY <2>4, <2>6, <2>7
<1>7. RunnersSound'
  BY DEF InsertJob, IInv, RunnersSound
<1> QED
  BY <1>1, <1>2, <1>3, <1>4, <1>5, <1>6, <1>7 DEF IInv

-----------------------------------------------------------------------------
(* Results.                                                                *)

LEMMA ReadResultsStep ==
    ASSUME IInv, NEW p \in Processes, NEW s \in Scripts, ReadResults(p, s)
    PROVE  IInv'
<1>1. TypeOK'
  <2>1. PICK js \in SUBSET Jobs : request' = [request EXCEPT ![p] = [At("synced", s) EXCEPT !.found = {Answer(j) : j \in js}]]
    BY DEF ReadResults, Outdated, JobsOf
  <2>2. \A j \in Jobs : Answer(j) \in Results
    BY DEF Answer, IInv, TypeOK, Task, Results, Ended
  <2>3. {Answer(j) : j \in js} \in SUBSET Results
    BY <2>2
  <2>4. request' \in [Processes -> Request]
    BY <2>1, <2>3, RequestTyped, RequestsTyped DEF IInv
  <2> QED
    BY <2>4 DEF ReadResults, IInv, TypeOK
<1>2. RequestsSound'
  BY DEF ReadResults, IInv, TypeOK, RequestsSound, TasksSound, Sound, JobsOf, Answer,
         Outdated, Idle, At, Ended, None
<1>3. RequestsApart'
  BY DEF ReadResults, IInv, TypeOK, RequestsSound, RequestsApart, Sound, At, None
<1>4. FoundAgree'
  BY DEF ReadResults, IInv, TypeOK, RequestsSound, FoundAgree, Sound, Answer, Outdated
<1>5. RunsAreRecorded'
  BY DEF ReadResults, IInv, TypeOK, RunsAreRecorded, Live, Idle
<1>6. FilelessScriptWasRun'
  BY DEF ReadResults, IInv, TypeOK, FilelessScriptWasRun, Live, JobsOf, Idle
<1>7. RunnersSound' /\ TasksSound' /\ JobsSound'
  BY DEF ReadResults, IInv, RunnersSound, TasksSound, JobsSound, JobsHaveScripts, Live
<1> QED
  BY <1>1, <1>2, <1>3, <1>4, <1>5, <1>6, <1>7 DEF IInv

\* The rows change to what was read, and stay live: the rest goes by that.
LEMMA RecordResultsStep == ASSUME IInv, NEW p \in Processes, RecordResults(p) PROVE IInv'
<1> DEFINE found == request[p].found
<1>1. /\ found \in SUBSET Results
      /\ \A f \in found : f.status \in Ended
  BY DEF IInv, TypeOK, Request, Results, RequestsSound, Sound
<1>2. ASSUME NEW j \in Jobs
      PROVE  \/ job'[j] = job[j]
             \/ /\ Live(j)
                /\ \E f \in found : f.job = j /\ job'[j] = [job[j] EXCEPT !.status = f.status, !.content = f.content]
  <2>1. CASE (\A f \in found : Live(f.job)) /\ \E f \in found : f.job = j
    <3>1. PICK g \in found : g = CHOOSE h \in found : h.job = j
      BY <2>1
    <3>2. g.job = j
      BY <2>1, <3>1
    <3>3. job'[j] = [job[j] EXCEPT !.status = g.status, !.content = g.content]
      BY <2>1, <3>1, Zenon DEF RecordResults
    <3> QED
      BY <2>1, <3>2, <3>3
  <2>2. CASE ~((\A f \in found : Live(f.job)) /\ \E f \in found : f.job = j)
    BY <2>2 DEF RecordResults, IInv, TypeOK
  <2> QED
    BY <2>1, <2>2
<1>3. ASSUME NEW j \in Jobs
      PROVE  /\ job'[j] \in JobRow /\ job'[j].script = job[j].script
             /\ Live(j)' <=> Live(j)
             /\ job'[j].status = None <=> job[j].status = None
             /\ job'[j] # job[j] => \E f \in found : f.job = j /\ f.status = job'[j].status /\ f.content = job'[j].content
  <2>1. job[j] \in JobRow
    BY DEF IInv, TypeOK
  <2>2. CASE job'[j] = job[j]
    BY <2>1, <2>2 DEF Live
  <2>3. CASE job'[j] # job[j]
    <3>1. PICK f \in found : f.job = j /\ job'[j] = [job[j] EXCEPT !.status = f.status, !.content = f.content]
      BY <1>2, <2>3
    <3>2. f.status \in Ended /\ f.content \in Contents
      BY <1>1 DEF Results
    <3>3. /\ job'[j] \in JobRow /\ job'[j].script = job[j].script
          /\ job'[j].status = f.status /\ job'[j].content = f.content
      BY <2>1, <3>1, <3>2 DEF JobRow
    <3>4. Live(j) /\ Live(j)'
      BY <1>2, <2>3, <3>2, <3>3 DEF Live, Ended, None
    <3> QED
      BY <3>1, <3>3, <3>4, <3>2 DEF Live
  <2> QED
    BY <2>2, <2>3
<1>4. /\ request' = [request EXCEPT ![p] = Idle]
      /\ UNCHANGED <<script, files, task, runner, crashes>> /\ request[p].step = "synced"
  BY DEF RecordResults, Finish
<1>5. job' \in [Jobs -> JobRow]
  <2>1. DOMAIN job' = Jobs /\ job' = [j \in Jobs |-> job'[j]]
    BY DEF RecordResults, IInv, TypeOK
  <2> QED
    BY <1>3, <2>1
<1>6. TypeOK'
  BY <1>4, <1>5, RequestTyped, RequestsTyped DEF IInv, TypeOK
<1>7. \A q \in Processes : request'[q] = IF q = p THEN Idle ELSE request[q]
  BY <1>4 DEF IInv, TypeOK
<1>8. ASSUME NEW q \in Processes, q # p
      PROVE  Sound(request[q])'
  <2>1. ASSUME NEW f \in request[q].found, job'[f.job].status \in Ended
        PROVE  job'[f.job].status = f.status /\ job'[f.job].content = f.content
    <3>1. f.job \in Jobs
      BY DEF IInv, TypeOK, Request
    <3>2. CASE job'[f.job] = job[f.job]
      BY <3>2, <2>1 DEF IInv, RequestsSound, Sound
    <3>3. CASE job'[f.job] # job[f.job]
      BY <3>1, <3>3, <1>3 DEF IInv, FoundAgree
    <3> QED
      BY <3>2, <3>3
  <2> QED
    BY <2>1, <1>3, <1>4, <1>7, <1>8 DEF IInv, RequestsSound, Sound, Answer
<1>9. Sound(request[p])'
  BY <1>7 DEF Sound, Idle
<1>10. RequestsSound'
  BY <1>8, <1>9 DEF RequestsSound
<1>11. RequestsApart' /\ FoundAgree'
  BY <1>7, ScriptsAssumption DEF IInv, RequestsApart, FoundAgree, Idle, RequestsSound, Sound
<1>12. RunnersSound' /\ TasksSound' /\ JobsSound'
  BY <1>3, <1>4 DEF IInv, RunnersSound, TasksSound, JobsSound, JobsHaveScripts
<1>13. RunsAreRecorded'
  BY <1>3, <1>4, <1>7 DEF IInv, RunsAreRecorded
<1>14. FilelessScriptWasRun'
  <2>1. \A s \in Scripts : JobsOf(s)' = JobsOf(s)
    BY <1>3 DEF JobsOf
  <2> QED
    BY <2>1, <1>4, <1>7 DEF IInv, FilelessScriptWasRun
<1> QED
  BY <1>6, <1>10, <1>11, <1>12, <1>13, <1>14 DEF IInv

LEMMA CrashStep ==
    ASSUME IInv, NEW p \in Processes, Crash(p)
    PROVE  IInv'
<1>1. TypeOK'
  <2>1. request' \in [Processes -> Request]
    BY RequestTyped, RequestsTyped DEF Crash, Finish, IInv
  <2> QED
    BY <2>1, CrashesAssumption DEF Crash, IInv, TypeOK
<1>2. RequestsSound'
  BY DEF Crash, IInv, TypeOK, RequestsSound, Sound, Answer, Finish, Idle
<1>3. RequestsApart'
  BY ScriptsAssumption DEF Crash, IInv, TypeOK, RequestsSound, RequestsApart, Sound,
         Finish, Idle
<1>4. FoundAgree'
  BY DEF Crash, IInv, TypeOK, FoundAgree, Finish, Idle
<1>5. RunsAreRecorded'
  BY DEF Crash, IInv, TypeOK, RunsAreRecorded
<1>6. FilelessScriptWasRun'
  BY DEF Crash, IInv, TypeOK, FilelessScriptWasRun
<1>7. RunnersSound' /\ TasksSound' /\ JobsSound'
  BY DEF Crash, IInv, RunnersSound, TasksSound, JobsSound, JobsHaveScripts, Live
<1> QED
  BY <1>1, <1>2, <1>3, <1>4, <1>5, <1>6, <1>7 DEF IInv

-----------------------------------------------------------------------------
(* The worker.                                                             *)

LEMMA TakeStep ==
    ASSUME IInv, NEW r \in Runners, NEW j \in Jobs, Take(r, j)
    PROVE  IInv'
<1>1. TypeOK'
  <2>1. [task[j] EXCEPT !.state = "running"] \in Task
    BY DEF IInv, TypeOK, Task
  <2>2. task' \in [Jobs -> Task]
    BY <2>1 DEF Take, IInv, TypeOK
  <2>3. runner' \in [Runners -> [task : Jobs \cup {None}, loaded : BOOLEAN]]
    BY DEF Take, IInv, TypeOK
  <2> QED
    BY <2>2, <2>3 DEF Take, IInv, TypeOK
<1>2. RequestsSound'
  BY DEF Take, IInv, TypeOK, RequestsSound, Sound, Answer
<1>3. RunnersSound'
  BY DEF Take, IInv, TypeOK, RunnersSound, Free
<1>4. TasksSound'
  BY DEF Take, IInv, TypeOK, TasksSound
<1>5. JobsSound'
  BY DEF Take, IInv, TypeOK, JobsSound, JobsHaveScripts, Live
<1>6. RunsAreRecorded'
  BY DEF Take, IInv, TypeOK, RunsAreRecorded, Live
<1>7. RequestsApart' /\ FoundAgree' /\ FilelessScriptWasRun'
  BY DEF Take, IInv, RequestsApart, FoundAgree, FilelessScriptWasRun, JobsOf, Live
<1> QED
  BY <1>1, <1>2, <1>3, <1>4, <1>5, <1>6, <1>7 DEF IInv

LEMMA LoadStep ==
    ASSUME IInv, NEW r \in Runners, Load(r)
    PROVE  IInv'
<1>1. TypeOK'
  <2>3. runner' \in [Runners -> [task : Jobs \cup {None}, loaded : BOOLEAN]]
    BY DEF Load, IInv, TypeOK
  <2> QED
    BY <2>3 DEF Load, IInv, TypeOK
<1>2. RunnersSound'
  BY DEF Load, IInv, TypeOK, RunnersSound
<1>3. RequestsSound' /\ RequestsApart' /\ FoundAgree'
       /\ TasksSound' /\ JobsSound' /\ RunsAreRecorded' /\ FilelessScriptWasRun'
  BY DEF Load, IInv, RequestsSound, RequestsApart, FoundAgree, TasksSound, JobsSound,
         RunsAreRecorded, FilelessScriptWasRun, Sound, JobsHaveScripts, Live, JobsOf, Answer
<1> QED
  BY <1>1, <1>2, <1>3 DEF IInv

\* A running task becomes ready; nobody has read it yet.
LEMMA StoreStep == 
   ASSUME IInv, NEW r \in Runners, runner[r].task # None, NEW status \in Ended, NEW content \in Contents, Store(r, status, content)
   PROVE  IInv'
<1>0. PICK j \in Jobs : j = runner[r].task /\ task[j].state = "running"
  BY DEF IInv, TypeOK, RunnersSound
<1>1. /\ task' = [task EXCEPT ![j] = [@ EXCEPT !.state = "ready", !.status = status, !.content = content]]
      /\ runner' = [runner EXCEPT ![r] = Free]
      /\ UNCHANGED <<script, files, job, request, crashes>>
  BY <1>0 DEF Store
<1>2. [task[j] EXCEPT !.state = "ready", !.status = status, !.content = content] \in Task
  BY DEF IInv, TypeOK, Task
<1>3. TypeOK'
  BY <1>1, <1>2 DEF IInv, TypeOK, Free
<1>4. /\ task'[j].state = "ready" /\ task'[j].script = task[j].script /\ task'[j].status = status
      /\ \A k \in Jobs : k # j => task'[k] = task[k]
  BY <1>1 DEF IInv, TypeOK, Task
<1>5. \A p \in Processes : \A f \in request[p].found : f.job \in Jobs /\ f.job # j
  BY <1>0 DEF IInv, TypeOK, Request, RequestsSound, Sound
<1>6. RequestsSound'
  <2> SUFFICES ASSUME NEW p \in Processes PROVE Sound(request[p])'
    BY DEF RequestsSound
  <2> QED
    BY <1>0, <1>1, <1>4, <1>5 DEF IInv, RequestsSound, Sound, Answer
<1>7. RequestsApart' /\ FoundAgree'
  BY <1>1 DEF IInv, RequestsApart, FoundAgree
<1>8. RunnersSound'
  BY <1>0, <1>1, <1>4 DEF IInv, TypeOK, RunnersSound, Free
<1>9. TasksSound' /\ JobsSound'
  BY <1>0, <1>1, <1>4 DEF IInv, TasksSound, JobsSound, JobsHaveScripts, Live
<1>10. RunsAreRecorded'
  BY <1>0, <1>1, <1>4 DEF IInv, RunsAreRecorded, Live
<1>11. FilelessScriptWasRun'
  BY <1>1 DEF IInv, FilelessScriptWasRun, JobsOf, Live
<1> QED
  BY <1>3, <1>6, <1>7, <1>8, <1>9, <1>10, <1>11 DEF IInv

LEMMA LoadFailsStep == ASSUME IInv, NEW r \in Runners, LoadFails(r) PROVE IInv'
  BY StoreStep DEF LoadFails, Ended, Contents

LEMMA RunStepSound == ASSUME IInv, NEW r \in Runners, Run(r) PROVE IInv'
<1>1. runner[r].task # None
  BY DEF Run, IInv, RunnersSound
<1> QED
  BY <1>1, StoreStep DEF Run, Ended, Contents

LEMMA LoseTaskStep ==
    ASSUME IInv, NEW r \in Runners, LoseTask(r)
    PROVE  IInv'
<1>1. TypeOK'
  <2>1. [task[runner[r].task] EXCEPT !.state = "lost"] \in Task
    BY DEF IInv, TypeOK, Task, LoseTask
  <2>2. task' \in [Jobs -> Task]
    BY <2>1 DEF LoseTask, IInv, TypeOK
  <2>3. runner' \in [Runners -> [task : Jobs \cup {None}, loaded : BOOLEAN]]
    BY DEF LoseTask, IInv, TypeOK, Free
  <2> QED
    BY <2>2, <2>3 DEF LoseTask, IInv, TypeOK
<1>2. RequestsSound'
  BY DEF LoseTask, IInv, TypeOK, RequestsSound, RunnersSound, Sound, Answer
<1>3. RunnersSound'
  BY DEF LoseTask, IInv, TypeOK, RunnersSound, Free
<1>4. TasksSound'
  BY DEF LoseTask, IInv, TypeOK, RunnersSound, TasksSound
<1>5. JobsSound'
  BY DEF LoseTask, IInv, TypeOK, JobsSound, JobsHaveScripts, Live
<1>6. RunsAreRecorded'
  BY DEF LoseTask, IInv, TypeOK, RunnersSound, RunsAreRecorded, Live
<1>7. RequestsApart' /\ FoundAgree' /\ FilelessScriptWasRun'
  BY DEF LoseTask, IInv, RequestsApart, FoundAgree, FilelessScriptWasRun, JobsOf, Live
<1> QED
  BY <1>1, <1>2, <1>3, <1>4, <1>5, <1>6, <1>7 DEF IInv

LEMMA ExpireStep ==
    ASSUME IInv, NEW j \in Jobs, Expire(j)
    PROVE  IInv'
<1>1. TypeOK'
  <2>1. [task[j] EXCEPT !.state = "expired", !.status = "PENDING", !.content = None] \in Task
    BY DEF IInv, TypeOK, Task, Contents
  <2>2. task' \in [Jobs -> Task]
    BY <2>1 DEF Expire, IInv, TypeOK
  <2> QED
    BY <2>2 DEF Expire, IInv, TypeOK
<1>2. RequestsSound'
  BY DEF Expire, IInv, TypeOK, RequestsSound, Sound, Answer
<1>3. RunnersSound'
  BY DEF Expire, IInv, TypeOK, RunnersSound
<1>4. TasksSound'
  BY DEF Expire, IInv, TypeOK, TasksSound
<1>5. JobsSound'
  BY DEF Expire, IInv, TypeOK, JobsSound, JobsHaveScripts, Live
<1>6. RunsAreRecorded'
  BY DEF Expire, IInv, TypeOK, RunsAreRecorded, Live
<1>7. RequestsApart' /\ FoundAgree' /\ FilelessScriptWasRun'
  BY DEF Expire, IInv, RequestsApart, FoundAgree, FilelessScriptWasRun, JobsOf, Live
<1> QED
  BY <1>1, <1>2, <1>3, <1>4, <1>5, <1>6, <1>7 DEF IInv

-----------------------------------------------------------------------------
(* The theorems.                                                           *)

LEMMA InitSound == Init => IInv
<1> SUFFICES ASSUME Init PROVE IInv
  OBVIOUS
<1>1. Idle \in Request
  BY RequestTyped
<1>2. TypeOK
  BY <1>1, CrashesAssumption DEF Init, TypeOK, JobRow, Task, Contents
<1>3. RequestsSound /\ RequestsApart /\ FoundAgree
  BY DEF Init, RequestsSound, RequestsApart, FoundAgree, Sound, Idle
<1>4. RunnersSound /\ TasksSound /\ JobsSound
  BY DEF Init, RunnersSound, TasksSound, JobsSound, JobsHaveScripts, Live
<1>5. RunsAreRecorded /\ FilelessScriptWasRun
  BY DEF Init, RunsAreRecorded, FilelessScriptWasRun, Live, None
<1> QED
  BY <1>2, <1>3, <1>4, <1>5 DEF IInv

LEMMA StutterSound == IInv /\ UNCHANGED vars => IInv'
<1> SUFFICES ASSUME IInv, UNCHANGED vars PROVE IInv'
  OBVIOUS
<1>1. TypeOK' /\ RequestsSound' /\ RequestsApart' /\ FoundAgree'
  BY DEF IInv, TypeOK, RequestsSound, RequestsApart, FoundAgree, Sound, Answer, vars
<1>2. RunnersSound' /\ TasksSound' /\ JobsSound'
  BY DEF IInv, RunnersSound, TasksSound, JobsSound, JobsHaveScripts, Live, vars
<1>3. RunsAreRecorded' /\ FilelessScriptWasRun'
  BY DEF IInv, RunsAreRecorded, FilelessScriptWasRun, JobsOf, Live, vars
<1> QED
  BY <1>1, <1>2, <1>3 DEF IInv

LEMMA NextSound == IInv /\ [Next]_vars => IInv'
<1> SUFFICES ASSUME IInv, [Next]_vars PROVE IInv'
  OBVIOUS
<1>1. ASSUME NEW p \in Processes, Start(p) PROVE IInv'
  BY <1>1, SaveFileStep, FindToEditStep, DeleteJobsStep, FindToRunStep, ReadResultsStep
     DEF Start
<1>2. ASSUME NEW p \in Processes, Continue(p) PROVE IInv'
  BY <1>2, InsertScriptStep, WriteContentStep, RemoveFileStep, DeleteScriptStep,
     SendTaskStep, InsertJobStep, RecordResultsStep DEF Continue
<1>3. ASSUME NEW p \in Processes, Crash(p) PROVE IInv'
  BY <1>3, CrashStep
<1>4. ASSUME NEW s \in Scripts, DropProject(s) PROVE IInv'
  BY <1>4, DropProjectStep
<1>5. ASSUME NEW r \in Runners, RunStep(r) PROVE IInv'
  BY <1>5, TakeStep, LoadStep, LoadFailsStep, RunStepSound DEF RunStep
<1>6. ASSUME NEW r \in Runners, LoseTask(r) PROVE IInv'
  BY <1>6, LoseTaskStep
<1>7. ASSUME NEW j \in Jobs, Expire(j) PROVE IInv'
  BY <1>7, ExpireStep
<1>8. CASE UNCHANGED vars
  BY <1>8, StutterSound
<1> QED
  BY <1>1, <1>2, <1>3, <1>4, <1>5, <1>6, <1>7, <1>8 DEF Next

\* The inductive invariant: what requests, tasks and rows know of one another.
THEOREM Invariant == Spec => []IInv
  BY InitSound, NextSound, PTL DEF Spec

\* Rows, tasks, requests and runners keep their form.
THEOREM TypeCorrect == Spec => []TypeOK
<1>1. IInv => TypeOK
  BY DEF IInv
<1> QED
  BY <1>1, Invariant, PTL

\* A job in the list belongs to a script that exists, whatever deletions race its run.
THEOREM JobsScripted == Spec => []JobsHaveScripts
<1>1. IInv => JobsHaveScripts
  BY DEF IInv, JobsSound
<1> QED
  BY <1>1, Invariant, PTL

\* As long as no process dies, a task that was sent is listed or about to be, or its
\* script is gone.
THEOREM RunsRecorded == Spec => []RunsAreRecorded
<1>1. IInv => RunsAreRecorded
  BY DEF IInv
<1> QED
  BY <1>1, Invariant, PTL

\* As long as no process dies, a listed script misses its file only while it is deleted,
\* or because a run was submitted under the deletion.
THEOREM FilesMissedByRuns == Spec => []FilelessScriptWasRun
<1>1. IInv => FilelessScriptWasRun
  BY DEF IInv
<1> QED
  BY <1>1, Invariant, PTL

\* The row of a job that ended changes only by its deletion.
THEOREM EndsFinal == Spec => EndIsFinal
<1>1. ASSUME IInv, [Next]_vars, NEW j \in Jobs, job[j].status \in Ended
      PROVE  job'[j] = job[j] \/ job'[j].status = "deleted"
  <2>1. job[j] \in JobRow /\ Live(j)
    BY <1>1 DEF IInv, TypeOK, Live, Ended, None
  <2>2. ASSUME NEW p \in Processes, DeleteScript(p)
        PROVE  job'[j] = job[j] \/ job'[j].status = "deleted"
    BY <2>1, <2>2 DEF DeleteScript, JobRow
  <2>3. ASSUME NEW s \in Scripts, DropProject(s)
        PROVE  job'[j] = job[j] \/ job'[j].status = "deleted"
    BY <2>1, <2>3 DEF DropProject, JobRow
  <2>4. ASSUME NEW p \in Processes, InsertJob(p)
        PROVE  job'[j] = job[j]
    <3>1. request[p].job # j
      BY <1>1, <2>1, <2>4 DEF InsertJob, IInv, RequestsSound, Sound, Live
    <3> QED
      BY <1>1, <2>4, <3>1 DEF InsertJob, IInv, TypeOK
  <2>5. ASSUME NEW p \in Processes, RecordResults(p)
        PROVE  job'[j] = job[j]
    <3>1. CASE \E f \in request[p].found : f.job = j
      <4>1. PICK g : /\ g = CHOOSE h \in request[p].found : h.job = j
                     /\ g \in request[p].found /\ g.job = j
        BY <3>1
      <4>2. g.status = job[j].status /\ g.content = job[j].content
        BY <1>1, <4>1 DEF IInv, RequestsSound, Sound
      <4>3. job'[j] = job[j] \/ job'[j] = [job[j] EXCEPT !.status = g.status, !.content = g.content]
        BY <2>5, <3>1, <4>1, Zenon DEF RecordResults
      <4> QED
        BY <2>1, <4>2, <4>3 DEF JobRow
    <3>2. CASE ~\E f \in request[p].found : f.job = j
      BY <2>5, <3>2 DEF RecordResults
    <3> QED
      BY <3>1, <3>2
  <2>6. CASE UNCHANGED job
    BY <2>6
  <2>7. \/ \E p \in Processes : DeleteScript(p) \/ InsertJob(p) \/ RecordResults(p)
        \/ \E s \in Scripts : DropProject(s)
        \/ UNCHANGED job
    BY <1>1 DEF Next, Start, Continue, RunStep, SaveFile, InsertScript, FindToEdit,
       WriteContent, DeleteJobs, RemoveFile, FindToRun, SendTask, ReadResults, Crash,
       Take, Load, LoadFails, Run, Store, LoseTask, Expire, vars
  <2> QED
    BY <2>2, <2>3, <2>4, <2>5, <2>6, <2>7
<1>2. IInv /\ [Next]_vars => [\A j \in Jobs : job[j].status \in Ended =>
          job'[j] = job[j] \/ job'[j].status = "deleted"]_vars
  BY <1>1
<1> QED
  BY <1>2, Invariant, PTL DEF Spec, EndIsFinal

-----------------------------------------------------------------------------
(* ScriptJobs implements JobLife.                                          *)

\* Only who has read results holds any, and a task that was not sent has no script.
HeldSound ==
    /\ \A p \in Processes : request[p].step # "synced" => request[p].found = {}
    /\ \A j \in Jobs : task[j].state = "unused" => task[j].script = None

LEMMA HeldStaysSound ==
    ASSUME IInv, HeldSound, [Next]_vars
    PROVE  HeldSound'
<1> USE DEF HeldSound
<1>1. TypeOK
  BY DEF IInv
<1>2. ASSUME NEW p \in Processes, Start(p)
      PROVE  HeldSound'
  <2>1. UNCHANGED task
    BY <1>2 DEF Start, SaveFile, FindToEdit, DeleteJobs, FindToRun, ReadResults
  <2>2. \A q \in Processes : q # p => request'[q] = request[q]
    BY <1>1, <1>2 DEF Start, SaveFile, FindToEdit, DeleteJobs, FindToRun, ReadResults, TypeOK
  <2>3. request'[p].step = "synced" \/ request'[p].found = {}
    <3>1. PICK s \in Scripts : \/ SaveFile(p, s) \/ FindToEdit(p, s) \/ DeleteJobs(p, s)
                              \/ FindToRun(p, s) \/ ReadResults(p, s)
      BY <1>2 DEF Start
    <3>2. CASE SaveFile(p, s) \/ FindToEdit(p, s)
      BY <1>1, <3>2 DEF SaveFile, FindToEdit, At, Idle, TypeOK
    <3>5. CASE DeleteJobs(p, s)
      BY <1>1, <3>5 DEF DeleteJobs, At, Idle, TypeOK
    <3>3. CASE FindToRun(p, s)
      BY <1>1, <3>3 DEF FindToRun, At, Idle, TypeOK
    <3>4. CASE ReadResults(p, s)
      BY <1>1, <3>4 DEF ReadResults, At, Idle, TypeOK
    <3> QED
      BY <3>1, <3>2, <3>3, <3>4, <3>5
  <2> QED
    BY <2>1, <2>2, <2>3
<1>3. ASSUME NEW p \in Processes, Continue(p) \/ Crash(p)
      PROVE  HeldSound'
  <2>1. \A q \in Processes : q # p => request'[q] = request[q]
    BY <1>1, <1>3 DEF Continue, Crash, InsertScript, WriteContent, RemoveFile, DeleteScript,
       SendTask, InsertJob, RecordResults, Finish, TypeOK
  <2>2. request'[p].step # "synced" => request'[p].found = {}
    <3>1. CASE Finish(p)
      BY <1>1, <3>1 DEF Finish, Idle, TypeOK
    <3>2. CASE RemoveFile(p)
      BY <1>1, <3>2 DEF RemoveFile, TypeOK, Request
    <3>3. CASE SendTask(p) /\ ~Finish(p)
      BY <1>1, <3>3 DEF SendTask, TypeOK, Request
    <3> QED
      BY <1>3, <3>1, <3>2, <3>3 DEF Continue, Crash, InsertScript, WriteContent,
         DeleteScript, InsertJob, RecordResults
  <2>3. \A j \in Jobs : task'[j].state = "unused" => task'[j] = task[j]
    BY <1>1, <1>3 DEF Continue, Crash, InsertScript, WriteContent, RemoveFile, DeleteScript,
       SendTask, InsertJob, RecordResults, TypeOK, Task
  <2> QED
    BY <2>1, <2>2, <2>3
<1>4. ASSUME NEW s \in Scripts, DropProject(s)
      PROVE  HeldSound'
  BY <1>4 DEF DropProject
<1>5. ASSUME NEW r \in Runners, RunStep(r) \/ LoseTask(r)
      PROVE  HeldSound'
  <2>1. UNCHANGED request
    BY <1>5 DEF RunStep, LoseTask, Take, Load, LoadFails, Run, Store
  <2>2. \A j \in Jobs : task'[j].state = "unused" => task'[j] = task[j]
    <3>1. ASSUME NEW j \in Jobs, Take(r, j)
          PROVE  \A k \in Jobs : task'[k].state = "unused" => task'[k] = task[k]
      BY <1>1, <3>1 DEF Take, TypeOK, Task
    <3>2. ASSUME NEW status, NEW content, Store(r, status, content)
          PROVE  \A k \in Jobs : task'[k].state = "unused" => task'[k] = task[k]
      BY <1>1, <3>2 DEF Store, TypeOK, Task
    <3>3. CASE LoseTask(r)
      BY <1>1, <3>3 DEF LoseTask, TypeOK, Task
    <3>4. CASE Load(r)
      BY <3>4 DEF Load
    <3> QED
      BY <1>5, <3>1, <3>2, <3>3, <3>4 DEF RunStep, LoadFails, Run
  <2> QED
    BY <2>1, <2>2
<1>6. ASSUME NEW j \in Jobs, Expire(j)
      PROVE  HeldSound'
  BY <1>1, <1>6 DEF Expire, TypeOK, Task
<1>7. CASE UNCHANGED vars
  BY <1>7 DEF vars
<1> QED
  BY <1>2, <1>3, <1>4, <1>5, <1>6, <1>7 DEF Next

-----------------------------------------------------------------------------
(* The mapping.                                                            *)

\* Nothing that requests know of results changes, but for those that have none.
LEMMA KnownSame ==
    ASSUME \A p \in Processes : request'[p].found = request[p].found
    PROVE  \A j : Known(j)' = Known(j)
  BY DEF Known

LEMMA OutcomeSame ==
    ASSUME \A p \in Processes : request'[p].found = request[p].found, UNCHANGED task
    PROVE  Outcome' = Outcome
<1>1. ASSUME NEW j \in Jobs
      PROVE  Known(j)' = Known(j)
  BY KnownSame
<1> QED
  BY <1>1 DEF Outcome, OutcomeOf

\* A request that holds no results goes on or ends.
LEMMA MoveSame ==
    ASSUME TypeOK, HeldSound, NEW p \in Processes, request[p].step # "synced", NEW r,
           r.found = {}, request' = [request EXCEPT ![p] = r], UNCHANGED task
    PROVE  Outcome' = Outcome
<1>1. ASSUME NEW q \in Processes
      PROVE  request'[q].found = request[q].found
  BY DEF HeldSound, TypeOK
<1> QED
  BY <1>1, OutcomeSame

LEMMA SentSame == UNCHANGED task => Sent' = Sent
  BY DEF Sent

LEMMA PageSame == UNCHANGED job => Page' = Page
  BY DEF Page

LEMMA StandingSame == UNCHANGED script => Standing' = Standing
  BY DEF Standing

\* What a request has read is what the job came to.
LEMMA FoundIsOutcome ==
    ASSUME IInv, NEW p \in Processes, NEW f \in request[p].found
    PROVE  f.job \in Jobs /\ Outcome[f.job] = Ending(f)
<1>1. /\ f.job \in Jobs
      /\ task[f.job].state \in {"ready", "expired"}
      /\ task[f.job].state = "ready" => f = Answer(f.job)
  BY DEF IInv, TypeOK, Request, RequestsSound, Sound
<1>2. f \in Known(f.job)
  BY DEF Known
<1>3. Any(Known(f.job)) \in Known(f.job)
  BY <1>2 DEF Any
<1>4. Any(Known(f.job)) = f
  <2>1. PICK q \in Processes : Any(Known(f.job)) \in request[q].found
    BY <1>3 DEF Known
  <2>2. Any(Known(f.job)).job = f.job
    BY <1>3 DEF Known
  <2> QED
    BY <2>1, <2>2 DEF IInv, FoundAgree
<1>5. CASE task[f.job].state = "ready"
  BY <1>1, <1>5 DEF Outcome, OutcomeOf, Ending, Answer
<1>6. CASE task[f.job].state = "expired"
  BY <1>1, <1>2, <1>4, <1>6 DEF Outcome, OutcomeOf
<1> QED
  BY <1>1, <1>5, <1>6

\* A step that JobLife does not see.
LEMMA LifeUnseen ==
    ASSUME UNCHANGED <<Standing, Sent, Outcome, Page>>
    PROVE  UNCHANGED Life!vars
  BY DEF Life!vars

LEMMA Forgotten ==
    ASSUME IInv, \A j \in Jobs : \/ Outcome'[j] = Outcome[j]
                                 \/ Outcome'[j] = Life!Unknown /\ task[j].state # "unused"
    PROVE  \E js \in SUBSET Jobs : Life!Forgets(js)
<1> DEFINE js == {j \in Jobs : Outcome'[j] # Outcome[j]}
<1>1. \A j \in js : Sent[j] # Life!None
  BY ScriptsAssumption DEF IInv, TasksSound, Sent, None, Life!None
<1>2. Outcome' = [j \in Jobs |-> IF j \in js THEN Life!Unknown ELSE Outcome[j]]
  <2>1. Outcome' = [j \in Jobs |-> Outcome'[j]]
    BY DEF Outcome
  <2>2. \A j \in Jobs : Outcome'[j] = IF j \in js THEN Life!Unknown ELSE Outcome[j]
    OBVIOUS
  <2> HIDE DEF js
  <2> QED
    BY <2>1, <2>2
<1> QED
  BY <1>1, <1>2 DEF Life!Forgets

\* What a request has read goes with it.
LEMMA FoundDrops ==
    ASSUME IInv, NEW p \in Processes, Finish(p), UNCHANGED task
    PROVE  \E js \in SUBSET Jobs : Life!Forgets(js)
<1> SUFFICES ASSUME NEW j \in Jobs
             PROVE  \/ Outcome'[j] = Outcome[j]
                    \/ Outcome'[j] = Life!Unknown /\ task[j].state # "unused"
  BY Forgotten
<1>1. task[j] \in Task
  BY DEF IInv, TypeOK
<1>2. Known(j)' \subseteq Known(j)
  <2>1. \A q \in Processes : request'[q].found \subseteq request[q].found
    BY DEF Finish, Idle, IInv, TypeOK
  <2> QED
    BY <2>1 DEF Known
<1>3. Known(j)' # {} => Any(Known(j)') = Any(Known(j))
  <2> SUFFICES ASSUME Known(j)' # {} PROVE Any(Known(j)') = Any(Known(j))
    OBVIOUS
  <2>1. Any(Known(j)') \in Known(j) /\ Any(Known(j)) \in Known(j)
    BY <1>2 DEF Any
  <2>2. \A f, g \in Known(j) : f = g
    BY DEF Known, IInv, FoundAgree
  <2> QED
    BY <2>1, <2>2
<1>4. CASE task[j].state \notin {"lost", "expired"}
  BY <1>1, <1>4 DEF Outcome, OutcomeOf, Task
<1>5. CASE task[j].state \in {"lost", "expired"}
  BY <1>2, <1>3, <1>5 DEF Outcome, OutcomeOf, Any, Life!Unknown, Life!None
<1> QED
  BY <1>4, <1>5

-----------------------------------------------------------------------------
(* The steps.                                                              *)

LEMMA StartKeepsLife ==
    ASSUME IInv, HeldSound, NEW p \in Processes, Start(p)
    PROVE  UNCHANGED Life!vars
<1>1. TypeOK /\ request[p] = Idle
  BY DEF IInv, Start, SaveFile, FindToEdit, DeleteJobs, FindToRun, ReadResults
<1>2. UNCHANGED <<task, job, script>>
  BY DEF Start, SaveFile, FindToEdit, DeleteJobs, FindToRun, ReadResults
<1>3. PICK s \in Scripts : \/ SaveFile(p, s) \/ FindToEdit(p, s) \/ DeleteJobs(p, s)
                           \/ FindToRun(p, s) \/ ReadResults(p, s)
  BY DEF Start
<1>4. CASE SaveFile(p, s) \/ FindToEdit(p, s) \/ DeleteJobs(p, s) \/ FindToRun(p, s)
  <2>1. PICK r : r.found = {} /\ request' = [request EXCEPT ![p] = r]
    <3>1. CASE SaveFile(p, s)
      BY <3>1 DEF SaveFile, At, Idle
    <3>2. CASE FindToEdit(p, s)
      BY <3>2 DEF FindToEdit, At, Idle
    <3>3. CASE DeleteJobs(p, s)
      BY <3>3 DEF DeleteJobs, At, Idle
    <3>4. CASE FindToRun(p, s)
      BY <3>4 DEF FindToRun, At, Idle
    <3> QED
      BY <1>4, <3>1, <3>2, <3>3, <3>4
  <2>2. Outcome' = Outcome
    <3>1. request[p].step # "synced"
      BY <1>1 DEF Idle
    <3> QED
      BY <1>1, <1>2, <2>1, <3>1, MoveSame
  <2> QED
    BY <1>2, <2>2, LifeUnseen, SentSame, PageSame, StandingSame
<1>5. CASE ReadResults(p, s)
  <2>1. PICK js \in {Outdated(s)} \cup {{j} : j \in Outdated(s)} :
            request' = [request EXCEPT ![p] =
                           [At("synced", s) EXCEPT !.found = {Answer(j) : j \in js}]]
    BY <1>5 DEF ReadResults
  <2>2. request'[p].found = {Answer(j) : j \in js}
        /\ \A q \in Processes : q # p => request'[q] = request[q]
    BY <1>1, <2>1 DEF At, Idle, TypeOK
  <2>3. request[p].found = {}
    BY <1>1 DEF Idle
  <2>4. ASSUME NEW j \in Jobs, task[j].state # "ready"
        PROVE  Known(j)' = Known(j)
    <3>1. \A f \in request'[p].found : f.job # j
      BY <2>1, <2>2, <2>4 DEF Outdated, Answer
    <3> QED
      BY <2>2, <2>3, <3>1 DEF Known
  <2>5. Outcome' = Outcome
    <3>1. \A j \in Jobs : Outcome'[j] = Outcome[j]
      BY <1>2, <2>4 DEF Outcome, OutcomeOf
    <3> QED
      BY <3>1 DEF Outcome, OutcomeOf
  <2> QED
    BY <1>2, <2>5, LifeUnseen, SentSame, PageSame, StandingSame
<1> QED
  BY <1>3, <1>4, <1>5

\* A request ends that has read nothing.
LEMMA FinishSame ==
    ASSUME IInv, HeldSound, NEW p \in Processes, request[p].step # "synced", Finish(p),
           UNCHANGED task
    PROVE  Outcome' = Outcome
  BY MoveSame DEF IInv, Finish, Idle

LEMMA InsertScriptKeepsLife ==
    ASSUME IInv, HeldSound, NEW p \in Processes, InsertScript(p)
    PROVE  [Life!Next]_(Life!vars)
<1> DEFINE s == request[p].script
<1>1. s \in Scripts /\ script[s] = None
  BY DEF InsertScript, IInv, RequestsSound, Sound
<1>2. Outcome' = Outcome /\ Sent' = Sent /\ Page' = Page
  BY FinishSame, SentSame, PageSame DEF InsertScript
<1>3. \E state \in {"listed", "gone"} : Standing' = [Standing EXCEPT ![s] = state]
  <2>1. PICK state \in {"present", "dropped"} : script' = [script EXCEPT ![s] = state]
    BY DEF InsertScript
  <2>2. Standing' = [Standing EXCEPT ![s] = IF state = "present" THEN "listed" ELSE "gone"]
    BY <1>1, <2>1 DEF Standing, IInv, TypeOK, None
  <2> QED
    BY <2>2
<1>4. Standing[s] = "new"
  BY <1>1 DEF Standing
<1> HIDE DEF s
<1>5. Life!Add(s)
  BY <1>2, <1>3, <1>4 DEF Life!Add
<1> QED
  BY <1>1, <1>5 DEF Life!Next

\* A script goes, and its jobs.
LEMMA RemovedKeepsLife ==
    ASSUME IInv, NEW s \in Scripts, script[s] = "present",
           NEW state \in {"deleted", "dropped"}, script' = [script EXCEPT ![s] = state],
           job' = [j \in Jobs |-> IF j \in JobsOf(s) THEN [job[j] EXCEPT !.status = "deleted"]
                                  ELSE job[j]],
           UNCHANGED <<task, Outcome>>
    PROVE  Life!Next
<1>1. Standing[s] = "listed" /\ Standing' = [Standing EXCEPT ![s] = "gone"]
  BY DEF Standing, IInv, TypeOK, None
<1>2. ASSUME NEW j \in Jobs
      PROVE  Page'[j] = IF Sent[j] = s /\ Page[j].status \in {"PENDING"} \cup Life!Final
                        THEN [Page[j] EXCEPT !.status = "deleted"] ELSE Page[j]
  <2>1. job[j] \in JobRow
    BY DEF IInv, TypeOK
  <2>2. j \in JobsOf(s) <=> Sent[j] = s /\ Page[j].status \in {"PENDING"} \cup Life!Final
    BY <2>1 DEF IInv, JobsSound, JobsHaveScripts, JobsOf, Live, Sent, Page, JobRow, Ended,
       Life!Final, None
  <2>3. CASE j \in JobsOf(s)
    BY <2>1, <2>2, <2>3 DEF Page, JobRow
  <2>4. CASE j \notin JobsOf(s)
    BY <2>2, <2>4 DEF Page
  <2> QED
    BY <2>3, <2>4
<1>3. Page' = [j \in Jobs |-> IF Sent[j] = s /\ Page[j].status \in {"PENDING"} \cup Life!Final
                              THEN [Page[j] EXCEPT !.status = "deleted"] ELSE Page[j]]
  <2>1. Page' = [j \in Jobs |-> Page'[j]]
    BY DEF Page
  <2> QED
    BY <1>2, <2>1
<1>4. Life!Remove(s)
  BY <1>1, <1>3, SentSame DEF Life!Remove
<1> QED
  BY <1>4 DEF Life!Next

LEMMA DeleteScriptKeepsLife ==
    ASSUME IInv, HeldSound, NEW p \in Processes, DeleteScript(p)
    PROVE  [Life!Next]_(Life!vars)
<1> DEFINE s == request[p].script
<1>1. s \in Scripts
  BY DEF DeleteScript, IInv, RequestsSound, Sound
<1>2. Outcome' = Outcome /\ UNCHANGED task
  BY FinishSame DEF DeleteScript
<1>3. CASE JobsOf(s) \subseteq request[p].locked /\ script[s] = "present"
  <2>1. script' = [script EXCEPT ![s] = "deleted"]
    BY <1>3 DEF DeleteScript, IInv, TypeOK
  <2>2. job' = [j \in Jobs |-> IF j \in JobsOf(s) THEN [job[j] EXCEPT !.status = "deleted"]
                               ELSE job[j]]
    BY <1>3 DEF DeleteScript
  <2> QED
    BY <1>1, <1>2, <1>3, <2>1, <2>2, RemovedKeepsLife
<1>4. CASE ~(JobsOf(s) \subseteq request[p].locked /\ script[s] = "present")
  <2>1. script' = script /\ job' = job
    <3>1. CASE JobsOf(s) \subseteq request[p].locked /\ script[s] # "present"
      <4>1. JobsOf(s) = {}
        BY <3>1 DEF IInv, JobsSound, JobsHaveScripts, JobsOf
      <4> QED
        BY <3>1, <4>1 DEF DeleteScript, IInv, TypeOK
    <3>2. CASE ~(JobsOf(s) \subseteq request[p].locked)
      BY <3>2 DEF DeleteScript
    <3> QED
      BY <1>4, <3>1, <3>2
  <2> QED
    BY <1>2, <2>1, LifeUnseen, SentSame, PageSame, StandingSame
<1> QED
  BY <1>3, <1>4

LEMMA DropProjectKeepsLife ==
    ASSUME IInv, NEW s \in Scripts, DropProject(s)
    PROVE  Life!Next
<1>1. Outcome' = Outcome
  BY OutcomeSame DEF DropProject
<1> QED
  BY <1>1, RemovedKeepsLife DEF DropProject

LEMMA SendTaskKeepsLife ==
    ASSUME IInv, HeldSound, NEW p \in Processes, SendTask(p)
    PROVE  [Life!Next]_(Life!vars)
<1> DEFINE s == request[p].script
           j == request[p].job
<1>1. /\ s \in Scripts /\ script[s] # None
      /\ j \in Jobs /\ task[j].state = "unused" /\ task[j].script = None
      /\ task[j] \in Task
  BY DEF SendTask, IInv, TypeOK, RequestsSound, Sound, HeldSound
<1>2. UNCHANGED <<script, job>>
  BY DEF SendTask
<1>3. CASE s \in files
  <2>1. task' = [task EXCEPT ![j] = [@ EXCEPT !.state = "queued", !.script = s]]
    BY <1>3 DEF SendTask
  <2>2. \A q \in Processes : request'[q].found = request[q].found
    BY <1>3 DEF SendTask, IInv, TypeOK, Request
  <2>3. Outcome' = Outcome
    <3>2. ASSUME NEW k \in Jobs, k # j
          PROVE  Outcome'[k] = Outcome[k]
      <4>1. Known(k)' = Known(k) /\ task'[k] = task[k]
        BY <2>1, <2>2, <3>2, KnownSame DEF IInv, TypeOK
      <4> QED
        BY <4>1 DEF Outcome, OutcomeOf
    <3>3. Outcome'[j] = Outcome[j]
      BY <1>1, <2>1 DEF Outcome, OutcomeOf, IInv, TypeOK, Task
    <3> QED
      BY <3>2, <3>3 DEF Outcome
  <2>4. Sent' = [Sent EXCEPT ![j] = s] /\ Sent[j] = Life!None
    BY <1>1, <2>1 DEF Sent, IInv, TypeOK, Task, None, Life!None
  <2>5. Standing[s] # "new"
    BY <1>1 DEF Standing
  <2> HIDE DEF s, j
  <2>6. Life!Submit(j, s)
    BY <1>2, <2>3, <2>4, <2>5, PageSame, StandingSame DEF Life!Submit
  <2> QED
    BY <1>1, <2>6 DEF Life!Next
<1>4. CASE s \notin files
  <2>1. UNCHANGED task /\ Outcome' = Outcome
    BY <1>4, FinishSame DEF SendTask
  <2> QED
    BY <1>2, <2>1, LifeUnseen, SentSame, PageSame, StandingSame
<1> QED
  BY <1>3, <1>4

LEMMA InsertJobKeepsLife ==
    ASSUME IInv, HeldSound, NEW p \in Processes, InsertJob(p)
    PROVE  [Life!Next]_(Life!vars)
<1> DEFINE s == request[p].script
           j == request[p].job
<1>1. /\ s \in Scripts /\ j \in Jobs /\ job[j].status = None
      /\ task[j].script = s
  BY DEF InsertJob, IInv, RequestsSound, Sound
<1>2. UNCHANGED <<script, task>> /\ Outcome' = Outcome
  BY FinishSame DEF InsertJob
<1>3. CASE script[s] = "present"
  <2>1. Page' = [Page EXCEPT ![j] = Life!Pending]
    <3>1. job' = [job EXCEPT ![j] = [status |-> "PENDING", script |-> s, content |-> None]]
      BY <1>3 DEF InsertJob
    <3>2. Page'[j] = Life!Pending
      BY <1>1, <3>1 DEF Page, IInv, TypeOK, None, Life!Pending, Life!None
    <3>3. \A k \in Jobs : k # j => Page'[k] = Page[k]
      BY <3>1 DEF Page, IInv, TypeOK
    <3> HIDE DEF j
    <3> QED
      BY <3>2, <3>3 DEF Page
  <2>2. Page[j].status = Life!None /\ Sent[j] = s /\ Standing[s] = "listed"
    BY <1>1, <1>3 DEF Page, Sent, Standing, None, Life!None
  <2>3. s # Life!None
    BY <1>1, ScriptsAssumption DEF None, Life!None
  <2> HIDE DEF s, j
  <2>4. Life!List(j)
    BY <1>2, <2>1, <2>2, <2>3, SentSame, StandingSame DEF Life!List
  <2> QED
    BY <1>1, <2>4 DEF Life!Next
<1>4. CASE script[s] # "present"
  BY <1>2, <1>4, LifeUnseen, SentSame, PageSame, StandingSame DEF InsertJob
<1> QED
  BY <1>3, <1>4

LEMMA RecordResultsKeepsLife ==
    ASSUME IInv, NEW p \in Processes, RecordResults(p)
    PROVE  Life!Next
<1> DEFINE found == request[p].found
           js == {j \in Jobs : job[j].status = "PENDING" /\ \E f \in found : f.job = j}
<1>1. PICK forgotten \in SUBSET Jobs : Life!Forgets(forgotten)
  BY FoundDrops DEF RecordResults
<1>2. UNCHANGED <<Standing, Sent>>
  BY SentSame, StandingSame DEF RecordResults
<1>3. CASE \A f \in found : Live(f.job)
  <2>1. ASSUME NEW j \in Jobs
        PROVE  Page'[j] = IF j \in js THEN Outcome[j] ELSE Page[j]
    <3>1. job[j] \in JobRow
      BY DEF IInv, TypeOK
    <3>2. CASE \E f \in found : f.job = j
      <4> DEFINE f == CHOOSE g \in found : g.job = j
      <4>1. f \in found /\ f.job = j
        BY <3>2
      <4>2. job'[j] = [job[j] EXCEPT !.status = f.status, !.content = f.content]
        BY <1>3, <3>2 DEF RecordResults
      <4> HIDE DEF f
      <4>3. Outcome[j] = Ending(f)
        BY <4>1, FoundIsOutcome
      <4>4. Page'[j] = Ending(f)
        BY <3>1, <4>2 DEF Page, JobRow, Ending
      <4>5. CASE job[j].status = "PENDING"
        BY <3>2, <4>3, <4>4, <4>5
      <4>6. CASE job[j].status # "PENDING"
        <5>1. job[j].status \in Ended
          BY <1>3, <3>1, <4>1, <4>6 DEF Live, JobRow
        <5>2. job[j].status = f.status /\ job[j].content = f.content
          BY <4>1, <5>1 DEF IInv, RequestsSound, Sound
        <5> QED
          BY <4>4, <4>6, <5>2 DEF Page, Ending
      <4> QED
        BY <4>5, <4>6
    <3>3. CASE ~\E f \in found : f.job = j
      BY <1>3, <3>3 DEF RecordResults, Page
    <3> QED
      BY <3>2, <3>3
  <2>2. Page' = [j \in Jobs |-> IF j \in js THEN Outcome[j] ELSE Page[j]]
    <3>1. Page' = [j \in Jobs |-> Page'[j]]
      BY DEF Page
    <3> HIDE DEF js
    <3> QED
      BY <2>1, <3>1
  <2>3. ASSUME NEW j \in js
        PROVE  Page[j].status = "PENDING" /\ Outcome[j].status \in Life!Final
    <3>1. PICK f \in found : f.job = j
      OBVIOUS
    <3>2. f.status \in Ended
      BY DEF IInv, RequestsSound, Sound
    <3>3. Outcome[j] = Ending(f)
      BY <3>1, FoundIsOutcome
    <3> QED
      BY <3>2, <3>3 DEF Page, Ending, Ended, Life!Final
  <2>4. js \in SUBSET Jobs
    OBVIOUS
  <2> HIDE DEF js
  <2>5. Life!Show(js, forgotten)
    BY <1>1, <1>2, <2>2, <2>3 DEF Life!Show
  <2> QED
    BY <2>4, <2>5 DEF Life!Next
<1>4. CASE ~\A f \in found : Live(f.job)
  <2>1. Page' = Page
    BY <1>4, PageSame DEF RecordResults
  <2>2. Life!Forget(forgotten)
    BY <1>1, <1>2, <2>1 DEF Life!Forget
  <2> QED
    BY <2>2 DEF Life!Next
<1> QED
  BY <1>3, <1>4

LEMMA ContinueKeepsLife ==
    ASSUME IInv, HeldSound, NEW p \in Processes, Continue(p)
    PROVE  [Life!Next]_(Life!vars)
<1>1. CASE WriteContent(p)
  <2>1. Outcome' = Outcome
    BY <1>1, FinishSame DEF WriteContent
  <2> QED
    BY <1>1, <2>1, LifeUnseen, SentSame, PageSame, StandingSame DEF WriteContent
<1>2. CASE RemoveFile(p)
  <2>1. \A q \in Processes : request'[q].found = request[q].found
    BY <1>2 DEF RemoveFile, IInv, TypeOK, Request
  <2>2. Outcome' = Outcome
    BY <1>2, <2>1, OutcomeSame DEF RemoveFile
  <2> QED
    BY <1>2, <2>2, LifeUnseen, SentSame, PageSame, StandingSame DEF RemoveFile
<1> QED
  BY <1>1, <1>2, InsertScriptKeepsLife, DeleteScriptKeepsLife, SendTaskKeepsLife,
     InsertJobKeepsLife, RecordResultsKeepsLife DEF Continue

LEMMA CrashKeepsLife ==
    ASSUME IInv, NEW p \in Processes, Crash(p)
    PROVE  Life!Next
<1>1. PICK js \in SUBSET Jobs : Life!Forgets(js)
  BY FoundDrops DEF Crash
<1>2. Life!Forget(js)
  BY <1>1, SentSame, PageSame, StandingSame DEF Crash, Life!Forget
<1> QED
  BY <1>2 DEF Life!Next

-----------------------------------------------------------------------------
(* The steps of the worker and of the result backend.                      *)

\* A step at one task, which no request has read.
LEMMA TaskOnly ==
    ASSUME IInv, NEW j \in Jobs, NEW t \in Task, task' = [task EXCEPT ![j] = t],
           task[j].state \in {"queued", "running"}, t.script = task[j].script,
           UNCHANGED <<script, job, request>>
    PROVE  /\ UNCHANGED <<Standing, Sent, Page>>
           /\ Sent[j] # Life!None /\ Outcome[j] = Life!Nothing
           /\ \A k \in Jobs : k # j => Outcome'[k] = Outcome[k]
           /\ Known(j)' = {}
           /\ Outcome' = [Outcome EXCEPT ![j] = OutcomeOf(j)']
<1>1. task' \in [Jobs -> Task] /\ task'[j] = t /\ \A k \in Jobs : k # j => task'[k] = task[k]
  BY DEF IInv, TypeOK
<1>2. Sent' = Sent
  <2>1. \A k \in Jobs : task'[k].script = task[k].script
    BY <1>1
  <2> QED
    BY <2>1 DEF Sent
<1>3. Sent[j] # Life!None
  BY ScriptsAssumption DEF IInv, TasksSound, Sent, None, Life!None
<1>4. Outcome[j] = Life!Nothing
  BY DEF Outcome, OutcomeOf, Life!Nothing, Life!None, None
<1>5. ASSUME NEW k \in Jobs
      PROVE  Known(k)' = Known(k)
  BY KnownSame
<1>6. ASSUME NEW k \in Jobs, k # j
      PROVE  Outcome'[k] = Outcome[k]
  BY <1>1, <1>5, <1>6 DEF Outcome, OutcomeOf
<1>7. Known(j) = {}
  BY DEF Known, IInv, RequestsSound, Sound
<1>8. Outcome' = [Outcome EXCEPT ![j] = OutcomeOf(j)']
  <2>1. Outcome'[j] = OutcomeOf(j)'
    BY DEF Outcome
  <2> QED
    BY <1>6, <2>1 DEF Outcome
<1> QED
  BY <1>2, <1>3, <1>4, <1>5, <1>6, <1>7, <1>8, PageSame, StandingSame

LEMMA TakeKeepsLife ==
    ASSUME IInv, NEW r \in Runners, NEW j \in Jobs, Take(r, j)
    PROVE  UNCHANGED Life!vars
<1> DEFINE t == [task[j] EXCEPT !.state = "running"]
<1>1. /\ t \in Task /\ t.state = "running" /\ t.script = task[j].script
      /\ task' = [task EXCEPT ![j] = t] /\ task'[j] = t
  BY DEF Take, IInv, TypeOK, Task
<1> HIDE DEF t
<1>2. /\ UNCHANGED <<Standing, Sent, Page>> /\ Outcome[j] = Life!Nothing
      /\ \A k \in Jobs : k # j => Outcome'[k] = Outcome[k]
  BY <1>1, TaskOnly DEF Take
<1>3. Outcome'[j] = Life!Nothing
  BY <1>1 DEF Outcome, OutcomeOf, Life!Nothing, Life!None, None
<1>4. Outcome' = Outcome
  <2>1. \A k \in Jobs : Outcome'[k] = Outcome[k]
    BY <1>2, <1>3
  <2> QED
    BY <2>1 DEF Outcome
<1> QED
  BY <1>2, <1>4, LifeUnseen

\* A run ends.
LEMMA StoreKeepsLife ==
    ASSUME IInv, NEW r \in Runners, runner[r].task # None,
           NEW status \in Ended, NEW content \in {"result", "error"},
           Store(r, status, content), content = "error" \/ status = "SUCCESS",
           content = "result" => script[task[runner[r].task].script] = "present"
    PROVE  Life!Next
<1>1. PICK j \in Jobs : j = runner[r].task /\ task[j].state = "running" /\ task[j] \in Task
  BY DEF IInv, TypeOK, RunnersSound
<1> DEFINE t == [task[j] EXCEPT !.state = "ready", !.status = status, !.content = content]
           end == [status |-> status, content |-> content]
<1>2. /\ t \in Task /\ t.state = "ready" /\ t.script = task[j].script
      /\ t.status = status /\ t.content = content
  BY <1>1 DEF Task, Contents, Ended
<1>3. task' = [task EXCEPT ![j] = t] /\ task'[j] = t
  BY <1>1 DEF Store, IInv, TypeOK
<1> HIDE DEF t
<1>4. /\ UNCHANGED <<Standing, Sent, Page>> /\ Sent[j] # Life!None
      /\ Outcome[j] = Life!Nothing /\ Outcome' = [Outcome EXCEPT ![j] = OutcomeOf(j)']
  BY <1>1, <1>2, <1>3, TaskOnly DEF Store
<1>5. OutcomeOf(j)' = end
  BY <1>2, <1>3 DEF OutcomeOf, Ending
<1>6. end \in Life!Ends
  BY DEF Life!Ends, Life!Final, Life!Result, Ended
<1>7. end = Life!Result => Standing[Sent[j]] = "listed"
  <2>1. task[j].script \in Scripts
    BY <1>1 DEF IInv, TasksSound
  <2>2. end = Life!Result => content = "result"
    BY DEF Life!Result
  <2> QED
    BY <1>1, <2>1, <2>2 DEF Standing, Sent, None
<1> HIDE DEF end
<1>8. Life!End(j, end)
  BY <1>4, <1>5, <1>7 DEF Life!End
<1> QED
  BY <1>1, <1>6, <1>8 DEF Life!Next

LEMMA RunStepKeepsLife ==
    ASSUME IInv, NEW r \in Runners, RunStep(r)
    PROVE  [Life!Next]_(Life!vars)
<1>1. ASSUME NEW j \in Jobs, Take(r, j)
      PROVE  UNCHANGED Life!vars
  BY <1>1, TakeKeepsLife
<1>2. CASE Load(r)
  BY <1>2, OutcomeSame, LifeUnseen, SentSame, PageSame, StandingSame DEF Load
<1>3. CASE LoadFails(r)
  BY <1>3, StoreKeepsLife DEF LoadFails, Ended
<1>4. CASE Run(r)
  <2>1. runner[r].task # None
    BY <1>4 DEF Run, IInv, RunnersSound
  <2> QED
    BY <1>4, <2>1, StoreKeepsLife DEF Run, Ended
<1> QED
  BY <1>1, <1>2, <1>3, <1>4 DEF RunStep

LEMMA LoseTaskKeepsLife ==
    ASSUME IInv, NEW r \in Runners, LoseTask(r)
    PROVE  Life!Next
<1>1. PICK j \in Jobs : j = runner[r].task /\ task[j].state = "running" /\ task[j] \in Task
  BY DEF LoseTask, IInv, TypeOK, RunnersSound
<1> DEFINE t == [task[j] EXCEPT !.state = "lost"]
<1>2. t \in Task /\ t.state = "lost" /\ t.script = task[j].script
  BY <1>1 DEF Task
<1>3. task' = [task EXCEPT ![j] = t] /\ task'[j] = t
  BY <1>1 DEF LoseTask, IInv, TypeOK
<1> HIDE DEF t
<1>4. /\ UNCHANGED <<Standing, Sent, Page>> /\ Known(j)' = {}
      /\ \A k \in Jobs : k # j => Outcome'[k] = Outcome[k]
  BY <1>1, <1>2, <1>3, TaskOnly DEF LoseTask
<1>5. Outcome'[j] = Life!Unknown
  BY <1>1, <1>2, <1>3, <1>4 DEF Outcome, OutcomeOf, Life!Unknown, Life!None, None
<1>6. PICK js \in SUBSET Jobs : Life!Forgets(js)
  BY <1>1, <1>4, <1>5, Forgotten
<1>7. Life!Forget(js)
  BY <1>4, <1>6 DEF Life!Forget
<1> QED
  BY <1>7 DEF Life!Next

LEMMA ExpireKeepsLife ==
    ASSUME IInv, NEW j \in Jobs, Expire(j)
    PROVE  Life!Next
<1>1. task[j] \in Task /\ task[j].state = "ready"
  BY DEF Expire, IInv, TypeOK
<1>2. /\ task'[j].state = "expired" /\ task'[j].script = task[j].script
      /\ \A k \in Jobs : k # j => task'[k] = task[k]
  BY <1>1 DEF Expire, IInv, TypeOK, Task
<1>3. UNCHANGED <<Standing, Sent, Page>>
  <2>1. \A k \in Jobs : task'[k].script = task[k].script
    BY <1>2
  <2> QED
    BY <2>1, PageSame, StandingSame DEF Expire, Sent
<1>4. ASSUME NEW k \in Jobs
      PROVE  Known(k)' = Known(k)
  BY KnownSame DEF Expire
<1>5. ASSUME NEW k \in Jobs, k # j
      PROVE  Outcome'[k] = Outcome[k]
  BY <1>2, <1>4, <1>5 DEF Outcome, OutcomeOf
<1>6. Outcome'[j] = Outcome[j] \/ Outcome'[j] = Life!Unknown
  <2>1. CASE Known(j) # {}
    <3>1. Any(Known(j)) \in Known(j)
      BY <2>1 DEF Any
    <3>2. Any(Known(j)) = Answer(j)
      <4>1. PICK q \in Processes : Any(Known(j)) \in request[q].found
        BY <3>1 DEF Known
      <4>2. Any(Known(j)).job = j
        BY <3>1 DEF Known
      <4> QED
        BY <1>1, <4>1, <4>2 DEF IInv, RequestsSound, Sound
    <3>3. Ending(Answer(j)) = Ending(task[j])
      BY DEF Ending, Answer
    <3> QED
      BY <1>1, <1>2, <1>4, <2>1, <3>2, <3>3 DEF Outcome, OutcomeOf
  <2>2. CASE Known(j) = {}
    BY <1>2, <1>4, <2>2 DEF Outcome, OutcomeOf, Life!Unknown, Life!None, None
  <2> QED
    BY <2>1, <2>2
<1>7. PICK js \in SUBSET Jobs : Life!Forgets(js)
  BY <1>1, <1>5, <1>6, Forgotten
<1>8. Life!Forget(js)
  BY <1>3, <1>7 DEF Life!Forget
<1> QED
  BY <1>8 DEF Life!Next

-----------------------------------------------------------------------------
LEMMA InitKeepsLife == Init => HeldSound /\ Life!Init
<1> SUFFICES ASSUME Init PROVE HeldSound /\ Life!Init
  OBVIOUS
<1>1. HeldSound
  BY DEF Init, HeldSound, Idle
<1>2. Standing = [s \in Scripts |-> "new"] /\ Sent = [j \in Jobs |-> Life!None]
  BY DEF Init, Standing, Sent, None, Life!None
<1>3. Outcome = [j \in Jobs |-> Life!Nothing]
  BY DEF Init, Outcome, OutcomeOf, None, Life!None, Life!Nothing
<1>4. Page = [j \in Jobs |-> Life!Nothing]
  BY DEF Init, Page, None, Life!None, Life!Nothing
<1> QED
  BY <1>1, <1>2, <1>3, <1>4 DEF Life!Init

LEMMA NextKeepsLife ==
    ASSUME IInv, HeldSound, [Next]_vars
    PROVE  [Life!Next]_(Life!vars)
<1>1. ASSUME NEW p \in Processes, Start(p) \/ Continue(p) \/ Crash(p)
      PROVE  [Life!Next]_(Life!vars)
  BY <1>1, StartKeepsLife, ContinueKeepsLife, CrashKeepsLife
<1>2. ASSUME NEW s \in Scripts, DropProject(s)
      PROVE  Life!Next
  BY <1>2, DropProjectKeepsLife
<1>3. ASSUME NEW r \in Runners, RunStep(r) \/ LoseTask(r)
      PROVE  [Life!Next]_(Life!vars)
  BY <1>3, RunStepKeepsLife, LoseTaskKeepsLife
<1>4. ASSUME NEW j \in Jobs, Expire(j)
      PROVE  Life!Next
  BY <1>4, ExpireKeepsLife
<1>5. CASE UNCHANGED vars
  BY <1>5, OutcomeSame, LifeUnseen, SentSame, PageSame, StandingSame DEF vars
<1> QED
  BY <1>1, <1>2, <1>3, <1>4, <1>5 DEF Next

\* Scripts and jobs implement JobLife: a job's row shows the end that its one run came to,
\* or none, and keeps it, and a script takes all its jobs from the page in one step, whatever
\* requests overtake each other, results expire or processes die.
THEOREM JobsLiveAsPromised == Spec => ImplementsJobLife
<1>1. Spec => []HeldSound
  <2>1. Init => HeldSound
    BY InitKeepsLife
  <2>2. IInv /\ HeldSound /\ [Next]_vars => HeldSound'
    BY HeldStaysSound
  <2> QED
    BY Invariant, <2>1, <2>2, PTL DEF Spec
<1>2. Init => Life!Init
  BY InitKeepsLife
<1>3. IInv /\ HeldSound /\ [Next]_vars => [Life!Next]_(Life!vars)
  BY NextKeepsLife
<1> QED
  BY Invariant, <1>1, <1>2, <1>3, PTL DEF Spec, ImplementsJobLife, Life!Spec

-----------------------------------------------------------------------------
(* WorkerTasks.                                                            *)

\* What a worker holds, it holds in a simulation step; nothing is done before it is connected.
StepSound(w) ==
    /\ step[w].phase \in {"idle", "importing"} => Held(w) = {}
    /\ step[w].phase = "loaded" => step[w].done = {}
    /\ DOMAIN step[w].hand \cap step[w].done = {}

\* Of a simulation in order: one step holds it at most, nothing was published since that step
\* began but by it, and the row is as old as what was published, unless it is to be written.
SimSound(s) ==
    /\ sim[s].state = "absent" => latest[s] = Never /\ \A w \in Workers : s \notin Held(w)
    /\ s \in Present \ disturbed =>
          /\ \A w, v \in Workers : s \in Held(w) /\ s \in Held(v) => w = v
          /\ \A w \in Workers : s \in Held(w) => latest[s] >= step[w].age
          /\ (\A w \in Workers : s \notin step[w].done) => latest[s] >= sim[s].last

TasksInv ==
    /\ TasksTypeOK
    /\ \A w \in Workers : StepSound(w)
    /\ \A s \in Sims : SimSound(s)

-----------------------------------------------------------------------------
\* Ages stay ages, and in their order.
LEMMA OlderAges ==
    /\ Never \in Nat /\ 0 \in 0 .. MaxAge /\ Never \in 0 .. Never /\ Older(Never) = Never
    /\ \A a \in 0 .. MaxAge : a \in 0 .. Never /\ Older(a) \in 0 .. MaxAge
    /\ \A a \in 0 .. Never : Older(a) \in 0 .. Never
    /\ \A a, b \in 0 .. Never : a >= b => Older(a) >= Older(b)
  BY AgeAssumption DEF Never, Older

\* Of two ages the lesser.
LEMMA MinOfTwo ==
    ASSUME NEW a \in Int, NEW b \in Int
    PROVE  Min({a, b}) \in {a, b} /\ (a >= b => Min({a, b}) >= b)
<1>1. \E m \in {a, b} : \A n \in {a, b} : m =< n
  <2>1. CASE a <= b
    BY <2>1
  <2>2. CASE ~(a <= b)
    BY <2>2
  <2> QED
    BY <2>1, <2>2
<1>2. Min({a, b}) \in {a, b} /\ \A n \in {a, b} : Min({a, b}) =< n
  BY <1>1 DEF Min
<1>3. CASE Min({a, b}) = b
  BY <1>3
<1>4. CASE Min({a, b}) = a
  BY <1>4
<1> QED
  BY <1>2, <1>3, <1>4

\* An interval is a second at least.
LEMMA IntervalsAreLong ==
    ASSUME NEW c \in Configs
    PROVE  Interval(c) \in Nat \ {0}
<1>1. CASE c.intervals = {}
  BY <1>1, AgeAssumption DEF Interval
<1>2. CASE c.intervals # {}
  <2> DEFINE m == Min(c.intervals)
  <2>1. m \in Int
    <3>1. \E x \in c.intervals : \A n \in c.intervals : x =< n
      BY <1>2, ConfigsAssumption
    <3>2. m \in c.intervals
      BY <3>1 DEF Min
    <3> QED
      BY <3>2, ConfigsAssumption
  <2>2. Max({1, m}) \in {1, m} /\ \A n \in {1, m} : Max({1, m}) >= n
    <3> HIDE DEF m
    <3>1. \E x \in {1, m} : \A n \in {1, m} : x >= n
      <4>1. CASE m >= 1
        BY <2>1, <4>1
      <4>2. CASE ~(m >= 1)
        BY <2>1, <4>2
      <4> QED
        BY <4>1, <4>2
    <3> QED
      BY <3>1 DEF Max
  <2>3. Max({1, m}) \in Int /\ Max({1, m}) >= 1
    <3> HIDE DEF m
    <3> QED
      BY <2>1, <2>2
  <2>4. Interval(c) = Max({1, m})
    BY <1>2 DEF Interval
  <2> QED
    BY <2>3, <2>4
<1> QED
  BY <1>1, <1>2

LEMMA RowsTyped ==
    /\ NoRow \in Row
    /\ \A c \in Configs :
          [state |-> "present", enabled |-> TRUE, config |-> c, last |-> Never] \in Row
<1>1. (CHOOSE c \in Configs : TRUE) \in Configs
  BY ConfigsAssumption
<1> QED
  BY <1>1, OlderAges DEF NoRow, Row

\* What a step has in hand.
Shapes == {c.shape : c \in Configs}
Hands  == UNION {[S -> Shapes] : S \in SUBSET Sims}

LEMMA HandsTyped ==
    /\ Empty \in Hands /\ DOMAIN Empty = {}
    /\ \A S \in SUBSET Sims : [S -> Shapes] \subseteq Hands
    /\ \A h \in Hands : /\ DOMAIN h \in SUBSET Sims /\ h \in [DOMAIN h -> Shapes]
                        /\ \A S : Restrict(h, DOMAIN h \cap S) \in Hands
                        /\ \A S : DOMAIN Restrict(h, DOMAIN h \cap S) = DOMAIN h \cap S
                        /\ \A S : Restrict(h, DOMAIN h \ S) \in Hands
                        /\ \A S : DOMAIN Restrict(h, DOMAIN h \ S) = DOMAIN h \ S
<1>1. \A S \in SUBSET Sims : [S -> Shapes] \subseteq Hands
  BY DEF Hands
<1>2. Empty \in [{} -> Shapes] /\ DOMAIN Empty = {}
  BY DEF Empty
<1>3. ASSUME NEW h \in Hands
      PROVE  DOMAIN h \in SUBSET Sims /\ h \in [DOMAIN h -> Shapes]
  <2>1. PICK S \in SUBSET Sims : h \in [S -> Shapes]
    BY DEF Hands
  <2> QED
    BY <2>1
<1>4. ASSUME NEW h \in Hands, NEW S \in SUBSET DOMAIN h
      PROVE  Restrict(h, S) \in Hands /\ DOMAIN Restrict(h, S) = S
  <2>1. Restrict(h, S) \in [S -> Shapes]
    BY <1>3 DEF Restrict
  <2> QED
    BY <2>1, <1>1, <1>3
<1> QED
  BY <1>1, <1>2, <1>3, <1>4

LEMMA StepsTyped ==
    /\ SimulationStep = [phase : {"idle", "loaded", "publishing", "importing"}, age : 0 .. MaxAge,
                         hand : Hands, done : SUBSET Sims]
    /\ NoStep \in SimulationStep /\ NoStep.phase = "idle" /\ NoStep.hand = Empty
    /\ NoStep.done = {} /\ NoStep.age = 0
<1>1. SimulationStep = [phase : {"idle", "loaded", "publishing", "importing"}, age : 0 .. MaxAge,
                         hand : Hands, done : SUBSET Sims]
  BY DEF SimulationStep, Hands, Shapes
<1>2. NoStep = [phase |-> "idle", age |-> 0, hand |-> Empty, done |-> {}]
  BY DEF NoStep, Empty
<1> QED
  BY <1>1, <1>2, HandsTyped, OlderAges

LEMMA DisturbTyped ==
    ASSUME TasksTypeOK, NEW S, Disturb(S)
    PROVE  disturbed' \subseteq Sims /\ latest' \in [Sims -> 0 .. Never]
<1>1. disturbed' \subseteq Sims
  BY DEF Disturb, TasksTypeOK, Present
<1>2. \A s \in Sims : latest[s] \in 0 .. Never
  BY DEF TasksTypeOK
<1> QED
  BY <1>1, <1>2, OlderAges DEF Disturb

-----------------------------------------------------------------------------
(* Types.                                                                  *)

LEMMA TypesKept ==
    ASSUME TasksTypeOK, [TasksNext]_tasksVars
    PROVE  TasksTypeOK'
<1> USE DEF TasksTypeOK, simVars, importVars
<1>1. CASE UNCHANGED tasksVars
  BY <1>1 DEF tasksVars
<1>2. CASE Tick
  <2>1. sim' \in [Sims -> Row]
    <3>1. ASSUME NEW s \in Sims
          PROVE  [sim[s] EXCEPT !.last = Older(@)] \in Row
      <4>1. sim[s] \in Row /\ Older(sim[s].last) \in 0 .. Never
        BY OlderAges DEF Row
      <4> QED
        BY <4>1 DEF Row
    <3> QED
      BY <1>2, <3>1 DEF Tick
  <2>2. step' \in [Workers -> SimulationStep]
    <3>1. ASSUME NEW w \in Workers
          PROVE  [step[w] EXCEPT !.age = Older(@)] \in SimulationStep
      <4>1. step[w] \in SimulationStep
        OBVIOUS
      <4>2. Older(step[w].age) \in 0 .. MaxAge
        BY <4>1, OlderAges, StepsTyped
      <4> QED
        BY <4>1, <4>2, StepsTyped
    <3> QED
      BY <1>2, <3>1 DEF Tick
  <2>3. latest' \in [Sims -> 0 .. Never]
    BY <1>2, OlderAges DEF Tick
  <2> QED
    BY <1>2, <2>1, <2>2, <2>3 DEF Tick
<1>3. CASE start_or_stop_simulation
  BY <1>3 DEF start_or_stop_simulation, tasksVars
<1>4. ASSUME NEW s \in Sims,
             \/ create_simulated_thing(s) \/ update_simulation_config(s)
             \/ delete_simulated_thing(s) \/ ThingDeleted(s)
      PROVE  TasksTypeOK'
  <2>1. CASE create_simulated_thing(s)
    BY <2>1, RowsTyped DEF create_simulated_thing
  <2>2. CASE update_simulation_config(s)
    <3>1. PICK c \in Configs, on \in BOOLEAN :
              sim' = [sim EXCEPT ![s].config = c, ![s].enabled = on]
      BY <2>2 DEF update_simulation_config
    <3>2. [sim[s] EXCEPT !.config = c, !.enabled = on] \in Row
      BY DEF Row
    <3>3. sim' \in [Sims -> Row]
      BY <3>1, <3>2
    <3> QED
      BY <2>2, <3>3 DEF update_simulation_config
  <2>3. CASE delete_simulated_thing(s)
    <3>1. [NoRow EXCEPT !.state = "deleted"] \in Row
      BY RowsTyped DEF Row
    <3> QED
      BY <2>3, <3>1, OlderAges DEF delete_simulated_thing
  <2>4. CASE ThingDeleted(s)
    BY <2>4 DEF ThingDeleted
  <2> QED
    BY <1>4, <2>1, <2>2, <2>3, <2>4
<1>5. ASSUME NEW w \in Workers,
             \/ BeginStep(w) \/ Connect(w) \/ ConnectFails(w) \/ Commit(w) \/ CommitFails(w)
             \/ LoseWorker(w)
      PROVE  TasksTypeOK'
  <2>0. step[w] \in SimulationStep
    OBVIOUS
  <2>1. CASE BeginStep(w)
    <3> DEFINE due == {s \in Sims : Due(s)}
    <3> DEFINE hand == [s \in due |-> sim[s].config.shape]
    <3> DEFINE new == [NoStep EXCEPT !.phase = "loaded", !.hand = hand]
    <3>1. hand \in [due -> Shapes]
      BY DEF Shapes, Row
    <3>2. hand \in Hands
      BY <3>1, HandsTyped
    <3>3. new \in SimulationStep
      <4> HIDE DEF hand
      <4> QED
        BY <3>2, StepsTyped
    <3>4. step' = [step EXCEPT ![w] = new]
      BY <2>1 DEF BeginStep
    <3>5. step' \in [Workers -> SimulationStep]
      <4> HIDE DEF new
      <4> QED
        BY <3>3, <3>4
    <3>6. disturbed' \subseteq Sims /\ latest' \in [Sims -> 0 .. Never]
      BY <2>1, DisturbTyped DEF BeginStep
    <3> QED
      BY <2>1, <3>5, <3>6 DEF BeginStep
  <2>2. CASE Connect(w)
    <3> DEFINE new == [step[w] EXCEPT !.phase = "publishing",
                           !.hand = Restrict(@, DOMAIN @ \cap things)]
    <3>1. Restrict(step[w].hand, DOMAIN step[w].hand \cap things) \in Hands
      BY <2>0, HandsTyped, StepsTyped
    <3>2. new \in SimulationStep
      BY <2>0, <3>1, StepsTyped
    <3>3. step' = [step EXCEPT ![w] = new]
      BY <2>2 DEF Connect
    <3>4. step' \in [Workers -> SimulationStep]
      <4> HIDE DEF new
      <4> QED
        BY <3>2, <3>3
    <3> QED
      BY <2>2, <3>4 DEF Connect
  <2>3. CASE ConnectFails(w)
    <3>1. [step[w] EXCEPT !.phase = "publishing", !.hand = Empty] \in SimulationStep
      BY <2>0, HandsTyped, StepsTyped
    <3>2. step' \in [Workers -> SimulationStep]
      BY <2>3, <3>1, StepsTyped DEF ConnectFails
    <3> QED
      BY <2>3, <3>2 DEF ConnectFails
  <2>4. CASE Commit(w)
    <3>1. step' \in [Workers -> SimulationStep]
      BY <2>4, StepsTyped DEF Commit
    <3>2. CASE step[w].done \subseteq Present
      <4>1. \A s \in Sims : [sim[s] EXCEPT !.last = step[w].age] \in Row
        <5>1. step[w].age \in 0 .. Never
          BY <2>0, StepsTyped, OlderAges
        <5> QED
          BY <5>1 DEF Row
      <4>2. sim' \in [Sims -> Row]
        BY <2>4, <3>2, <4>1 DEF Commit
      <4> QED
        BY <2>4, <3>1, <3>2, <4>2 DEF Commit
    <3>3. CASE ~(step[w].done \subseteq Present)
      <4>1. Disturb(step[w].done)
        BY <2>4, <3>3 DEF Commit
      <4> QED
        BY <2>4, <3>1, <3>3, <4>1, DisturbTyped DEF Commit
    <3> QED
      BY <3>2, <3>3
  <2>5. CASE CommitFails(w)
    BY <2>5, StepsTyped, DisturbTyped DEF CommitFails
  <2>6. CASE LoseWorker(w)
    <3>1. upload' \in [Imports -> {"none", "writing", "queued", "running", "ended", "lost"}]
      BY <2>6 DEF LoseWorker
    <3> QED
      BY <2>6, <3>1, StepsTyped, DisturbTyped DEF LoseWorker
  <2> QED
    BY <1>5, <2>1, <2>2, <2>3, <2>4, <2>5, <2>6
<1>6. ASSUME NEW w \in Workers, NEW s \in Sims, Publish(w, s)
      PROVE  TasksTypeOK'
  <2>1. PICK raises \in BOOLEAN :
            step' = [step EXCEPT ![w].hand = Restrict(@, DOMAIN @ \ {s}),
                                 ![w].done = IF raises THEN @ ELSE @ \cup {s}]
    BY <1>6 DEF Publish
  <2>2. step[w] \in SimulationStep
    OBVIOUS
  <2>3. Restrict(step[w].hand, DOMAIN step[w].hand \ {s}) \in Hands
    BY <2>2, HandsTyped, StepsTyped
  <2>4. step' \in [Workers -> SimulationStep]
    BY <2>1, <2>2, <2>3, StepsTyped
  <2>5. latest' \in [Sims -> 0 .. Never]
    <3>1. Min({latest[s], step[w].age}) \in 0 .. Never
      <4>1. latest[s] \in 0 .. Never /\ step[w].age \in 0 .. Never
        BY <2>2, StepsTyped, OlderAges
      <4>2. latest[s] \in Int /\ step[w].age \in Int
        BY <4>1
      <4> QED
        BY <4>1, <4>2, MinOfTwo
    <3> QED
      BY <1>6, <3>1 DEF Publish
  <2> QED
    BY <1>6, <2>4, <2>5 DEF Publish
<1>7. ASSUME NEW w \in Workers, NEW i \in Imports, TakeImport(w, i) \/ EndImport(w, i)
      PROVE  TasksTypeOK'
  <2>1. CASE TakeImport(w, i)
    <3>1. step[w] \in SimulationStep
      OBVIOUS
    <3>2. [step[w] EXCEPT !.phase = "importing"] \in SimulationStep
      BY <3>1, StepsTyped
    <3>3. step' \in [Workers -> SimulationStep]
      BY <2>1, <3>2 DEF TakeImport
    <3> QED
      BY <2>1, <3>3 DEF TakeImport
  <2>2. CASE EndImport(w, i)
    BY <2>2, StepsTyped DEF EndImport
  <2> QED
    BY <1>7, <2>1, <2>2
<1>8. ASSUME NEW i \in Imports,
             BeginUpload(i) \/ RefuseUpload(i) \/ Submit(i) \/ LoseImport(i)
      PROVE  TasksTypeOK'
  BY <1>8 DEF BeginUpload, RefuseUpload, Submit, LoseImport
<1> QED
  BY <1>1, <1>2, <1>3, <1>4, <1>5, <1>6, <1>7, <1>8 DEF TasksNext

-----------------------------------------------------------------------------
\* A step stays sound: it is dropped, grows older, or goes on to its next phase.
LEMMA StepsStaySound ==
    ASSUME TasksInv, [TasksNext]_tasksVars, TasksTypeOK', NEW w \in Workers
    PROVE  StepSound(w)'
<1> USE DEF TasksTypeOK, simVars, importVars
<1>1. StepSound(w)
  BY DEF TasksInv
<1>2. CASE step'[w] = step[w]
  BY <1>1, <1>2 DEF StepSound, Held
<1>3. CASE step'[w] = NoStep
  BY <1>3, StepsTyped, HandsTyped DEF StepSound, Held
<1>4. CASE /\ step'[w].phase = step[w].phase /\ step'[w].hand = step[w].hand
           /\ step'[w].done = step[w].done
  BY <1>1, <1>4 DEF StepSound, Held
<1>5. CASE step'[w].phase = "publishing" /\ DOMAIN step'[w].hand \cap step'[w].done = {}
  BY <1>5 DEF StepSound
<1>6. CASE step'[w].phase = "loaded" /\ step'[w].done = {}
  BY <1>6 DEF StepSound
<1>7. CASE step'[w].phase = "importing" /\ step'[w].hand = step[w].hand
           /\ step'[w].done = step[w].done /\ step[w].phase = "idle"
  BY <1>1, <1>7 DEF StepSound, Held
<1> DEFINE Change ==
      \/ step'[w] = step[w]
      \/ step'[w] = NoStep
      \/ /\ step'[w].phase = step[w].phase /\ step'[w].hand = step[w].hand
         /\ step'[w].done = step[w].done
      \/ /\ step'[w].phase = "publishing"
         /\ DOMAIN step'[w].hand \cap step'[w].done = {}
      \/ /\ step'[w].phase = "loaded"
         /\ step'[w].done = {}
      \/ /\ step[w].phase = "idle" /\ step'[w].phase = "importing"
         /\ step'[w].hand = step[w].hand /\ step'[w].done = step[w].done
<1>8. Change
  <2> USE DEF TasksInv
  <2>1. CASE UNCHANGED step
    BY <2>1
  <2>2. CASE Tick
    <3>1. step[w] \in SimulationStep
      OBVIOUS
    <3>2. \/ step'[w] = step[w] \/ step'[w] = [step[w] EXCEPT !.age = Older(@)]
      BY <2>2 DEF Tick
    <3> QED
      BY <3>1, <3>2, StepsTyped
  <2>3. ASSUME NEW v \in Workers,
               \/ BeginStep(v) \/ Connect(v) \/ ConnectFails(v) \/ Commit(v) \/ CommitFails(v)
               \/ LoseWorker(v) \/ (\E s \in Sims : Publish(v, s))
               \/ \E i \in Imports : TakeImport(v, i) \/ EndImport(v, i)
        PROVE  Change
    <3>1. CASE v # w
      BY <2>3, <3>1 DEF BeginStep, Connect, ConnectFails, Commit, CommitFails, LoseWorker,
                        Publish, TakeImport, EndImport
    <3>2. CASE v = w /\ (\/ Commit(w) \/ CommitFails(w) \/ LoseWorker(w)
                        \/ \E i \in Imports : EndImport(w, i))
      BY <3>2 DEF Commit, CommitFails, LoseWorker, EndImport
    <3>3. CASE BeginStep(w)
      BY <3>3, StepsTyped DEF BeginStep
    <3>4. CASE Connect(w) \/ ConnectFails(w)
      <4>1. step[w].phase = "loaded" /\ step[w].done = {} /\ step[w] \in SimulationStep
        BY <3>4, <1>1 DEF Connect, ConnectFails, StepSound
      <4>2. step'[w] = NoStep \/ (step'[w].phase = "publishing" /\ step'[w].done = {})
        BY <3>4, <4>1, StepsTyped DEF Connect, ConnectFails
      <4> QED
        BY <4>2
    <3>5. ASSUME NEW s \in Sims, Publish(w, s)
          PROVE  Change
      <4>1. PICK raises \in BOOLEAN :
                step' = [step EXCEPT ![w].hand = Restrict(@, DOMAIN @ \ {s}),
                                     ![w].done = IF raises THEN @ ELSE @ \cup {s}]
        BY <3>5 DEF Publish
      <4>2. step[w].phase = "publishing" /\ step[w] \in SimulationStep
        BY <3>5 DEF Publish
      <4>3. /\ step'[w].phase = "publishing"
            /\ step'[w].hand = Restrict(step[w].hand, DOMAIN step[w].hand \ {s})
            /\ step'[w].done \subseteq step[w].done \cup {s}
        BY <4>1, <4>2, StepsTyped
      <4>4. DOMAIN step'[w].hand = DOMAIN step[w].hand \ {s}
        BY <4>3 DEF Restrict
      <4> QED
        BY <1>1, <4>3, <4>4 DEF StepSound
    <3>6. ASSUME NEW i \in Imports, TakeImport(w, i)
          PROVE  Change
      BY <3>6, StepsTyped DEF TakeImport, IsFree
    <3> QED
      BY <2>3, <3>1, <3>2, <3>3, <3>4, <3>5, <3>6
  <2>4. ASSUME NEW s \in Sims,
               \/ create_simulated_thing(s) \/ update_simulation_config(s)
               \/ delete_simulated_thing(s) \/ ThingDeleted(s)
        PROVE  UNCHANGED step
    BY <2>4 DEF create_simulated_thing, update_simulation_config, delete_simulated_thing,
                ThingDeleted
  <2>5. ASSUME NEW i \in Imports,
               BeginUpload(i) \/ RefuseUpload(i) \/ Submit(i) \/ LoseImport(i)
        PROVE  UNCHANGED step
    BY <2>5 DEF BeginUpload, RefuseUpload, Submit, LoseImport
  <2> QED
    BY <2>1, <2>2, <2>3, <2>4, <2>5 DEF TasksNext, start_or_stop_simulation, tasksVars
<1> QED
  BY <1>2, <1>3, <1>4, <1>5, <1>6, <1>7, <1>8

\* A simulation stays sound when it is only let go of.
LEMMA LetGo ==
    ASSUME NEW s \in Sims, SimSound(s),
           \A w \in Workers : s \in Held(w)' => s \in Held(w) /\ step'[w].age = step[w].age,
           s \in (Present \ disturbed)' =>
               /\ s \in Present \ disturbed
               /\ latest'[s] = latest[s] /\ sim'[s].last = sim[s].last
               /\ \A w \in Workers : s \in step[w].done => s \in step'[w].done,
           sim'[s].state = "absent" =>
               sim[s].state = "absent" /\ (latest'[s] = latest[s] \/ latest'[s] = Never)
    PROVE  SimSound(s)'
  BY DEF SimSound

\* Disturb lets be what it does not name.
LEMMA Undisturbed ==
    ASSUME NEW S, Disturb(S), NEW s \in Sims
    PROVE  /\ disturbed \subseteq disturbed'
           /\ s \notin disturbed' => latest'[s] = latest[s] /\ ~(s \in S /\ s \in Present)
           /\ latest'[s] = latest[s] \/ latest'[s] = Never
  BY DEF Disturb

\* Action by action; LetGo for those that take up and write nothing.
LEMMA SimsStaySound ==
    ASSUME TasksInv, [TasksNext]_tasksVars, TasksTypeOK', NEW s \in Sims
    PROVE  SimSound(s)'
<1> USE DEF TasksTypeOK, simVars, importVars
<1>0. SimSound(s) /\ \A w \in Workers : StepSound(w) /\ step[w] \in SimulationStep
  BY DEF TasksInv
<1>a. sim[s] \in Row /\ latest[s] \in 0 .. Never /\ sim[s].last \in 0 .. Never
  BY DEF TasksInv, Row
<1>1. CASE UNCHANGED <<sim, latest, disturbed, step>>
  BY <1>0, <1>1 DEF SimSound, Held, Present
<1>2. CASE Tick
  <2>1. /\ sim'[s].state = sim[s].state /\ sim'[s].last = Older(sim[s].last)
        /\ latest'[s] = Older(latest[s]) /\ disturbed' = disturbed
    BY <1>2, <1>a DEF Tick, TasksInv, Row
  <2>2. ASSUME NEW w \in Workers
        PROVE  /\ step'[w].hand = step[w].hand /\ step'[w].done = step[w].done
               /\ s \in Held(w) => step'[w].age = Older(step[w].age)
    <3>1. s \in Held(w) => step[w].phase \in {"loaded", "publishing"}
      BY <1>0, StepsTyped DEF StepSound
    <3>2. step'[w] = IF step[w].phase \in {"loaded", "publishing"}
                     THEN [step[w] EXCEPT !.age = Older(@)] ELSE step[w]
      BY <1>2 DEF Tick
    <3>3. step[w] \in SimulationStep
      BY <1>0
    <3> QED
      BY <3>1, <3>2, <3>3, StepsTyped
  <2>3. \A w \in Workers : (s \in Held(w)' <=> s \in Held(w))
    BY <2>2 DEF Held
  <2>4. \A w \in Workers : step[w].age \in 0 .. Never
    BY <1>0, StepsTyped, OlderAges
  <2>5. s \in Present' <=> s \in Present
    BY <2>1 DEF Present
  <2>6. sim'[s].state = "absent" => latest'[s] = Never /\ \A w \in Workers : s \notin Held(w)'
    BY <1>0, <2>1, <2>3, OlderAges DEF SimSound
  <2>7. s \in (Present \ disturbed)' =>
           \A w \in Workers : s \in Held(w)' => latest'[s] >= step'[w].age
    BY <1>0, <1>a, <2>1, <2>2, <2>3, <2>4, <2>5, OlderAges DEF SimSound
  <2>8. s \in (Present \ disturbed)' /\ (\A w \in Workers : s \notin step'[w].done)
            => latest'[s] >= sim'[s].last
    BY <1>0, <1>a, <2>1, <2>2, <2>5, OlderAges DEF SimSound
  <2> QED
    BY <1>0, <2>1, <2>3, <2>5, <2>6, <2>7, <2>8 DEF SimSound
<1>3. ASSUME NEW t \in Sims, create_simulated_thing(t)
      PROVE  SimSound(s)'
  <2>1. CASE t # s
    BY <1>0, <1>3, <2>1 DEF create_simulated_thing, SimSound, Held, Present, TasksInv
  <2>2. CASE t = s
    <3>1. latest[s] = Never /\ \A w \in Workers : s \notin Held(w)
      BY <1>0, <1>3, <2>2 DEF create_simulated_thing, SimSound
    <3>2. latest' = latest /\ sim'[s].state = "present" /\ sim'[s].last = Never /\ UNCHANGED step
      BY <1>3, <2>2 DEF create_simulated_thing, TasksInv
    <3> QED
      BY <3>1, <3>2, OlderAges DEF SimSound, Held
  <2> QED
    BY <2>1, <2>2
<1>4. ASSUME NEW t \in Sims, update_simulation_config(t)
      PROVE  SimSound(s)'
  <2>1. sim'[s].state = sim[s].state /\ sim'[s].last = sim[s].last
    BY <1>4, <1>a DEF update_simulation_config, TasksInv, Row
  <2> QED
    BY <1>0, <1>4, <2>1 DEF update_simulation_config, SimSound, Held, Present
<1>5. ASSUME NEW t \in Sims, delete_simulated_thing(t)
      PROVE  SimSound(s)'
  <2>1. CASE t # s
    BY <1>0, <1>5, <2>1 DEF delete_simulated_thing, SimSound, Held, Present, TasksInv
  <2>2. CASE t = s
    <3>1. sim'[s].state = "deleted"
      BY <1>5, <2>2 DEF delete_simulated_thing, TasksInv, NoRow
    <3> QED
      BY <3>1 DEF SimSound, Present
  <2> QED
    BY <2>1, <2>2
<1>6. ASSUME NEW w \in Workers, BeginStep(w)
      PROVE  SimSound(s)'
  <2> DEFINE due == {t \in Sims : Due(t)}
  <2> DEFINE over == {t \in due : \E v \in Workers : t \in Held(v)}
  <2>1. Disturb(over) /\ UNCHANGED sim /\ step[w].phase = "idle" /\ Held(w) = {}
    BY <1>6, <1>0 DEF BeginStep, IsFree, StepSound
  <2>2. DOMAIN step'[w].hand = due /\ step'[w].done = {} /\ step'[w].age = 0
    BY <1>6, StepsTyped DEF BeginStep, TasksInv
  <2>3. \A v \in Workers : v # w => step'[v] = step[v]
    BY <1>6 DEF BeginStep, TasksInv
  <2>4. Held(w)' = due /\ \A v \in Workers : v # w => Held(v)' = Held(v)
    BY <2>2, <2>3 DEF Held
  <2>5. CASE s \notin due
    <3>1. \A v \in Workers : s \in Held(v)' => s \in Held(v) /\ step'[v].age = step[v].age
      BY <2>3, <2>4, <2>5
    <3>2. \A v \in Workers : s \in step[v].done => s \in step'[v].done
      BY <2>1, <2>3 DEF Held
    <3>3. sim' = sim /\ Present' = Present
      BY <2>1 DEF Present
    <3> HIDE DEF due, over
    <3>4. disturbed \subseteq disturbed' /\ (s \notin disturbed' => latest'[s] = latest[s])
          /\ (latest'[s] = latest[s] \/ latest'[s] = Never)
      BY <2>1, Undisturbed
    <3> QED
      BY <1>0, <3>1, <3>2, <3>3, <3>4, LetGo
  <2>6. CASE s \in due
    <3>1. s \in Present
      BY <2>6 DEF Due, Present
    <3>2. SUFFICES ASSUME s \notin disturbed'
                   PROVE  SimSound(s)'
      BY <2>1, <3>1 DEF SimSound, Present
    <3>3. s \notin disturbed /\ latest'[s] = latest[s] /\ s \notin over
      <4> HIDE DEF over
      <4> QED
        BY <2>1, <3>1, <3>2, Undisturbed
    <3>4. \A v \in Workers : s \notin Held(v)
      BY <2>6, <3>3
    <3>5. latest[s] >= sim[s].last
      BY <1>0, <3>1, <3>3, <3>4 DEF SimSound, Held
    <3>6. latest[s] >= 0
      BY <1>a DEF Never
    <3>7. \A v \in Workers : s \in Held(v)' <=> v = w
      BY <2>4, <2>6, <3>4
    <3>8. sim'[s].state = "present"
      BY <2>1, <3>1 DEF Present
    <3> HIDE DEF due, over
    <3>9. sim' = sim /\ step'[w].age = 0
      BY <2>1, <2>2
    <3> QED
      BY <3>3, <3>5, <3>6, <3>7, <3>8, <3>9 DEF SimSound
  <2> QED
    BY <2>5, <2>6
<1>7. ASSUME NEW w \in Workers, Connect(w) \/ ConnectFails(w)
      PROVE  SimSound(s)'
  <2>1. /\ step[w].done = {} /\ \A v \in Workers : v # w => step'[v] = step[v]
        /\ UNCHANGED simVars
    BY <1>7, <1>0 DEF Connect, ConnectFails, StepSound, TasksInv
  <2>2. \/ step'[w].age = step[w].age /\ step'[w].done = {}
            /\ DOMAIN step'[w].hand \subseteq DOMAIN step[w].hand
        \/ step'[w] = NoStep
    <3>1. CASE Connect(w)
      <4>1. /\ step'[w].age = step[w].age /\ step'[w].done = step[w].done
            /\ step'[w].hand = Restrict(step[w].hand, DOMAIN step[w].hand \cap things)
        BY <3>1, <1>0, StepsTyped DEF Connect, TasksInv
      <4>2. DOMAIN step'[w].hand = DOMAIN step[w].hand \cap things
        BY <4>1 DEF Restrict
      <4> QED
        BY <2>1, <4>1, <4>2
    <3>2. CASE ConnectFails(w)
      <4>1. CASE step' = [step EXCEPT ![w] = NoStep]
        BY <4>1 DEF TasksInv
      <4>2. CASE step' = [step EXCEPT ![w].phase = "publishing", ![w].hand = Empty]
        BY <2>1, <4>2, <1>0, StepsTyped, HandsTyped DEF TasksInv
      <4> QED
        BY <3>2, <4>1, <4>2 DEF ConnectFails
    <3> QED
      BY <1>7, <3>1, <3>2
  <2>3. \A v \in Workers : s \in Held(v)' => s \in Held(v) /\ step'[v].age = step[v].age
    BY <2>1, <2>2, StepsTyped, HandsTyped DEF Held
  <2> QED
    BY <1>0, <2>1, <2>3, LetGo DEF Present
<1>8. ASSUME NEW w \in Workers, NEW t \in Sims, Publish(w, t)
      PROVE  SimSound(s)'
  <2>1. PICK raises \in BOOLEAN :
            /\ raises \in {FALSE, step[w].hand[t] # "list"}
            /\ step' = [step EXCEPT ![w].hand = Restrict(@, DOMAIN @ \ {t}),
                                    ![w].done = IF raises THEN @ ELSE @ \cup {t}]
    BY <1>8 DEF Publish
  <2>2. /\ step'[w].age = step[w].age
        /\ step'[w].hand = Restrict(step[w].hand, DOMAIN step[w].hand \ {t})
        /\ step'[w].done = IF raises THEN step[w].done ELSE step[w].done \cup {t}
    BY <2>1, <1>0, StepsTyped DEF TasksInv
  <2>3. DOMAIN step'[w].hand = DOMAIN step[w].hand \ {t} /\ t \in Held(w)
    BY <1>8, <2>2 DEF Publish, Held, Restrict
  <2>4. \A v \in Workers : v # w => step'[v] = step[v]
    BY <2>1 DEF TasksInv
  <2>5. \A v \in Workers : s \in Held(v)' => s \in Held(v) /\ step'[v].age = step[v].age
    BY <2>2, <2>3, <2>4 DEF Held
  <2>6. \A v \in Workers : s \in step[v].done => s \in step'[v].done
    BY <2>2, <2>4
  <2>7. sim' = sim /\ disturbed' = disturbed
    BY <1>8 DEF Publish
  <2>8. CASE latest'[s] = latest[s]
    BY <1>0, <2>5, <2>6, <2>7, <2>8, LetGo DEF Present
  <2>9. CASE latest'[s] # latest[s]
    <3>1. /\ t = s /\ s \in Present \ disturbed /\ step[w].hand[s] = "list"
          /\ latest'[s] = Min({latest[s], step[w].age})
      BY <1>8, <2>9 DEF Publish, TasksInv
    <3>2. latest[s] >= step[w].age /\ step[w].age \in 0 .. Never
      BY <1>0, <2>3, <3>1, StepsTyped, OlderAges DEF SimSound
    <3>3. latest'[s] >= step[w].age
      <4>1. latest[s] \in Int /\ step[w].age \in Int
        BY <1>a, <3>2
      <4> QED
        BY <3>1, <3>2, <4>1, MinOfTwo
    <3>4. \A v \in Workers : s \in Held(v)' => v = w
      BY <1>0, <2>3, <2>5, <3>1 DEF SimSound
    <3>5. s \in step'[w].done
      <4>1. raises = FALSE
        BY <2>1, <3>1
      <4> QED
        BY <2>2, <3>1, <4>1
    <3> QED
      BY <2>2, <2>7, <3>1, <3>3, <3>4, <3>5 DEF SimSound, Present
  <2> QED
    BY <2>8, <2>9
<1>9. ASSUME NEW w \in Workers, Commit(w) \/ CommitFails(w) \/ LoseWorker(w)
      PROVE  SimSound(s)'
  <2>1. \A v \in Workers : v # w => step'[v] = step[v]
    BY <1>9 DEF Commit, CommitFails, LoseWorker, TasksInv
  <2>2. step'[w] = NoStep /\ Held(w)' = {}
    <3>1. step'[w] = NoStep
      BY <1>9 DEF Commit, CommitFails, LoseWorker, TasksInv
    <3> QED
      BY <3>1, StepsTyped, HandsTyped DEF Held
  <2>3. \A v \in Workers : s \in Held(v)' => s \in Held(v) /\ v # w /\ step'[v].age = step[v].age
    BY <2>1, <2>2 DEF Held
  <2>4. CASE Disturb(step[w].done) /\ UNCHANGED sim
    <3>1. Present' = Present
      BY <2>4 DEF Present
    <3>2. /\ disturbed \subseteq disturbed' /\ (latest'[s] = latest[s] \/ latest'[s] = Never)
          /\ s \notin disturbed' => latest'[s] = latest[s]
                /\ ~(s \in step[w].done /\ s \in Present)
      BY <2>4, Undisturbed
    <3>3. s \in (Present \ disturbed)' =>
             \A v \in Workers : s \in step[v].done => s \in step'[v].done
      BY <2>1, <3>1, <3>2
    <3>4. s \in (Present \ disturbed)' =>
               /\ s \in Present \ disturbed
               /\ latest'[s] = latest[s] /\ sim'[s].last = sim[s].last
               /\ \A v \in Workers : s \in step[v].done => s \in step'[v].done
      BY <2>4, <3>1, <3>2, <3>3
    <3>5. sim'[s].state = "absent" =>
             sim[s].state = "absent" /\ (latest'[s] = latest[s] \/ latest'[s] = Never)
      BY <2>4, <3>2
    <3> QED
      BY <1>0, <2>3, <3>4, <3>5, LetGo
  <2>5. CASE ~(Disturb(step[w].done) /\ UNCHANGED sim)
    <3>1. /\ step[w].done \subseteq Present /\ UNCHANGED <<latest, disturbed>>
          /\ sim' = [t \in Sims |-> IF t \in step[w].done
                                    THEN [sim[t] EXCEPT !.last = step[w].age] ELSE sim[t]]
      BY <1>9, <2>5 DEF Commit, CommitFails, LoseWorker
    <3>2. sim'[s].state = sim[s].state /\ sim'[s].last = IF s \in step[w].done THEN step[w].age
                                                         ELSE sim[s].last
      BY <1>a, <3>1 DEF Row
    <3>3. s \in Present' <=> s \in Present
      BY <3>2 DEF Present
    <3>4. CASE s \notin step[w].done
      <4>1. \A v \in Workers : s \in step[v].done => s \in step'[v].done
        BY <2>1, <3>4
      <4> QED
        BY <1>0, <2>3, <3>1, <3>2, <3>3, <3>4, <4>1, LetGo
    <3>5. CASE s \in step[w].done
      <4>1. s \in Held(w) /\ sim[s].state # "absent"
        BY <1>0, <3>5 DEF Held, SimSound
      <4>2. s \in Present \ disturbed => latest[s] >= step[w].age
        BY <1>0, <4>1 DEF SimSound
      <4>3. s \in Present \ disturbed => \A v \in Workers : s \notin Held(v)'
        BY <1>0, <2>3, <4>1 DEF SimSound
      <4> QED
        BY <3>1, <3>2, <3>3, <3>5, <4>1, <4>2, <4>3 DEF SimSound
    <3> QED
      BY <3>4, <3>5
  <2> QED
    BY <2>4, <2>5
<1>10. ASSUME NEW w \in Workers, NEW i \in Imports, TakeImport(w, i) \/ EndImport(w, i)
       PROVE  SimSound(s)'
  <2>1. /\ UNCHANGED <<sim, latest, disturbed>>
        /\ \A v \in Workers : v # w => step'[v] = step[v]
    BY <1>10 DEF TakeImport, EndImport, TasksInv
  <2>2. Held(w) = {} /\ Held(w)' = {}
    <3>1. CASE TakeImport(w, i)
      <4>1. step'[w].hand = step[w].hand /\ step'[w].done = step[w].done
        BY <3>1, <1>0, StepsTyped DEF TakeImport, TasksInv
      <4>2. Held(w) = {}
        BY <3>1, <1>0 DEF TakeImport, IsFree, StepSound
      <4> QED
        BY <4>1, <4>2 DEF Held
    <3>2. CASE EndImport(w, i)
      <4>1. step'[w] = NoStep
        BY <3>2 DEF EndImport, TasksInv
      <4>2. Held(w) = {}
        BY <3>2, <1>0 DEF EndImport, StepSound
      <4> QED
        BY <4>1, <4>2, StepsTyped, HandsTyped DEF Held
    <3> QED
      BY <1>10, <3>1, <3>2
  <2>3. \A v \in Workers : s \in Held(v)' => s \in Held(v) /\ step'[v].age = step[v].age
    BY <2>1, <2>2 DEF Held
  <2>4. \A v \in Workers : s \in step[v].done => s \in step'[v].done
    BY <2>1, <2>2 DEF Held
  <2> QED
    BY <1>0, <2>1, <2>3, <2>4, LetGo DEF Present
<1>11. ASSUME NEW i \in Imports, BeginUpload(i) \/ RefuseUpload(i) \/ Submit(i) \/ LoseImport(i)
       PROVE  UNCHANGED <<sim, latest, disturbed, step>>
  BY <1>11 DEF BeginUpload, RefuseUpload, Submit, LoseImport
<1>12. ASSUME NEW t \in Sims, ThingDeleted(t)
       PROVE  UNCHANGED <<sim, latest, disturbed, step>>
  BY <1>12 DEF ThingDeleted
<1> QED
  BY <1>1, <1>2, <1>3, <1>4, <1>5, <1>6, <1>7, <1>8, <1>9, <1>10, <1>11, <1>12
     DEF TasksNext, tasksVars, start_or_stop_simulation

\* What the two theorems below rest on: the steps of the workers and the simulations are sound.
THEOREM TasksInvariant == TasksSpec => []TasksInv
<1>1. TasksInit => TasksInv
  <2> SUFFICES ASSUME TasksInit
               PROVE  TasksInv
    OBVIOUS
  <2>1. TasksTypeOK
    BY RowsTyped, StepsTyped, OlderAges DEF TasksInit, TasksTypeOK
  <2>2. \A w \in Workers : Held(w) = {} /\ step[w].done = {}
    BY StepsTyped, HandsTyped DEF TasksInit, Held
  <2>3. \A w \in Workers : StepSound(w)
    BY <2>2 DEF StepSound
  <2>4. \A s \in Sims : sim[s].state = "absent" /\ latest[s] = Never
    BY DEF TasksInit, NoRow
  <2>5. \A s \in Sims : SimSound(s)
    BY <2>2, <2>4 DEF SimSound, Present
  <2> QED
    BY <2>1, <2>3, <2>5 DEF TasksInv
<1>2. TasksInv /\ [TasksNext]_tasksVars => TasksInv'
  <2> SUFFICES ASSUME TasksInv, [TasksNext]_tasksVars
               PROVE  TasksInv'
    OBVIOUS
  <2>1. TasksTypeOK'
    BY TypesKept DEF TasksInv
  <2> QED
    BY <2>1, StepsStaySound, SimsStaySound DEF TasksInv
<1> QED
  BY <1>1, <1>2, PTL DEF TasksSpec

\* The rows of simulations, the steps at work, uploads and files are what they should be:
\* run_simulation_step, the requests of simulator.py and bulk.py, and the imports keep them so.
THEOREM TasksTypesHold == TasksSpec => []TasksTypeOK
<1>1. TasksInv => TasksTypeOK
  BY DEF TasksInv
<1> QED
  BY <1>1, TasksInvariant, PTL

\* Only BeginStep takes up a simulation.
LEMMA OnlyBeginTakesUp ==
    ASSUME TasksInv, [TasksNext]_tasksVars, NEW w \in Workers, NEW s \in Held(w)' \ Held(w)
    PROVE  BeginStep(w)
<1> USE DEF TasksTypeOK
<1>1. step[w] \in SimulationStep
  BY DEF TasksInv
<1>2. step'[w].hand # step[w].hand \/ step'[w].done # step[w].done
  BY DEF Held
<1>3. step'[w] # NoStep /\ step'[w] # step[w]
  BY <1>2, StepsTyped, HandsTyped DEF Held
<1>4. ~Tick
  <2> SUFFICES ASSUME Tick
               PROVE  FALSE
    OBVIOUS
  <2>1. step'[w] = step[w] \/ step'[w] = [step[w] EXCEPT !.age = Older(@)]
    BY DEF Tick
  <2> QED
    BY <1>1, <1>2, <2>1, StepsTyped
<1>5. ASSUME NEW v \in Workers,
             \/ Connect(v) \/ ConnectFails(v) \/ Commit(v) \/ CommitFails(v) \/ LoseWorker(v)
             \/ (\E t \in Sims : Publish(v, t))
             \/ \E i \in Imports : TakeImport(v, i) \/ EndImport(v, i)
      PROVE  FALSE
  <2>1. v = w
    BY <1>3, <1>5 DEF Connect, ConnectFails, Commit, CommitFails, LoseWorker, Publish,
                      TakeImport, EndImport, TasksInv
  <2>2. ~Commit(w) /\ ~CommitFails(w) /\ ~LoseWorker(w) /\ \A i \in Imports : ~EndImport(w, i)
    BY <1>3 DEF Commit, CommitFails, LoseWorker, EndImport, TasksInv
  <2>3. ~Connect(w)
    <3> SUFFICES ASSUME Connect(w)
                 PROVE  FALSE
      OBVIOUS
    <3>1. /\ step'[w].done = step[w].done
          /\ step'[w].hand = Restrict(step[w].hand, DOMAIN step[w].hand \cap things)
      BY <1>1, StepsTyped DEF Connect, TasksInv
    <3>2. DOMAIN step'[w].hand = DOMAIN step[w].hand \cap things
      BY <3>1 DEF Restrict
    <3> QED
      BY <3>1, <3>2 DEF Held
  <2>4. ~ConnectFails(w)
    <3> SUFFICES ASSUME step' = [step EXCEPT ![w].phase = "publishing", ![w].hand = Empty]
                 PROVE  FALSE
      BY <1>3 DEF ConnectFails, TasksInv
    <3>1. step'[w].done = step[w].done /\ step'[w].hand = Empty
      BY <1>1, StepsTyped DEF TasksInv
    <3> QED
      BY <3>1, HandsTyped DEF Held
  <2>5. \A i \in Imports : ~TakeImport(w, i)
    BY <1>1, <1>2, StepsTyped DEF TakeImport, TasksInv
  <2>6. \A t \in Sims : ~Publish(w, t)
    <3> SUFFICES ASSUME NEW t \in Sims, Publish(w, t)
                 PROVE  FALSE
      OBVIOUS
    <3>1. /\ step'[w].done \subseteq step[w].done \cup {t} /\ t \in DOMAIN step[w].hand
          /\ step'[w].hand = Restrict(step[w].hand, DOMAIN step[w].hand \ {t})
      BY <1>1, StepsTyped DEF Publish, TasksInv
    <3>2. DOMAIN step'[w].hand = DOMAIN step[w].hand \ {t}
      BY <3>1 DEF Restrict
    <3> QED
      BY <3>1, <3>2 DEF Held
  <2> QED
    BY <1>5, <2>1, <2>2, <2>3, <2>4, <2>5, <2>6
<1>6. \A v \in Workers : BeginStep(v) => v = w
  BY <1>3 DEF BeginStep, TasksInv
<1>7. ~(\E s1 \in Sims : \/ create_simulated_thing(s1) \/ update_simulation_config(s1)
                         \/ delete_simulated_thing(s1) \/ ThingDeleted(s1))
  BY <1>3 DEF create_simulated_thing, update_simulation_config, delete_simulated_thing,
              ThingDeleted
<1>8. ~(\E i \in Imports : BeginUpload(i) \/ RefuseUpload(i) \/ Submit(i) \/ LoseImport(i))
  BY <1>3 DEF BeginUpload, RefuseUpload, Submit, LoseImport
<1>9. step' # step
  BY <1>3
<1> QED
  BY <1>4, <1>5, <1>6, <1>7, <1>8, <1>9
     DEF TasksNext, tasksVars, start_or_stop_simulation

\* A simulation whose steps neither overlapped nor went uncommitted is taken up again by
\* run_simulation_step only when its interval has passed since it was last published.
THEOREM StepsArePaced == TasksSpec => Paced
<1>1. ASSUME TasksInv, [TasksNext]_tasksVars
      PROVE  [\A w \in Workers : \A s \in (Held(w)' \ Held(w)) \ disturbed' :
                 latest[s] >= Interval(sim[s].config)]_tasksVars
  <2> SUFFICES ASSUME NEW w \in Workers, NEW s \in (Held(w)' \ Held(w)) \ disturbed'
               PROVE  latest[s] >= Interval(sim[s].config)
    OBVIOUS
  <2> DEFINE due == {t \in Sims : Due(t)}
  <2>1. BeginStep(w)
    BY <1>1, OnlyBeginTakesUp
  <2>2. Held(w)' = due
    <3>1. DOMAIN step'[w].hand = due /\ step'[w].done = {}
      BY <1>1, <2>1, StepsTyped DEF BeginStep, TasksInv, TasksTypeOK
    <3> QED
      BY <3>1 DEF Held
  <2>3. s \in Sims /\ Due(s) /\ s \in Present
    BY <2>2 DEF Due, Present
  <2>4. s \notin disturbed /\ \A v \in Workers : s \notin Held(v)
    BY <2>1, <2>3, Undisturbed DEF BeginStep
  <2>5. latest[s] >= sim[s].last
    BY <1>1, <2>3, <2>4 DEF TasksInv, SimSound, Held
  <2>6. sim[s].last >= Interval(sim[s].config)
    BY <2>3 DEF Due
  <2>7. latest[s] \in Int /\ sim[s].last \in Int /\ Interval(sim[s].config) \in Int
    <3>1. sim[s] \in Row /\ latest[s] \in 0 .. Never
      BY <1>1, <2>3 DEF TasksInv, TasksTypeOK
    <3> QED
      BY <3>1, IntervalsAreLong, OlderAges DEF Row
  <2> QED
    BY <2>5, <2>6, <2>7
<1> QED
  BY <1>1, TasksInvariant, PTL DEF TasksSpec, Paced
=============================================================================
