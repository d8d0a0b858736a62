--------------------------- MODULE AlertEvaluator ---------------------------
(***************************************************************************)
(* The passive alert rules of the platform: the rows of alert_definitions  *)
(* and alerts, the Celery tasks that evaluate rules and raise or resolve   *)
(* alerts (services/alert_evaluator.py), and the requests that change the  *)
(* same rows meanwhile (api/v1/endpoints/alerts.py, computations/          *)
(* context.py).                                                            *)
(*                                                                         *)
(* Several worker processes evaluate at the same time, each with its own   *)
(* database session.  PostgreSQL runs READ COMMITTED, so every query and   *)
(* every commit is a step of its own and anything may happen in between.   *)
(* What a rule measures (a flagged ratio, a latest observation, a script's *)
(* result against a threshold) is abstracted to four readings.             *)
(***************************************************************************)
EXTENDS Integers, FiniteSets

CONSTANTS
    Rules,        \* ids of alert definitions
    Kind,         \* Kind[r]: which evaluation looks at r, a function to Kinds
    Workers,      \* Celery worker processes
    AlertIds,     \* ids of alert rows
    Readings,     \* the readings a rule's data can give
    MaxChanges    \* bound on what users, scripts, data and failures do

Kinds == {"qaqc", "sensor", "script"}

\* "none": no observation in the window;  "error": the query itself fails.
AllReadings == {"none", "clear", "breach", "error"}

NoRule  == "no rule"
NoAlert == "no alert"
Manual  == "manual"

ASSUME RulesAssumption   == Kind \in [Rules -> Kinds] /\ NoRule \notin Rules
ASSUME WorkersAssumption == Manual \notin Workers
ASSUME AlertIdsAssumption == NoAlert \notin AlertIds
ASSUME BoundsAssumption ==
    /\ Readings \subseteq AllReadings
    /\ "none" \in Readings
    /\ MaxChanges \in Nat

VARIABLES
    rule,       \* rule[r]: the definition's row, "absent", "off" or "on" (is_active)
    reading,    \* reading[r]: what an evaluation of r measures now
    alert,      \* alert[a]: the row of a: its rule, its status, who inserted it
    task,       \* task[w]: the evaluation that worker w runs
    changes     \* how many of the MaxChanges are used

vars == <<rule, reading, alert, task, changes>>

RuleStates == {"absent", "off", "on"}
Statuses   == {"unused", "active", "acknowledged", "resolved", "deleted"}
Steps      == {"idle", "script", "loop", "dedup", "insert", "lookup", "resolve"}

Unused == [rule |-> NoRule, status |-> "unused", by |-> Manual]

\* todo: loaded rules still to be evaluated; cur: the rule being evaluated;
\* found: the alert row a query returned; expired: the session has committed,
\* so that the loaded rules are read again when they are next touched.
Idle == [step |-> "idle", kind |-> "qaqc", todo |-> {}, cur |-> NoRule,
         found |-> NoAlert, expired |-> FALSE]

Row == [rule   : Rules \cup {NoRule},
        status : Statuses,
        by     : Workers \cup {Manual}]

Task == [step    : Steps,
         kind    : Kinds,
         todo    : SUBSET Rules,
         cur     : Rules \cup {NoRule},
         found   : AlertIds \cup {NoAlert},
         expired : BOOLEAN]

TypeOK ==
    /\ rule \in [Rules -> RuleStates]
    /\ reading \in [Rules -> Readings]
    /\ alert \in [AlertIds -> Row]
    /\ task \in [Workers -> Task]
    /\ changes \in 0 .. MaxChanges

Init ==
    /\ rule \in [Rules -> {"absent", "on"}]
    /\ reading = [r \in Rules |-> "none"]
    /\ alert = [a \in AlertIds |-> Unused]
    /\ task = [w \in Workers |-> Idle]
    /\ changes = 0

Change == changes < MaxChanges /\ changes' = changes + 1

Present(r) == rule[r] # "absent"

\* The rows the dedup and resolve queries select.
Active(r) == {a \in AlertIds : alert[a].rule = r /\ alert[a].status = "active"}

\* Ids a new row can take.  To keep AlertIds small, a row that is closed and
\* that no task holds may leave the model and pass its id on.
FreeIds ==
    {a \in AlertIds : /\ alert[a].status \in {"unused", "resolved", "deleted"}
                      /\ \A w \in Workers : task[w].found # a}

NewRow(a, r, by) ==
    [alert EXCEPT ![a] = [rule |-> r, status |-> "active", by |-> by]]

-----------------------------------------------------------------------------
(* Evaluation tasks.                                                       *)

\* Mutant: is_active is not asked for.
Begin_NoActiveFilter(w, k) ==
    /\ task[w].step = "idle"
    /\ task' = [task EXCEPT ![w] =
            [Idle EXCEPT !.kind = k, !.step = "loop",
                         !.todo = {r \in Rules : Kind[r] = k /\ Present(r)}]]
    /\ UNCHANGED <<rule, reading, alert, changes>>

\* A task begins: qaqc_done arrived, the periodic task was sent, or a
\* computation was taken from its queue.  A computation runs its script first.
Begin(w, k) ==
    /\ task[w].step = "idle"
    /\ task' = [task EXCEPT ![w] =
            [Idle EXCEPT !.kind = k,
                         !.step = IF k = "script" THEN "script" ELSE "loop",
                         !.todo = IF k = "script" THEN {}
                                  ELSE {r \in Rules : Kind[r] = k /\ rule[r] = "on"}]]
    /\ UNCHANGED <<rule, reading, alert, changes>>

\* ctx.alert(): one active row for every enabled rule of the script, with no
\* look at the rows that are already there; nothing when no rule is enabled.
\* The session has committed afterwards, but it holds no rule the task uses.
ScriptAlert(w) ==
    LET on == {r \in Rules : Kind[r] = "script" /\ rule[r] = "on"} IN
    /\ Change
    /\ task[w].step = "script"
    /\ on # {}
    /\ \E f \in [on -> FreeIds] :
          /\ \A r, s \in on : r # s => f[r] # f[s]
          /\ alert' = [a \in AlertIds |->
                IF \E r \in on : f[r] = a
                THEN [rule |-> CHOOSE r \in on : f[r] = a,
                      status |-> "active", by |-> Manual]
                ELSE alert[a]]
    /\ UNCHANGED <<rule, reading, task>>

\* The script returned a result: evaluate_result loads the script's rules.
\* A script that raises or returns no dict ends the task (Abandon).
ScriptDone(w) ==
    /\ task[w].step = "script"
    /\ task' = [task EXCEPT ![w].step = "loop",
                            ![w].todo = {r \in Rules : Kind[r] = "script" /\ rule[r] = "on"}]
    /\ UNCHANGED <<rule, reading, alert, changes>>

\* Worker w goes on with the rules it has left, or ends its task.
Continue(w, left, expired) ==
    task' = [task EXCEPT ![w] =
        IF left = {} THEN Idle
        ELSE [@ EXCEPT !.step = "loop", !.todo = left, !.cur = NoRule,
                       !.found = NoAlert, !.expired = expired]]

\* The loop of the task has nothing to do.
NothingToDo(w) ==
    /\ task[w].step = "loop"
    /\ task[w].todo = {}
    /\ task' = [task EXCEPT ![w] = Idle]
    /\ UNCHANGED <<rule, reading, alert, changes>>

\* Touching a loaded rule after a commit reads its row again; a deleted row
\* raises, and so does the handler that logs the rule's id: the task ends.
RowGone(w, r) == task[w].expired /\ ~Present(r)

\* A failing query leaves the task's one TimeIO connection in an aborted
\* transaction, so that every later QA/QC rule of the task fails as well; the
\* other evaluations skip only the rule.
FailedMeasure(w, r) ==
    IF task[w].kind = "qaqc"
    THEN task' = [task EXCEPT ![w] = Idle]
    ELSE Continue(w, task[w].todo \ {r}, task[w].expired)

\* One rule is measured.  Only the QA/QC evaluations act on a clear reading.
Measure(w) ==
    /\ task[w].step = "loop"
    /\ \E r \in task[w].todo :
        \/ /\ RowGone(w, r)
           /\ task' = [task EXCEPT ![w] = Idle]
        \/ /\ ~RowGone(w, r)
           /\ reading[r] = "error"
           /\ FailedMeasure(w, r)
        \/ /\ ~RowGone(w, r)
           /\ \/ reading[r] = "none"
              \/ reading[r] = "clear" /\ task[w].kind # "qaqc"
           /\ Continue(w, task[w].todo \ {r}, task[w].expired)
        \/ /\ ~RowGone(w, r)
           /\ \/ reading[r] = "breach"
              \/ reading[r] = "clear" /\ task[w].kind = "qaqc"
           /\ task' = [task EXCEPT
                ![w].step = IF reading[r] = "breach" THEN "dedup" ELSE "lookup",
                ![w].cur = r, ![w].todo = @ \ {r}]
    /\ UNCHANGED <<rule, reading, alert, changes>>

\* Mutants: no dedup; dedup that takes any earlier row for an active one.
CheckActive_NoDedup(w) ==
    /\ task[w].step = "dedup"
    /\ task' = [task EXCEPT ![w].step = "insert"]
    /\ UNCHANGED <<rule, reading, alert, changes>>

CheckActive_AnyStatus(w) ==
    /\ task[w].step = "dedup"
    /\ IF \E a \in AlertIds : alert[a].rule = task[w].cur
       THEN Continue(w, task[w].todo, task[w].expired)
       ELSE task' = [task EXCEPT ![w].step = "insert"]
    /\ UNCHANGED <<rule, reading, alert, changes>>

\* _create_alert looks for an active row of the rule before it inserts one.
CheckActive(w) ==
    /\ task[w].step = "dedup"
    /\ \/ /\ Active(task[w].cur) # {}
          /\ Continue(w, task[w].todo, task[w].expired)
       \/ /\ Active(task[w].cur) = {}
          /\ task' = [task EXCEPT ![w].step = "insert"]
    /\ UNCHANGED <<rule, reading, alert, changes>>

\* The insert and its commit.  The foreign key refuses a rule deleted in the
\* meantime; the session is not rolled back, so the rest of the task fails too.
\* (So does an insert for which the model has no id left.)
InsertAlert(w) ==
    LET r == task[w].cur IN
    /\ task[w].step = "insert"
    /\ \/ /\ Present(r)
          /\ \E a \in FreeIds : alert' = NewRow(a, r, w)
          /\ Continue(w, task[w].todo, TRUE)
       \/ /\ ~Present(r) \/ FreeIds = {}
          /\ task' = [task EXCEPT ![w] = Idle]
          /\ UNCHANGED alert
    /\ UNCHANGED <<rule, reading, changes>>

\* The else branch: .first() returns any one of the active rows, or none.
FindActive(w) ==
    LET r == task[w].cur IN
    /\ task[w].step = "lookup"
    /\ \/ /\ Active(r) = {}
          /\ Continue(w, task[w].todo, task[w].expired)
       \/ \E a \in Active(r) :
             task' = [task EXCEPT ![w].step = "resolve", ![w].found = a]
    /\ UNCHANGED <<rule, reading, alert, changes>>

\* Mutant: the new status is never committed.
ResolveFound_NoCommit(w) ==
    /\ task[w].step = "resolve"
    /\ Continue(w, task[w].todo, TRUE)
    /\ UNCHANGED <<rule, reading, alert, changes>>

\* UPDATE by primary key and commit, whatever the row's status is by now; a
\* row deleted in the meantime fails the flush and with it the task.
ResolveFound(w) ==
    LET a == task[w].found IN
    /\ task[w].step = "resolve"
    /\ \/ /\ alert[a].status # "deleted"
          /\ alert' = [alert EXCEPT ![a].status = "resolved"]
          /\ Continue(w, task[w].todo, TRUE)
       \/ /\ alert[a].status = "deleted"
          /\ task' = [task EXCEPT ![w] = Idle]
          /\ UNCHANGED alert
    /\ UNCHANGED <<rule, reading, changes>>

\* The process dies, the database or the broker is unreachable, or the script
\* fails: the task is lost (Celery acknowledged it when it was taken).
Abandon(w) ==
    /\ Change
    /\ task[w].step # "idle"
    /\ task' = [task EXCEPT ![w] = Idle]
    /\ UNCHANGED <<rule, reading, alert>>

-----------------------------------------------------------------------------
(* Users and data.                                                         *)

\* New observations, new flags, a moved window: the measurement changes.
DataChange(r) ==
    /\ Change
    /\ \E v \in Readings \ {reading[r]} : reading' = [reading EXCEPT ![r] = v]
    /\ UNCHANGED <<rule, alert, task>>

create_alert_definition(r) ==
    /\ Change
    /\ rule[r] = "absent"
    /\ \E s \in {"on", "off"} : rule' = [rule EXCEPT ![r] = s]
    /\ UNCHANGED <<reading, alert, task>>

\* PUT of is_active; the other columns of the row are part of its readings.
update_alert_definition(r) ==
    /\ Change
    /\ Present(r)
    /\ \E s \in {"on", "off"} : rule' = [rule EXCEPT ![r] = s]
    /\ UNCHANGED <<reading, alert, task>>

\* Mutant: no cascade.
delete_alert_definition_NoCascade(r) ==
    /\ Change
    /\ Present(r)
    /\ rule' = [rule EXCEPT ![r] = "absent"]
    /\ UNCHANGED <<reading, alert, task>>

\* The rows of the rule's alerts go with it (ORM cascade, ON DELETE CASCADE).
delete_alert_definition(r) ==
    /\ Change
    /\ Present(r)
    /\ rule' = [rule EXCEPT ![r] = "absent"]
    /\ alert' = [a \in AlertIds |->
            IF alert[a].rule = r THEN [alert[a] EXCEPT !.status = "deleted"]
            ELSE alert[a]]
    /\ UNCHANGED <<reading, task>>

\* Whatever the status was, a resolved alert included.
acknowledge_alert(a) ==
    /\ Change
    /\ alert[a].status \in {"active", "acknowledged", "resolved"}
    /\ alert' = [alert EXCEPT ![a].status = "acknowledged"]
    /\ UNCHANGED <<rule, reading, task>>

\* A manual alert for any existing rule, enabled or not, without dedup.
trigger_test_alert(r) ==
    /\ Change
    /\ Present(r)
    /\ \E a \in FreeIds : alert' = NewRow(a, r, Manual)
    /\ UNCHANGED <<rule, reading, task>>

-----------------------------------------------------------------------------
Advance(w) ==
    \/ ScriptDone(w)
    \/ NothingToDo(w)
    \/ Measure(w)
    \/ CheckActive(w)
    \/ InsertAlert(w)
    \/ FindActive(w)
    \/ ResolveFound(w)

Next ==
    \/ \E w \in Workers : \/ \E k \in Kinds : Begin(w, k)
                          \/ ScriptAlert(w)
                          \/ Advance(w)
                          \/ Abandon(w)
    \/ \E r \in Rules : \/ DataChange(r)
                        \/ create_alert_definition(r)
                        \/ update_alert_definition(r)
                        \/ delete_alert_definition(r)
                        \/ trigger_test_alert(r)
    \/ \E a \in AlertIds : acknowledge_alert(a)

Spec == Init /\ [][Next]_vars

\* A task that runs keeps running.  QC runs keep finishing, and the queue is
\* first in, first out: however busy the workers are with other tasks, QA/QC
\* evaluations are taken again and again.
Fairness ==
    /\ \A w \in Workers : WF_vars(Advance(w))
    /\ SF_vars(\E w \in Workers : Begin(w, "qaqc"))

FairSpec == Spec /\ Fairness

-----------------------------------------------------------------------------
(* Properties.                                                             *)

Live(a) == alert[a].status \in {"active", "acknowledged", "resolved"}

\* The dedup query of _create_alert is a read and the insert a later step, so
\* two workers can both insert.  It still bounds the damage: one worker never
\* has two active alerts of one rule, so that a rule has at most as many
\* active evaluator alerts as there are worker processes.
OneActivePerWorker ==
    \A a, b \in AlertIds :
        /\ alert[a].status = "active" /\ alert[b].status = "active"
        /\ alert[a].rule = alert[b].rule
        /\ alert[a].by = alert[b].by
        /\ alert[a].by # Manual
        => a = b

\* However deletion of a rule and the steps of running tasks interleave, no
\* row of an alert survives the row of its rule.
NoOrphanAlert == \A a \in AlertIds : Live(a) => Present(alert[a].rule)

\* No step but a QA/QC evaluation resolves an alert: what a sensor threshold or
\* a script raised stays open until somebody acknowledges it.
OnlyQaqcResolves ==
    [][\A a \in AlertIds :
          (alert[a].status = "active" /\ alert'[a].status = "resolved")
              => Kind[alert[a].rule] = "qaqc"]_vars

\* Switching a rule off (or deleting it) does not stop the tasks that have
\* loaded it.  Once they are through, nobody loads it again and no evaluation
\* raises one more alert for it, until it is switched on.
Loaded(w, r) == r \in task[w].todo \/ r = task[w].cur

Raised(r) == {a \in Active(r) : alert[a].by # Manual}

OffStaysQuiet ==
    [][\A r \in Rules :
          (rule[r] # "on" /\ \A w \in Workers : ~Loaded(w, r))
              => (\A w \in Workers : ~Loaded(w, r)') /\ Raised(r)' \subseteq Raised(r)]_vars

\* Dedup, as the comments in _create_alert put it: a rule that is already
\* active is not alerted again.  Two workers break it.
NoDuplicateActive ==
    \A a, b \in AlertIds :
        /\ alert[a].status = "active" /\ alert[b].status = "active"
        /\ alert[a].rule = alert[b].rule
        /\ alert[a].by # Manual /\ alert[b].by # Manual
        => a = b

\* A QA/QC rule whose data stays clear ends up with no active alert, the
\* duplicates included: every evaluation resolves one of them.  (Here and below:
\* once no query fails and, since AlertIds is a bound of the model, an id is left
\* for the next row; changes, lost tasks among them, end with MaxChanges.)
Undisturbed ==
    /\ <>[](\A r \in Rules : reading[r] # "error")
    /\ <>[](FreeIds # {})

ClearSettles ==
    Undisturbed =>
        \A r \in Rules :
            (Kind[r] = "qaqc" /\ <>[](rule[r] = "on" /\ reading[r] = "clear"))
                => <>[](Active(r) = {})

\* A QA/QC rule whose data stays in breach ends up with an active alert, though
\* a task that measured earlier may still resolve the one just raised.
BreachSettles ==
    Undisturbed =>
        \A r \in Rules :
            (Kind[r] = "qaqc" /\ <>[](rule[r] = "on" /\ reading[r] = "breach"))
                => <>[](Active(r) # {})
=============================================================================
