------------------------ MODULE AlertEvaluatorProofs ------------------------
(* What AlertEvaluator guarantees for any number of rules, worker processes *)
(* and alert rows.                                                          *)
EXTENDS AlertEvaluator, TLAPS

\* A worker about to insert has no active alert of the rule: dedup saw none,
\* and only the worker itself inserts under its name.
PendingHasNone ==
    \A w \in Workers, a \in AlertIds :
        task[w].step = "insert" =>
            ~(/\ alert[a].status = "active"
              /\ alert[a].rule = task[w].cur
              /\ alert[a].by = w)

\* A rule that is being evaluated is a rule of the task's kind, and the resolve
\* branch is entered by QA/QC evaluations only.
CurrentRule ==
    \A w \in Workers :
        /\ \A r \in task[w].todo : Kind[r] = task[w].kind
        /\ task[w].step = "script" => task[w].kind = "script"
        /\ task[w].step \in {"dedup", "insert", "lookup", "resolve"} =>
              task[w].cur \in Rules /\ Kind[task[w].cur] = task[w].kind
        /\ task[w].step \in {"lookup", "resolve"} => task[w].kind = "qaqc"

\* The row a worker is about to resolve is a row of the rule it evaluates.
FoundRow ==
    \A w \in Workers :
        task[w].step = "resolve" =>
            /\ task[w].found \in AlertIds
            /\ alert[task[w].found].status # "unused"
            /\ alert[task[w].found].rule = task[w].cur

\* Every row that was ever inserted belongs to a rule.
RowHasRule == \A a \in AlertIds : alert[a].status # "unused" => alert[a].rule \in Rules

IInv ==
    /\ TypeOK
    /\ OneActivePerWorker
    /\ NoOrphanAlert
    /\ PendingHasNone
    /\ CurrentRule
    /\ FoundRow
    /\ RowHasRule

-----------------------------------------------------------------------------
(* Types.                                                                  *)

LEMMA IdleType == Idle \in Task
  BY DEF Idle, Task, Steps, Kinds

\* Continue gives the worker a well-formed task.
LEMMA ContinueType ==
    ASSUME TypeOK, NEW w \in Workers, NEW left \in SUBSET Rules,
           NEW e \in BOOLEAN, Continue(w, left, e)
    PROVE  task' \in [Workers -> Task]
<1>1. CASE left = {}
      BY <1>1, IdleType DEF TypeOK, Continue
<1>2. CASE left # {}
  <2> DEFINE t == [task[w] EXCEPT !.step = "loop", !.todo = left, !.cur = NoRule,
                                  !.found = NoAlert, !.expired = e]
  <2>1. task' = [task EXCEPT ![w] = t]
        BY <1>2 DEF Continue
  <2>2. t \in Task
        BY DEF TypeOK, Task, Steps
  <2> QED
      BY <2>1, <2>2 DEF TypeOK
<1> QED
    BY <1>1, <1>2

LEMMA TypeInit == Init => TypeOK
<1> SUFFICES ASSUME Init PROVE TypeOK
    OBVIOUS
<1>1. rule \in [Rules -> RuleStates]
      BY DEF Init, RuleStates
<1>2. reading \in [Rules -> Readings] /\ changes \in 0 .. MaxChanges
      BY BoundsAssumption DEF Init
<1>3. Unused \in Row
      BY DEF Unused, Row, Statuses
<1> QED
    BY <1>1, <1>2, <1>3, IdleType DEF Init, TypeOK

\* A step that moves worker w to a well-formed task keeps the tasks well-formed.
LEMMA TaskStep ==
    ASSUME TypeOK, NEW w \in Workers, NEW t \in Task, task' = [task EXCEPT ![w] = t]
    PROVE  task' \in [Workers -> Task]
  BY DEF TypeOK

LEMMA TypeEvaluate ==
    ASSUME TypeOK, NEW w \in Workers, Advance(w)
    PROVE  TypeOK'
<1>1. task[w] \in Task
      BY DEF TypeOK
<1>2. CASE ScriptDone(w)
  <2>1. [task[w] EXCEPT !.step = "loop",
                        !.todo = {r \in Rules : Kind[r] = "script" /\ rule[r] = "on"}] \in Task
        BY <1>1 DEF Task, Steps
  <2>2. task' \in [Workers -> Task]
        BY <1>2, <2>1, TaskStep DEF ScriptDone, TypeOK
  <2> QED
      BY <1>2, <2>2 DEF ScriptDone, TypeOK
<1>3. CASE NothingToDo(w)
      BY <1>3, IdleType DEF NothingToDo, TypeOK
<1>4. CASE Measure(w)
  <2>1. PICK r \in task[w].todo :
            \/ task' = [task EXCEPT ![w] = Idle]
            \/ Continue(w, task[w].todo \ {r}, task[w].expired)
            \/ task' = [task EXCEPT
                  ![w].step = IF reading[r] = "breach" THEN "dedup" ELSE "lookup",
                  ![w].cur = r, ![w].todo = @ \ {r}]
        BY <1>4 DEF Measure, FailedMeasure
  <2>2. /\ r \in Rules
        /\ task[w].todo \ {r} \in SUBSET Rules
        /\ task[w].expired \in BOOLEAN
        BY <1>1, <2>1 DEF Task
  <2>3. task' \in [Workers -> Task]
    <3>1. CASE task' = [task EXCEPT ![w] = Idle]
          BY <3>1, IdleType DEF TypeOK
    <3>2. CASE Continue(w, task[w].todo \ {r}, task[w].expired)
          BY <2>2, <3>2, ContinueType
    <3>3. CASE task' = [task EXCEPT
                  ![w].step = IF reading[r] = "breach" THEN "dedup" ELSE "lookup",
                  ![w].cur = r, ![w].todo = @ \ {r}]
      <4> DEFINE t == [task[w] EXCEPT
                  !.step = IF reading[r] = "breach" THEN "dedup" ELSE "lookup",
                  !.cur = r, !.todo = @ \ {r}]
      <4>1. t \in Task
            BY <1>1, <2>2 DEF Task, Steps
      <4>2. task' = [task EXCEPT ![w] = t]
            BY <3>3 DEF TypeOK
      <4> QED
          BY <4>1, <4>2 DEF TypeOK
    <3> QED
        BY <2>1, <3>1, <3>2, <3>3
  <2> QED
      BY <1>4, <2>3 DEF Measure, TypeOK
<1>5. CASE CheckActive(w)
  <2>1. task' \in [Workers -> Task]
    <3>1. CASE Continue(w, task[w].todo, task[w].expired)
          BY <1>1, <3>1, ContinueType DEF Task
    <3>2. CASE task' = [task EXCEPT ![w].step = "insert"]
          BY <1>1, <3>2 DEF TypeOK, Task, Steps
    <3> QED
        BY <1>5, <3>1, <3>2 DEF CheckActive
  <2> QED
      BY <1>5, <2>1 DEF CheckActive, TypeOK
<1>6. CASE InsertAlert(w)
  <2>1. task' \in [Workers -> Task]
    <3>1. CASE Continue(w, task[w].todo, TRUE)
          BY <1>1, <3>1, ContinueType DEF Task
    <3>2. CASE task' = [task EXCEPT ![w] = Idle]
          BY <3>2, IdleType DEF TypeOK
    <3> QED
        BY <1>6, <3>1, <3>2 DEF InsertAlert
  <2>2. alert' \in [AlertIds -> Row]
    <3>1. [rule |-> task[w].cur, status |-> "active", by |-> w] \in Row
          BY <1>1 DEF Task, Row, Statuses
    <3> QED
        BY <1>6, <3>1 DEF InsertAlert, NewRow, TypeOK
  <2> QED
      BY <1>6, <2>1, <2>2 DEF InsertAlert, TypeOK
<1>7. CASE FindActive(w)
  <2>1. task' \in [Workers -> Task]
    <3>1. CASE Continue(w, task[w].todo, task[w].expired)
          BY <1>1, <3>1, ContinueType DEF Task
    <3>2. ASSUME NEW a \in Active(task[w].cur),
                 task' = [task EXCEPT ![w].step = "resolve", ![w].found = a]
          PROVE  task' \in [Workers -> Task]
      <4>1. [task[w] EXCEPT !.step = "resolve", !.found = a] \in Task
            BY <1>1 DEF Task, Steps, Active
      <4> QED
          BY <3>2, <4>1 DEF TypeOK
    <3> QED
        BY <1>7, <3>1, <3>2 DEF FindActive
  <2> QED
      BY <1>7, <2>1 DEF FindActive, TypeOK
<1>8. CASE ResolveFound(w)
  <2>1. task' \in [Workers -> Task]
    <3>1. CASE Continue(w, task[w].todo, TRUE)
          BY <1>1, <3>1, ContinueType DEF Task
    <3>2. CASE task' = [task EXCEPT ![w] = Idle]
          BY <3>2, IdleType DEF TypeOK
    <3> QED
        BY <1>8, <3>1, <3>2 DEF ResolveFound
  <2>2. alert' \in [AlertIds -> Row]
    <3>1. ASSUME NEW a \in AlertIds PROVE [alert[a] EXCEPT !.status = "resolved"] \in Row
          BY DEF TypeOK, Row, Statuses
    <3>2. CASE alert' = [alert EXCEPT ![task[w].found].status = "resolved"]
          BY <3>1, <3>2 DEF TypeOK
    <3> QED
        BY <1>8, <3>2 DEF ResolveFound, TypeOK
  <2> QED
      BY <1>8, <2>1, <2>2 DEF ResolveFound, TypeOK
<1> QED
    BY <1>2, <1>3, <1>4, <1>5, <1>6, <1>7, <1>8 DEF Advance

LEMMA TypeNext == TypeOK /\ [Next]_vars => TypeOK'
<1> SUFFICES ASSUME TypeOK, [Next]_vars PROVE TypeOK'
    OBVIOUS
<1>1. ASSUME NEW w \in Workers, NEW k \in Kinds, Begin(w, k) PROVE TypeOK'
  <2> DEFINE t == [Idle EXCEPT !.kind = k,
                         !.step = IF k = "script" THEN "script" ELSE "loop",
                         !.todo = IF k = "script" THEN {}
                                  ELSE {r \in Rules : Kind[r] = k /\ rule[r] = "on"}]
  <2>1. t \in Task
        BY IdleType DEF Task, Steps
  <2> QED
      BY <1>1, <2>1 DEF Begin, TypeOK
<1>2. ASSUME NEW w \in Workers, ScriptAlert(w) PROVE TypeOK'
  <2> DEFINE on == {r \in Rules : Kind[r] = "script" /\ rule[r] = "on"}
  <2>1. PICK f \in [on -> FreeIds] :
            alert' = [a \in AlertIds |->
                IF \E r \in on : f[r] = a
                THEN [rule |-> CHOOSE r \in on : f[r] = a,
                      status |-> "active", by |-> Manual]
                ELSE alert[a]]
        BY <1>2 DEF ScriptAlert
  <2>2. ASSUME NEW a \in AlertIds, \E r \in on : f[r] = a
        PROVE  [rule |-> CHOOSE r \in on : f[r] = a,
                status |-> "active", by |-> Manual] \in Row
    <3>1. (CHOOSE r \in on : f[r] = a) \in Rules
          BY <2>2
    <3> QED
        BY <3>1 DEF Row, Statuses
  <2>3. alert' \in [AlertIds -> Row]
        BY <2>1, <2>2 DEF TypeOK
  <2> QED
      BY <1>2, <2>3, BoundsAssumption DEF ScriptAlert, Change, TypeOK
<1>3. ASSUME NEW w \in Workers, Abandon(w) PROVE TypeOK'
      BY <1>3, IdleType, BoundsAssumption DEF Abandon, Change, TypeOK
<1>4. ASSUME NEW r \in Rules, DataChange(r) PROVE TypeOK'
      BY <1>4, BoundsAssumption DEF DataChange, Change, TypeOK
<1>5. ASSUME NEW r \in Rules, create_alert_definition(r) \/ update_alert_definition(r)
      PROVE TypeOK'
      BY <1>5, BoundsAssumption
      DEF create_alert_definition, update_alert_definition, Change, TypeOK, RuleStates
<1>6. ASSUME NEW r \in Rules, delete_alert_definition(r) PROVE TypeOK'
  <2>1. ASSUME NEW a \in AlertIds PROVE [alert[a] EXCEPT !.status = "deleted"] \in Row
        BY DEF TypeOK, Row, Statuses
  <2>2. alert' \in [AlertIds -> Row]
        BY <1>6, <2>1 DEF delete_alert_definition, TypeOK
  <2> QED
      BY <1>6, <2>2, BoundsAssumption DEF delete_alert_definition, Change, TypeOK, RuleStates
<1>7. ASSUME NEW r \in Rules, trigger_test_alert(r) PROVE TypeOK'
  <2>1. [rule |-> r, status |-> "active", by |-> Manual] \in Row
        BY DEF Row, Statuses
  <2>2. alert' \in [AlertIds -> Row]
        BY <1>7, <2>1 DEF trigger_test_alert, NewRow, TypeOK
  <2> QED
      BY <1>7, <2>2, BoundsAssumption DEF trigger_test_alert, Change, TypeOK
<1>8. ASSUME NEW a \in AlertIds, acknowledge_alert(a) PROVE TypeOK'
  <2>1. [alert[a] EXCEPT !.status = "acknowledged"] \in Row
        BY DEF TypeOK, Row, Statuses
  <2> QED
      BY <1>8, <2>1, BoundsAssumption DEF acknowledge_alert, Change, TypeOK
<1>9. CASE UNCHANGED vars
      BY <1>9 DEF vars, TypeOK
<1> QED
    BY <1>1, <1>2, <1>3, <1>4, <1>5, <1>6, <1>7, <1>8, <1>9, TypeEvaluate DEF Next

\* Every reachable state is well typed.
THEOREM TypeCorrect == Spec => []TypeOK
  BY TypeInit, TypeNext, PTL DEF Spec

-----------------------------------------------------------------------------
(* The inductive invariant.                                                *)

\* A task that is between two rules.
Relaxed(t) ==
    /\ t.step \in {"idle", "script", "loop"}
    /\ t.step = "script" => t.kind = "script"
    /\ \A r \in t.todo : Kind[r] = t.kind

\* A step that relaxes workers at most, closes rows at most, and
\* deletes no rule keeps the invariant.
LEMMA QuietStep ==
    ASSUME IInv, TypeOK',
           \A v \in Workers : task'[v] = task[v] \/ Relaxed(task'[v]),
           \A a \in AlertIds :
              \/ alert'[a] = alert[a]
              \/ /\ Live(a)
                 /\ alert'[a].status \in {"acknowledged", "resolved"}
                 /\ alert'[a].rule = alert[a].rule,
           \A r \in Rules : Present(r) => Present(r)'
    PROVE  IInv'
<1> USE DEF IInv
<1>1. OneActivePerWorker'
      BY DEF OneActivePerWorker
<1>2. NoOrphanAlert'
      BY DEF NoOrphanAlert, RowHasRule, Live
<1>3. PendingHasNone'
      BY DEF PendingHasNone, Relaxed
<1>4. CurrentRule'
      BY DEF CurrentRule, Relaxed
<1>5. FoundRow'
      BY DEF FoundRow, Relaxed
<1>6. RowHasRule'
      BY DEF RowHasRule, Live
<1> QED
    BY <1>1, <1>2, <1>3, <1>4, <1>5, <1>6

\* Continue relaxes its worker and leaves the others alone.
LEMMA ContinueRelaxes ==
    ASSUME IInv, NEW w \in Workers, NEW left \in SUBSET task[w].todo,
           NEW e \in BOOLEAN, Continue(w, left, e)
    PROVE  Relaxed(task'[w]) /\ \A v \in Workers : v # w => task'[v] = task[v]
<1>1. task \in [Workers -> Task] /\ CurrentRule
      BY DEF IInv, TypeOK
<1>2. CASE left = {}
      BY <1>1, <1>2 DEF Continue, Idle, Relaxed
<1>3. CASE left # {}
      BY <1>1, <1>3 DEF Continue, Relaxed, CurrentRule, Task
<1> QED
    BY <1>2, <1>3

LEMMA IdleRelaxes ==
    ASSUME IInv, NEW w \in Workers, task' = [task EXCEPT ![w] = Idle]
    PROVE  Relaxed(task'[w]) /\ \A v \in Workers : v # w => task'[v] = task[v]
  BY DEF IInv, TypeOK, Idle, Relaxed

\* A new row by hand, or by a worker without an active alert of the rule that
\* is no longer about to insert, keeps the parts that speak of rows.
LEMMA NewRowKeeps ==
    ASSUME IInv, NEW a \in FreeIds, NEW r \in Rules, Present(r),
           NEW by \in Workers \cup {Manual}, alert' = NewRow(a, r, by),
           UNCHANGED rule,
           by # Manual => \A b \in AlertIds :
                ~(alert[b].status = "active" /\ alert[b].rule = r /\ alert[b].by = by)
    PROVE  OneActivePerWorker' /\ NoOrphanAlert' /\ RowHasRule'
<1>1. a \in AlertIds /\ alert'[a] = [rule |-> r, status |-> "active", by |-> by]
      BY DEF IInv, TypeOK, NewRow, FreeIds
<1>2. \A b \in AlertIds : b # a => alert'[b] = alert[b]
      BY DEF IInv, TypeOK, NewRow
<1>3. OneActivePerWorker'
      BY <1>1, <1>2 DEF IInv, OneActivePerWorker
<1>4. NoOrphanAlert'
      BY <1>1, <1>2 DEF IInv, NoOrphanAlert, Live, Present
<1>5. RowHasRule'
      BY <1>1, <1>2 DEF IInv, RowHasRule
<1> QED
    BY <1>3, <1>4, <1>5

LEMMA InvInit == Init => IInv
<1> SUFFICES ASSUME Init PROVE IInv
    OBVIOUS
<1>1. /\ \A a \in AlertIds : alert[a].status = "unused"
      /\ \A w \in Workers : task[w].step = "idle" /\ task[w].todo = {}
      BY DEF Init, Unused, Idle
<1> QED
    BY <1>1, TypeInit DEF IInv, OneActivePerWorker, NoOrphanAlert, Live, PendingHasNone,
       CurrentRule, FoundRow, RowHasRule

LEMMA InvEvaluate ==
    ASSUME IInv, TypeOK', NEW w \in Workers, Advance(w)
    PROVE  IInv'
<1>1. /\ task \in [Workers -> Task]
      /\ alert \in [AlertIds -> Row]
      /\ task[w].todo \in SUBSET Rules
      /\ task[w].expired \in BOOLEAN
      BY DEF IInv, TypeOK, Task
<1>2. CASE ScriptDone(w)
  <2>1. /\ task'[w].step = "loop"
        /\ task'[w].kind = task[w].kind
        /\ task'[w].todo = {r \in Rules : Kind[r] = "script" /\ rule[r] = "on"}
        /\ \A v \in Workers : v # w => task'[v] = task[v]
        BY <1>1, <1>2 DEF ScriptDone, Task
  <2>2. task[w].kind = "script"
        BY <1>2 DEF ScriptDone, IInv, CurrentRule
  <2> QED
      BY <1>2, <2>1, <2>2, QuietStep DEF ScriptDone, Relaxed, Present
<1>3. CASE NothingToDo(w)
      BY <1>3, IdleRelaxes, QuietStep DEF NothingToDo, Present
<1>4. CASE Measure(w)
  <2>1. PICK r \in task[w].todo :
            \/ task' = [task EXCEPT ![w] = Idle]
            \/ Continue(w, task[w].todo \ {r}, task[w].expired)
            \/ /\ task' = [task EXCEPT
                     ![w].step = IF reading[r] = "breach" THEN "dedup" ELSE "lookup",
                     ![w].cur = r, ![w].todo = @ \ {r}]
               /\ reading[r] = "breach" \/ task[w].kind = "qaqc"
        BY <1>4 DEF Measure, FailedMeasure
  <2>2. CASE task' = [task EXCEPT ![w] = Idle]
        BY <1>4, <2>2, IdleRelaxes, QuietStep DEF Measure, Present
  <2>3. CASE Continue(w, task[w].todo \ {r}, task[w].expired)
        BY <1>1, <1>4, <2>3, ContinueRelaxes, QuietStep DEF Measure, Present
  <2>4. CASE /\ task' = [task EXCEPT
                     ![w].step = IF reading[r] = "breach" THEN "dedup" ELSE "lookup",
                     ![w].cur = r, ![w].todo = @ \ {r}]
             /\ reading[r] = "breach" \/ task[w].kind = "qaqc"
    <3>1. /\ task'[w].step = IF reading[r] = "breach" THEN "dedup" ELSE "lookup"
          /\ task'[w].cur = r
          /\ task'[w].todo = task[w].todo \ {r}
          /\ task'[w].kind = task[w].kind
          /\ \A v \in Workers : v # w => task'[v] = task[v]
          BY <1>1, <2>4 DEF Task
    <3>2. UNCHANGED <<rule, alert>>
          BY <1>4 DEF Measure
    <3>3. r \in Rules /\ Kind[r] = task[w].kind
          BY <1>1, <2>1 DEF IInv, CurrentRule
    <3>4. CurrentRule'
      <4>1. task'[w].step \in {"dedup", "lookup"}
            BY <3>1
      <4>2. task'[w].step = "lookup" => task'[w].kind = "qaqc"
        <5>1. CASE reading[r] = "breach"
              BY <3>1, <5>1
        <5>2. CASE task[w].kind = "qaqc"
              BY <3>1, <5>2
        <5> QED
            BY <2>4, <5>1, <5>2
      <4> QED
          BY <3>1, <3>3, <4>1, <4>2 DEF IInv, CurrentRule
    <3>5. PendingHasNone' /\ FoundRow'
          BY <3>1, <3>2 DEF IInv, PendingHasNone, FoundRow
    <3> QED
        BY <3>2, <3>4, <3>5
        DEF IInv, OneActivePerWorker, NoOrphanAlert, Live, Present, RowHasRule
  <2> QED
      BY <2>1, <2>2, <2>3, <2>4
<1>5. CASE CheckActive(w)
  <2>1. CASE Continue(w, task[w].todo, task[w].expired)
        BY <1>1, <1>5, <2>1, ContinueRelaxes, QuietStep DEF CheckActive, Present
  <2>2. CASE Active(task[w].cur) = {} /\ task' = [task EXCEPT ![w].step = "insert"]
    <3>1. /\ task'[w].step = "insert" /\ task[w].step = "dedup"
          /\ task'[w].cur = task[w].cur
          /\ task'[w].todo = task[w].todo
          /\ task'[w].kind = task[w].kind
          /\ \A v \in Workers : v # w => task'[v] = task[v]
          BY <1>1, <1>5, <2>2 DEF CheckActive, Task
    <3>2. UNCHANGED <<rule, alert>>
          BY <1>5 DEF CheckActive
    <3>3. PendingHasNone'
          BY <2>2, <3>1, <3>2 DEF IInv, PendingHasNone, Active
    <3>4. CurrentRule' /\ FoundRow'
          BY <3>1, <3>2 DEF IInv, CurrentRule, FoundRow
    <3> QED
        BY <3>2, <3>3, <3>4
        DEF IInv, OneActivePerWorker, NoOrphanAlert, Live, Present, RowHasRule
  <2> QED
      BY <1>5, <2>1, <2>2 DEF CheckActive
<1>6. CASE InsertAlert(w)
  <2>1. CASE /\ Present(task[w].cur)
             /\ \E a \in FreeIds : alert' = NewRow(a, task[w].cur, w)
             /\ Continue(w, task[w].todo, TRUE)
    <3>1. PICK a \in FreeIds : alert' = NewRow(a, task[w].cur, w)
          BY <2>1
    <3>2. task[w].cur \in Rules
          BY <1>6 DEF InsertAlert, IInv, CurrentRule
    <3>3. UNCHANGED rule
          BY <1>6 DEF InsertAlert
    <3>4. \A b \in AlertIds :
              ~(alert[b].status = "active" /\ alert[b].rule = task[w].cur /\ alert[b].by = w)
          BY <1>6 DEF InsertAlert, IInv, PendingHasNone
    <3>5. OneActivePerWorker' /\ NoOrphanAlert' /\ RowHasRule'
          BY <2>1, <3>1, <3>2, <3>3, <3>4, NewRowKeeps
    <3>6. Relaxed(task'[w]) /\ \A v \in Workers : v # w => task'[v] = task[v]
          BY <1>1, <2>1, ContinueRelaxes
    <3>7. a \in AlertIds /\ \A v \in Workers : task[v].found # a
          BY <3>1 DEF FreeIds
    <3>8. /\ alert'[a].by = w
          /\ \A b \in AlertIds : b # a => alert'[b] = alert[b]
          BY <1>1, <3>1, <3>7 DEF NewRow
    <3>9. PendingHasNone'
          BY <3>6, <3>8 DEF IInv, PendingHasNone, Relaxed
    <3>10. CurrentRule' /\ FoundRow'
          BY <3>6, <3>7, <3>8 DEF IInv, CurrentRule, FoundRow, Relaxed
    <3> QED
        BY <3>5, <3>9, <3>10 DEF IInv
  <2>2. CASE task' = [task EXCEPT ![w] = Idle] /\ UNCHANGED alert
        BY <1>6, <2>2, IdleRelaxes, QuietStep DEF InsertAlert, Present
  <2> QED
      BY <1>6, <2>1, <2>2 DEF InsertAlert
<1>7. CASE FindActive(w)
  <2>1. CASE Continue(w, task[w].todo, task[w].expired)
        BY <1>1, <1>7, <2>1, ContinueRelaxes, QuietStep DEF FindActive, Present
  <2>2. ASSUME NEW a \in Active(task[w].cur),
               task' = [task EXCEPT ![w].step = "resolve", ![w].found = a]
        PROVE  IInv'
    <3>0. /\ task'[w] = [task[w] EXCEPT !.step = "resolve", !.found = a]
          /\ \A v \in Workers : v # w => task'[v] = task[v]
          BY <1>1, <2>2
    <3>1. /\ task'[w].step = "resolve" /\ task[w].step = "lookup"
          /\ task'[w].found = a
          /\ task'[w].cur = task[w].cur
          /\ task'[w].todo = task[w].todo
          /\ task'[w].kind = task[w].kind
          /\ \A v \in Workers : v # w => task'[v] = task[v]
          BY <1>1, <1>7, <3>0 DEF FindActive, Task
    <3>2. UNCHANGED <<rule, alert>>
          BY <1>7 DEF FindActive
    <3>3. FoundRow'
          BY <2>2, <3>1, <3>2 DEF IInv, FoundRow, Active
    <3>4. CurrentRule' /\ PendingHasNone'
          BY <3>1, <3>2 DEF IInv, CurrentRule, PendingHasNone
    <3> QED
        BY <3>2, <3>3, <3>4
        DEF IInv, OneActivePerWorker, NoOrphanAlert, Live, Present, RowHasRule
  <2> QED
      BY <1>7, <2>1, <2>2 DEF FindActive
<1>8. CASE ResolveFound(w)
  <2>1. task[w].found \in AlertIds /\ alert[task[w].found].status # "unused"
        BY <1>8 DEF ResolveFound, IInv, FoundRow
  <2>2. CASE /\ alert[task[w].found].status # "deleted"
             /\ alert' = [alert EXCEPT ![task[w].found].status = "resolved"]
             /\ Continue(w, task[w].todo, TRUE)
    <3>1. /\ Live(task[w].found)
          /\ alert'[task[w].found].status = "resolved"
          /\ alert'[task[w].found].rule = alert[task[w].found].rule
          /\ \A b \in AlertIds : b # task[w].found => alert'[b] = alert[b]
          BY <1>1, <2>1, <2>2 DEF Live, Row, Statuses
    <3> QED
        BY <1>1, <1>8, <2>2, <3>1, ContinueRelaxes, QuietStep DEF ResolveFound, Present
  <2>3. CASE task' = [task EXCEPT ![w] = Idle] /\ UNCHANGED alert
        BY <1>8, <2>3, IdleRelaxes, QuietStep DEF ResolveFound, Present
  <2> QED
      BY <1>8, <2>2, <2>3 DEF ResolveFound
<1> QED
    BY <1>2, <1>3, <1>4, <1>5, <1>6, <1>7, <1>8 DEF Advance

LEMMA InvNext == IInv /\ [Next]_vars => IInv'
<1> SUFFICES ASSUME IInv, [Next]_vars PROVE IInv'
    OBVIOUS
<1>1. TypeOK'
      BY TypeNext DEF IInv
<1>2. /\ task \in [Workers -> Task]
      /\ alert \in [AlertIds -> Row]
      BY DEF IInv, TypeOK
<1>3. ASSUME NEW w \in Workers, NEW k \in Kinds, Begin(w, k) PROVE IInv'
  <2>1. Relaxed(task'[w]) /\ \A v \in Workers : v # w => task'[v] = task[v]
        BY <1>2, <1>3 DEF Begin, Idle, Relaxed
  <2> QED
      BY <1>1, <1>3, <2>1, QuietStep DEF Begin, Present
<1>4. ASSUME NEW w \in Workers, ScriptAlert(w) PROVE IInv'
  <2> DEFINE on == {r \in Rules : Kind[r] = "script" /\ rule[r] = "on"}
  <2>1. PICK f \in [on -> FreeIds] :
            alert' = [a \in AlertIds |->
                IF \E r \in on : f[r] = a
                THEN [rule |-> CHOOSE r \in on : f[r] = a,
                      status |-> "active", by |-> Manual]
                ELSE alert[a]]
        BY <1>4 DEF ScriptAlert
  <2>2. \A a \in AlertIds :
            \/ alert'[a] = alert[a]
            \/ /\ a \in FreeIds
               /\ alert'[a].rule \in on
               /\ alert'[a].by = Manual
    <3>1. ASSUME NEW a \in AlertIds, \E r \in on : f[r] = a
          PROVE  (CHOOSE r \in on : f[r] = a) \in on
          BY <3>1
    <3> QED
        BY <2>1, <3>1
  <2>3. UNCHANGED <<rule, task>>
        BY <1>4 DEF ScriptAlert
  <2>4. OneActivePerWorker' /\ PendingHasNone'
        BY <2>2, <2>3, WorkersAssumption DEF IInv, OneActivePerWorker, PendingHasNone
  <2>5. NoOrphanAlert' /\ RowHasRule'
        BY <2>2, <2>3 DEF IInv, NoOrphanAlert, RowHasRule, Live, Present
  <2>6. FoundRow' /\ CurrentRule'
        BY <2>2, <2>3 DEF IInv, FoundRow, CurrentRule, FreeIds
  <2> QED
      BY <1>1, <2>4, <2>5, <2>6 DEF IInv
<1>5. ASSUME NEW w \in Workers, Abandon(w) PROVE IInv'
      BY <1>1, <1>5, IdleRelaxes, QuietStep DEF Abandon, Present
<1>6. ASSUME NEW r \in Rules, DataChange(r) PROVE IInv'
      BY <1>1, <1>6, QuietStep DEF DataChange, Present
<1>7. ASSUME NEW r \in Rules, create_alert_definition(r) \/ update_alert_definition(r)
      PROVE IInv'
  <2>1. \A s \in Rules : Present(s) => Present(s)'
        BY <1>7 DEF create_alert_definition, update_alert_definition, Present, IInv, TypeOK
  <2> QED
      BY <1>1, <1>7, <2>1, QuietStep DEF create_alert_definition, update_alert_definition
<1>8. ASSUME NEW r \in Rules, delete_alert_definition(r) PROVE IInv'
  <2>1. \A a \in AlertIds :
            /\ alert'[a].rule = alert[a].rule
            /\ alert'[a].by = alert[a].by
            /\ alert[a].rule = r => alert'[a].status = "deleted"
            /\ alert[a].rule # r => alert'[a] = alert[a]
        BY <1>2, <1>8 DEF delete_alert_definition, Row
  <2>2. UNCHANGED task /\ \A s \in Rules : s # r => rule'[s] = rule[s]
        BY <1>8 DEF delete_alert_definition, IInv, TypeOK
  <2>3. NoOrphanAlert'
        BY <2>1, <2>2 DEF IInv, NoOrphanAlert, RowHasRule, Live, Present
  <2>4. OneActivePerWorker' /\ PendingHasNone'
        BY <2>1, <2>2 DEF IInv, OneActivePerWorker, PendingHasNone
  <2>5. RowHasRule' /\ FoundRow' /\ CurrentRule'
        BY <2>1, <2>2 DEF IInv, RowHasRule, FoundRow, CurrentRule
  <2> QED
      BY <1>1, <2>3, <2>4, <2>5 DEF IInv
<1>9. ASSUME NEW r \in Rules, trigger_test_alert(r) PROVE IInv'
  <2>1. PICK a \in FreeIds : alert' = NewRow(a, r, Manual)
        BY <1>9 DEF trigger_test_alert
  <2>2. Present(r) /\ UNCHANGED <<rule, task>>
        BY <1>9 DEF trigger_test_alert
  <2>3. OneActivePerWorker' /\ NoOrphanAlert' /\ RowHasRule'
        BY <2>1, <2>2, NewRowKeeps
  <2>4. /\ alert'[a].by = Manual
        /\ \A b \in AlertIds : b # a => alert'[b] = alert[b]
        /\ \A w \in Workers : task[w].found # a
        BY <1>2, <2>1 DEF NewRow, FreeIds
  <2>5. PendingHasNone' /\ FoundRow' /\ CurrentRule'
        BY <2>2, <2>4, WorkersAssumption DEF IInv, PendingHasNone, FoundRow, CurrentRule
  <2> QED
      BY <1>1, <2>3, <2>5 DEF IInv
<1>10. ASSUME NEW a \in AlertIds, acknowledge_alert(a) PROVE IInv'
  <2>1. /\ Live(a)
        /\ alert'[a].status = "acknowledged"
        /\ alert'[a].rule = alert[a].rule
        /\ \A b \in AlertIds : b # a => alert'[b] = alert[b]
        BY <1>2, <1>10 DEF acknowledge_alert, Live, Row
  <2> QED
      BY <1>1, <1>10, <2>1, QuietStep DEF acknowledge_alert, Present
<1>11. CASE UNCHANGED vars
      BY <1>1, <1>11, QuietStep DEF vars, Present
<1> QED
    BY <1>1, <1>3, <1>4, <1>5, <1>6, <1>7, <1>8, <1>9, <1>10, <1>11, InvEvaluate DEF Next

LEMMA Invariant == Spec => []IInv
  BY InvInit, InvNext, PTL DEF Spec

-----------------------------------------------------------------------------
(* The properties.                                                         *)

\* With any number of workers, each has at most one active alert per rule: the
\* dedup query without a unique constraint still bounds the duplicates.
THEOREM DuplicatesBounded == Spec => []OneActivePerWorker
  BY Invariant, PTL DEF IInv

\* Deleting a rule never leaves an alert behind, whatever tasks are doing.
THEOREM CascadeComplete == Spec => []NoOrphanAlert
  BY Invariant, PTL DEF IInv

\* One worker never duplicates an alert: what the comment in _create_alert says
\* is true of a deployment with a single worker process.
THEOREM DedupWithOneWorker ==
    ASSUME \A v, w \in Workers : v = w
    PROVE  Spec => []NoDuplicateActive
<1>1. IInv => NoDuplicateActive
      BY DEF IInv, TypeOK, Row, OneActivePerWorker, NoDuplicateActive
<1> QED
    BY <1>1, Invariant, PTL

\* Only QA/QC evaluations resolve alerts.
THEOREM ResolvedByQaqcOnly == Spec => OnlyQaqcResolves
<1> DEFINE A == \A a \in AlertIds :
              (alert[a].status = "active" /\ alert'[a].status = "resolved")
                  => Kind[alert[a].rule] = "qaqc"
<1>1. IInv /\ [Next]_vars => [A]_vars
  <2> SUFFICES ASSUME IInv, Next, NEW a \in AlertIds,
                      alert[a].status = "active", alert'[a].status = "resolved"
               PROVE  Kind[alert[a].rule] = "qaqc"
      OBVIOUS
  <2>1. alert \in [AlertIds -> Row]
        BY DEF IInv, TypeOK
  <2>2. ASSUME NEW w \in Workers, ResolveFound(w) PROVE Kind[alert[a].rule] = "qaqc"
    <3>1. a = task[w].found
          BY <2>1, <2>2 DEF ResolveFound
    <3> QED
        BY <2>2, <3>1 DEF ResolveFound, IInv, FoundRow, CurrentRule
  <2>3. ASSUME NEW w \in Workers, ScriptAlert(w) PROVE FALSE
    <3>1. alert'[a].status = "active" \/ alert'[a] = alert[a]
          BY <2>3 DEF ScriptAlert
    <3> QED
        BY <3>1
  <2>4. ASSUME NEW w \in Workers, InsertAlert(w) PROVE FALSE
    <3>1. \/ \E b \in FreeIds : alert' = NewRow(b, task[w].cur, w)
          \/ UNCHANGED alert
          BY <2>4 DEF InsertAlert
    <3>2. alert'[a].status = "active" \/ alert'[a] = alert[a]
          BY <2>1, <3>1 DEF NewRow
    <3> QED
        BY <3>2
  <2>5. ASSUME NEW r \in Rules, trigger_test_alert(r) PROVE FALSE
    <3>1. alert'[a].status = "active" \/ alert'[a] = alert[a]
          BY <2>1, <2>5 DEF trigger_test_alert, NewRow
    <3> QED
        BY <3>1
  <2>6. ASSUME NEW r \in Rules, delete_alert_definition(r) PROVE FALSE
    <3>1. alert'[a].status = IF alert[a].rule = r THEN "deleted" ELSE alert[a].status
          BY <2>1, <2>6 DEF delete_alert_definition, Row
    <3> QED
        BY <3>1
  <2>7. ASSUME NEW b \in AlertIds, acknowledge_alert(b) PROVE FALSE
        BY <2>1, <2>7 DEF acknowledge_alert, Row
  <2>8. CASE UNCHANGED alert
        BY <2>8
  <2> QED
      BY <2>2, <2>3, <2>4, <2>5, <2>6, <2>7, <2>8
      DEF Next, Advance, Begin, ScriptDone, NothingToDo, Measure, CheckActive, FindActive,
          Abandon, DataChange, create_alert_definition, update_alert_definition
<1> QED
    BY <1>1, Invariant, PTL DEF Spec, OnlyQaqcResolves

-----------------------------------------------------------------------------
(* What becomes of a rule that is off.                                     *)

\* A task that goes on has no rule that it had not, unless it has just begun.
LEMMA NobodyLoads ==
    ASSUME TypeOK, Next, NEW r \in Rules, rule[r] # "on", \A w \in Workers : ~Loaded(w, r)
    PROVE  \A w \in Workers : ~Loaded(w, r)'
<1>1. ASSUME NEW w \in Workers, NEW t, task' = [task EXCEPT ![w] = t], r \notin t.todo, t.cur # r
      PROVE  \A v \in Workers : ~Loaded(v, r)'
  BY <1>1 DEF TypeOK, Loaded
<1>2. r # NoRule /\ Idle.todo = {} /\ Idle.cur = NoRule
  BY RulesAssumption DEF Idle
<1>3. ASSUME NEW w \in Workers, task' = [task EXCEPT ![w] = Idle]
      PROVE  \A v \in Workers : ~Loaded(v, r)'
  BY <1>1, <1>2, <1>3
<1>4. ASSUME NEW w \in Workers, NEW left \in SUBSET task[w].todo, NEW e, Continue(w, left, e)
      PROVE  \A v \in Workers : ~Loaded(v, r)'
  <2> DEFINE t == [task[w] EXCEPT !.step = "loop", !.todo = left, !.cur = NoRule,
                                  !.found = NoAlert, !.expired = e]
  <2>1. CASE task' = [task EXCEPT ![w] = Idle]
    BY <1>3, <2>1
  <2>2. CASE task' = [task EXCEPT ![w] = t]
    <3>1. task[w] \in Task /\ r \notin left
      BY DEF TypeOK, Loaded
    <3>2. t.todo = left /\ t.cur = NoRule
      BY <3>1 DEF Task
    <3> QED
      BY <1>1, <1>2, <2>2, <3>1, <3>2
  <2> QED
    BY <1>4, <2>1, <2>2 DEF Continue
<1>5. ASSUME NEW w \in Workers, NEW s, NEW a, task' = [task EXCEPT ![w].step = s, ![w].found = a]
      PROVE  \A v \in Workers : ~Loaded(v, r)'
  BY <1>5 DEF TypeOK, Task, Loaded
<1>6. ASSUME NEW w \in Workers, NEW s, task' = [task EXCEPT ![w].step = s]
      PROVE  \A v \in Workers : ~Loaded(v, r)'
  BY <1>6 DEF TypeOK, Task, Loaded
<1>7. ASSUME NEW w \in Workers, NEW k \in Kinds, Begin(w, k) PROVE \A v \in Workers : ~Loaded(v, r)'
  <2> DEFINE todo == IF k = "script" THEN {} ELSE {q \in Rules : Kind[q] = k /\ rule[q] = "on"}
             s == IF k = "script" THEN "script" ELSE "loop"
             t == [Idle EXCEPT !.kind = k, !.step = s, !.todo = todo]
  <2>1. task' = [task EXCEPT ![w] = t]
    BY <1>7 DEF Begin
  <2>2. r \notin todo
    OBVIOUS
  <2> HIDE DEF todo, s
  <2>3. t.todo = todo /\ t.cur = NoRule
    BY IdleType DEF Idle
  <2> QED
    BY <1>1, <1>2, <2>1, <2>2, <2>3
<1>8. ASSUME NEW w \in Workers, ScriptDone(w) PROVE \A v \in Workers : ~Loaded(v, r)'
  <2> DEFINE todo == {q \in Rules : Kind[q] = "script" /\ rule[q] = "on"}
             t == [task[w] EXCEPT !.step = "loop", !.todo = todo]
  <2>1. task' = [task EXCEPT ![w] = t]
    BY <1>8 DEF ScriptDone
  <2>2. task[w] \in Task /\ r \notin todo
    BY DEF TypeOK
  <2> HIDE DEF todo
  <2>3. t.todo = todo /\ t.cur = task[w].cur
    BY <2>2 DEF Task
  <2> QED
    BY <1>1, <2>1, <2>2, <2>3 DEF Loaded
<1>9. ASSUME NEW w \in Workers, Measure(w) PROVE \A v \in Workers : ~Loaded(v, r)'
  <2>1. PICK q \in task[w].todo :
          \/ task' = [task EXCEPT ![w] = Idle]
          \/ Continue(w, task[w].todo \ {q}, task[w].expired)
          \/ task' = [task EXCEPT
                ![w].step = IF reading[q] = "breach" THEN "dedup" ELSE "lookup",
                ![w].cur = q, ![w].todo = @ \ {q}]
    BY <1>9 DEF Measure, FailedMeasure
  <2>2. CASE task' = [task EXCEPT
                ![w].step = IF reading[q] = "breach" THEN "dedup" ELSE "lookup",
                ![w].cur = q, ![w].todo = @ \ {q}]
    <3>1. q # r /\ r \notin task[w].todo
      BY DEF Loaded
    <3> QED
      BY <2>2, <3>1 DEF TypeOK, Task, Loaded
  <2> QED
    BY <1>3, <1>4, <2>1, <2>2
<1>10. ASSUME NEW w \in Workers,
              NothingToDo(w) \/ CheckActive(w) \/ InsertAlert(w) \/ FindActive(w)
                 \/ ResolveFound(w) \/ Abandon(w)
       PROVE  \A v \in Workers : ~Loaded(v, r)'
  <2>1. \/ task' = [task EXCEPT ![w] = Idle]
        \/ \E e : Continue(w, task[w].todo, e)
        \/ task' = [task EXCEPT ![w].step = "insert"]
        \/ \E a : task' = [task EXCEPT ![w].step = "resolve", ![w].found = a]
    BY <1>10 DEF NothingToDo, CheckActive, InsertAlert, FindActive, ResolveFound, Abandon
  <2> QED
    BY <1>3, <1>4, <1>5, <1>6, <2>1
<1>11. CASE UNCHANGED task
  BY <1>11 DEF Loaded
<1> QED
  BY <1>7, <1>8, <1>9, <1>10, <1>11
  DEF Next, Advance, ScriptAlert, DataChange, create_alert_definition, update_alert_definition,
      delete_alert_definition, trigger_test_alert, acknowledge_alert

\* An evaluation raises alerts only for the rule that it has loaded.
LEMMA NobodyRaises ==
    ASSUME TypeOK, Next, NEW r \in Rules, \A w \in Workers : ~Loaded(w, r)
    PROVE  Raised(r)' \subseteq Raised(r)
<1>1. alert \in [AlertIds -> Row]
  BY DEF TypeOK
<1>2. SUFFICES ASSUME NEW a \in AlertIds, alert'[a].rule = r, alert'[a].status = "active",
                      alert'[a].by # Manual
               PROVE  alert[a].rule = r /\ alert[a].status = "active" /\ alert[a].by # Manual
  BY DEF Raised, Active
<1>3. ASSUME NEW w \in Workers, InsertAlert(w) PROVE alert'[a] = alert[a]
  <2>1. task[w].cur # r
    BY DEF Loaded
  <2>2. CASE \E b \in FreeIds : alert' = NewRow(b, task[w].cur, w)
    BY <1>1, <1>2, <2>1, <2>2 DEF NewRow
  <2> QED
    BY <1>3, <2>2 DEF InsertAlert
<1>4. ASSUME NEW w \in Workers, ScriptAlert(w) PROVE alert'[a] = alert[a]
  BY <1>2, <1>4 DEF ScriptAlert
<1>5. ASSUME NEW q \in Rules, trigger_test_alert(q) PROVE alert'[a] = alert[a]
  BY <1>1, <1>2, <1>5 DEF trigger_test_alert, NewRow
<1>6. ASSUME NEW q \in Rules, delete_alert_definition(q) PROVE alert'[a] = alert[a]
  BY <1>1, <1>2, <1>6 DEF delete_alert_definition, Row
<1>7. ASSUME NEW w \in Workers, ResolveFound(w) PROVE alert'[a] = alert[a]
  BY <1>1, <1>2, <1>7 DEF ResolveFound, Row
<1>8. ASSUME NEW b \in AlertIds, acknowledge_alert(b) PROVE alert'[a] = alert[a]
  BY <1>1, <1>2, <1>8 DEF acknowledge_alert, Row
<1>9. ASSUME UNCHANGED alert PROVE alert'[a] = alert[a]
  BY <1>9
<1>10. alert'[a] = alert[a]
  BY <1>3, <1>4, <1>5, <1>6, <1>7, <1>8, <1>9
  DEF Next, Advance, Begin, ScriptDone, NothingToDo, Measure, CheckActive, FindActive,
      Abandon, DataChange, create_alert_definition, update_alert_definition
<1> QED
  BY <1>2, <1>10

\* A rule that was switched off or deleted in alerts.py, and that no running task
\* has loaded any more, is loaded by none and gets no alert from an evaluation
\* until it is switched on: for any number of workers, rules and alerts.
THEOREM OffRulesStayQuiet == Spec => OffStaysQuiet
<1> DEFINE A == \A r \in Rules :
          (rule[r] # "on" /\ \A w \in Workers : ~Loaded(w, r))
              => (\A w \in Workers : ~Loaded(w, r)') /\ Raised(r)' \subseteq Raised(r)
<1>1. TypeOK /\ [Next]_vars => [A]_vars
  BY NobodyLoads, NobodyRaises
<1> QED
  BY <1>1, TypeCorrect, PTL DEF Spec, OffStaysQuiet
=============================================================================
