------------------------- MODULE TimeIODatabaseProofs -------------------------
(***************************************************************************)
(* What holds of the pool for any number of threads, connections, things    *)
(* and failures: no connection has two users, and deletes alone lose one.   *)
(*                                                                         *)
(* A call touches only its own connections and those nobody has.  So each   *)
(* step is first shown to be local (Local), and every step but one of a     *)
(* delete to keep what it does not give back (GivesBack); what follows for  *)
(* the pool as a whole is then a matter of sets.                            *)
(***************************************************************************)
EXTENDS TimeIODatabase, TLAPS

\* The second connection is held only while the nested method runs.
Nesting ==
    \A p \in Threads :
        call[p].second # {} => call[p].step \in {"type_work", "exists_work"}

IInv == TypeOK /\ HeldApart /\ Nesting

\* The step changes the call of p alone, and only connections of p or of nobody.
Local(p) ==
    /\ \A q \in Threads : q # p => call'[q] = call[q]
    /\ out \ Held(p) \subseteq out'
    /\ call'[p].first \cup call'[p].second \subseteq out'
    /\ call'[p].first \cup call'[p].second \subseteq Held(p) \cup (Conns \ out)
    /\ call'[p].first \cap call'[p].second = {}

\* What is out after the step and not held by p was out and not held by p before.
GivesBack(p) == out' \ (call'[p].first \cup call'[p].second) \subseteq out \ Held(p)

\* A local step keeps the connections apart.
LEMMA LocalKeepsApart ==
    ASSUME NEW p \in Threads, HeldApart, Local(p)
    PROVE  HeldApart'
<1>1. \A q \in Threads : q # p => Held(q)' = Held(q)
  BY DEF Local, Held
<1>2. Held(p)' \subseteq out' /\ call'[p].first \cap call'[p].second = {}
  BY DEF Local, Held
<1>3. ASSUME NEW q \in Threads, q # p
      PROVE  /\ Held(q)' \subseteq out' /\ call'[q].first \cap call'[q].second = {}
             /\ Held(p)' \cap Held(q)' = {}
  <2>1. Held(q) \subseteq out \ Held(p)
    BY <1>3 DEF HeldApart
  <2>2. Held(p)' \subseteq Held(p) \cup (Conns \ out)
    BY DEF Local, Held
  <2> QED
    BY <1>1, <1>3, <2>1, <2>2 DEF Local, HeldApart
<1>4. ASSUME NEW q \in Threads, NEW r \in Threads, q # r, q # p, r # p
      PROVE  Held(q)' \cap Held(r)' = {}
  BY <1>1, <1>4 DEF HeldApart
<1> QED
  BY <1>2, <1>3, <1>4 DEF HeldApart

\* A local step that gives back what it drops leaks nothing.
LEMMA GivesBackLeaksNothing ==
    ASSUME NEW p \in Threads, Local(p), GivesBack(p)
    PROVE  Leaked' \subseteq Leaked
<1>1. \A q \in Threads : q # p => Held(q)' = Held(q)
  BY DEF Local, Held
<1>2. ASSUME NEW c \in Leaked'
      PROVE  c \in Leaked
  <2>1. c \in out' /\ \A q \in Threads : c \notin Held(q)'
    BY DEF Leaked
  <2>2. c \in out /\ c \notin Held(p)
    BY <2>1 DEF GivesBack, Held
  <2> QED
    BY <1>1, <2>1, <2>2 DEF Leaked
<1> QED
  BY <1>2

\* A local step can lose connections of its own call only.
LEMMA LocalLeaksItsOwn ==
    ASSUME NEW p \in Threads, Local(p), out' \subseteq out \cup Held(p)',
           NEW c \in Leaked' \ Leaked
    PROVE  c \in Held(p)
<1>1. \A q \in Threads : q # p => Held(q)' = Held(q)
  BY DEF Local, Held
<1>2. c \in out' /\ \A q \in Threads : c \notin Held(q)'
  BY DEF Leaked
<1>3. c \in out
  BY <1>2
<1> QED
  BY <1>1, <1>2, <1>3 DEF Leaked

-----------------------------------------------------------------------------
\* Every step of a call is local; one that is not of a delete gives back.
LEMMA BeginIsLocal ==
    ASSUME IInv, NEW p \in Threads, NEW c \in Conns,
           BeginPlain(p, c) \/ BeginCreateParser(p, c)
    PROVE  Local(p) /\ GivesBack(p) /\ TypeOK' /\ Nesting'
<1>1. call[p].first = {} /\ call[p].second = {} /\ c \notin out /\ out' = out \cup {c}
  BY DEF BeginPlain, BeginCreateParser, Idle, Take
<1>2. call'[p].first = {c} /\ call'[p].second = {}
  BY DEF BeginPlain, BeginCreateParser, Idle, IInv, TypeOK
<1>3. \A q \in Threads : q # p => call'[q] = call[q]
  BY DEF BeginPlain, BeginCreateParser, IInv, TypeOK
<1>4. Local(p) /\ GivesBack(p)
  BY <1>1, <1>2, <1>3 DEF Local, GivesBack, Held
<1>5. TypeOK'
  <2>1. /\ [Idle EXCEPT !.kind = "plain", !.step = "work", !.first = {c}] \in Call
        /\ [Idle EXCEPT !.kind = "create_parser", !.step = "type", !.first = {c}] \in Call
    BY DEF Idle, Call, Kinds, Steps
  <2>2. call' \in [Threads -> Call]
    BY <2>1 DEF BeginPlain, BeginCreateParser, IInv, TypeOK
  <2> QED
    BY <1>1, <2>2 DEF BeginPlain, BeginCreateParser, IInv, TypeOK, Rows
<1>6. Nesting'
  BY <1>2, <1>3 DEF IInv, Nesting
<1> QED
  BY <1>4, <1>5, <1>6

LEMMA PlainStepIsLocal ==
    ASSUME IInv, NEW p \in Threads, TypeId(p) \/ NestedDone(p) \/ Finish(p)
    PROVE  Local(p) /\ GivesBack(p) /\ TypeOK' /\ Nesting'
<1> USE DEF IInv
<1>1. CASE TypeId(p)
  <2>0. call[p].second = {} /\ call[p].first \subseteq out
    BY <1>1 DEF TypeId, At, Nesting, HeldApart, Held
  <2>1. CASE \E c \in Conns :
               Take(c) /\ call' = [call EXCEPT ![p].step = "type_work", ![p].second = {c}]
    <3>1. PICK c \in Conns :
               Take(c) /\ call' = [call EXCEPT ![p].step = "type_work", ![p].second = {c}]
      BY <2>1
    <3>2. call'[p].first = call[p].first /\ call'[p].second = {c} /\ call'[p].step = "type_work"
      BY <3>1 DEF TypeOK, Call
    <3>3. \A q \in Threads : q # p => call'[q] = call[q]
      BY <3>1 DEF TypeOK
    <3>4. Local(p) /\ GivesBack(p)
      BY <2>0, <3>1, <3>2, <3>3 DEF Local, GivesBack, Held, Take
    <3>5. TypeOK'
      <4> DEFINE r == [call[p] EXCEPT !.step = "type_work", !.second = {c}]
      <4>1. r \in Call
        BY DEF TypeOK, Call, Steps
      <4>2. call' = [call EXCEPT ![p] = r]
        BY <3>1
      <4> HIDE DEF r
      <4>3. call' \in [Threads -> Call]
        BY <4>1, <4>2 DEF TypeOK
      <4> QED
        BY <1>1, <3>1, <4>3 DEF TypeId, TypeOK, Take, Rows
    <3>6. Nesting'
      BY <3>2, <3>3 DEF Nesting
    <3> QED
      BY <3>4, <3>5, <3>6
  <2>2. CASE out' = out \ call[p].first /\ EndCall(p)
    <3>1. call'[p] = Idle /\ \A q \in Threads : q # p => call'[q] = call[q]
      BY <2>2 DEF EndCall, TypeOK
    <3>2. Local(p) /\ GivesBack(p)
      BY <2>0, <2>2, <3>1 DEF Local, GivesBack, Held, Idle
    <3>3. TypeOK'
      BY <1>1, <2>2 DEF TypeId, EndCall, TypeOK, Call, Kinds, Steps, Idle, Rows
    <3>4. Nesting'
      BY <3>1 DEF Nesting, Idle
    <3> QED
      BY <3>2, <3>3, <3>4
  <2> QED
    BY <1>1, <2>1, <2>2 DEF TypeId
<1>2. CASE NestedDone(p)
  <2>1. call'[p].first = call[p].first /\ call'[p].second = {}
    BY <1>2 DEF NestedDone, TypeOK, Call
  <2>2. \A q \in Threads : q # p => call'[q] = call[q]
    BY <1>2 DEF NestedDone, TypeOK
  <2>3. Local(p) /\ GivesBack(p)
    BY <1>2, <2>1, <2>2 DEF NestedDone, Local, GivesBack, Held, HeldApart
  <2>4. TypeOK'
    BY <1>2 DEF NestedDone, TypeOK, Call, Steps, Rows
  <2>5. Nesting'
    BY <2>1, <2>2 DEF Nesting
  <2> QED
    BY <2>3, <2>4, <2>5
<1>3. CASE Finish(p)
  <2>1. call[p].second = {}
    BY <1>3 DEF Finish, Nesting
  <2>2. call'[p] = Idle /\ \A q \in Threads : q # p => call'[q] = call[q]
    BY <1>3 DEF Finish, EndCall, TypeOK
  <2>3. Local(p) /\ GivesBack(p)
    BY <1>3, <2>1, <2>2 DEF Finish, Local, GivesBack, Held, Idle
  <2>4. TypeOK'
    BY <1>3 DEF Finish, EndCall, TypeOK, Call, Kinds, Steps, Idle, Rows
  <2>5. Nesting'
    BY <2>2 DEF Nesting, Idle
  <2> QED
    BY <2>3, <2>4, <2>5
<1> QED
  BY <1>1, <1>2, <1>3

\* How a step that ends the call, or moves it on, changes what the call holds.
LEMMA EndOfCall ==
    ASSUME TypeOK, NEW p \in Threads, EndCall(p)
    PROVE  /\ call'[p].first = {} /\ call'[p].second = {}
           /\ \A q \in Threads : q # p => call'[q] = call[q]
           /\ call' \in [Threads -> Call]
<1>1. Idle \in Call
  BY DEF Idle, Call, Kinds, Steps
<1> QED
  BY <1>1 DEF EndCall, TypeOK, Idle

LEMMA NextStep ==
    ASSUME TypeOK, NEW p \in Threads, NEW st \in Steps, Step(p, st)
    PROVE  /\ call'[p].first = call[p].first /\ call'[p].second = call[p].second
           /\ \A q \in Threads : q # p => call'[q] = call[q]
           /\ call' \in [Threads -> Call]
  BY DEF Step, TypeOK, Call

LEMMA TakeFirst ==
    ASSUME TypeOK, NEW p \in Threads, NEW st \in Steps, NEW f \in SUBSET Conns,
           call' = [call EXCEPT ![p].step = st, ![p].first = f]
    PROVE  /\ call'[p].first = f /\ call'[p].second = call[p].second
           /\ \A q \in Threads : q # p => call'[q] = call[q]
           /\ call' \in [Threads -> Call]
  BY DEF TypeOK, Call

\* The steps of a delete are local, and bring out no connection but their own.
LEMMA DeleteStepIsLocal ==
    ASSUME IInv, NEW p \in Threads,
           \/ ResolveSchema(p) \/ SchemaResolved(p) \/ StartDelete(p) \/ CheckSchema(p)
           \/ DeleteRows(p) \/ DeleteConfig(p)
    PROVE  Local(p) /\ out' \subseteq out \cup Held(p)' /\ TypeOK' /\ Nesting'
<1> DEFINE Known(f, s) == /\ call'[p].first = f /\ call'[p].second = s
                          /\ \A q \in Threads : q # p => call'[q] = call[q]
                          /\ call' \in [Threads -> Call]
<1> USE DEF IInv
<1>0. call[p].second = {} /\ call[p].first \subseteq out /\ out \subseteq Conns
  BY DEF ResolveSchema, SchemaResolved, StartDelete, CheckSchema, DeleteRows, DeleteConfig,
         At, Nesting, HeldApart, Held, TypeOK
\* Nothing new is taken.
<1>1. ASSUME NEW f \in SUBSET call[p].first, Known(f, {}),
             out' = out \/ (f = {} /\ out' = out \ call[p].first)
      PROVE  Local(p) /\ out' \subseteq out \cup Held(p)' /\ Nesting'
  BY <1>0, <1>1 DEF Local, Held, Nesting
\* A connection is taken, as the only one.
<1>2. ASSUME NEW c \in Conns, Take(c), Known({c}, {})
      PROVE  Local(p) /\ out' \subseteq out \cup Held(p)' /\ Nesting'
  BY <1>0, <1>2 DEF Local, Held, Nesting, Take
<1>3. ASSUME NEW a \in Answers, Answer(p, a)
      PROVE  Known({}, {}) /\ answer' \in [Things -> Answers]
  BY <1>3, EndOfCall DEF Answer, TypeOK
<1>4. \A a \in {"true", "false", "raised"} : a \in Answers
  BY DEF Answers
<1>5. CASE ResolveSchema(p)
  <2>1. CASE Step(p, "start") /\ UNCHANGED <<out, answer>>
    <3>1. Known(call[p].first, {})
      BY <1>0, <2>1, NextStep DEF Steps
    <3> QED
      BY <1>1, <1>5, <2>1, <3>1 DEF ResolveSchema, TypeOK
  <2>2. CASE /\ \E c \in Conns :
                   /\ Take(c)
                   /\ call' = [call EXCEPT ![p].step = "schema_work", ![p].first = {c}]
             /\ UNCHANGED answer
    <3>1. PICK c \in Conns :
                   /\ Take(c)
                   /\ call' = [call EXCEPT ![p].step = "schema_work", ![p].first = {c}]
      BY <2>2
    <3>2. Known({c}, {})
      <4>1. "schema_work" \in Steps /\ {c} \in SUBSET Conns
        BY DEF Steps
      <4> QED
        BY <1>0, <3>1, <4>1 DEF TypeOK, Call
    <3>3. Local(p) /\ out' \subseteq out \cup Held(p)' /\ Nesting'
      BY <1>2, <3>1, <3>2
    <3> QED
      BY <1>5, <2>2, <3>1, <3>2, <3>3 DEF ResolveSchema, TypeOK, Take
  <2>3. CASE Exhausted /\ Answer(p, "raised")
    BY <1>1, <1>3, <1>4, <1>5, <2>3 DEF ResolveSchema, TypeOK, Exhausted
  <2> QED
    BY <1>5, <2>1, <2>2, <2>3 DEF ResolveSchema
<1>6. CASE SchemaResolved(p)
  <2>1. Known({}, {})
    BY <1>0, <1>6, TakeFirst DEF SchemaResolved, Steps
  <2> QED
    BY <1>0, <1>1, <1>6, <2>1 DEF SchemaResolved, TypeOK, Rows
<1>7. CASE StartDelete(p)
  <2>1. CASE /\ \E c \in Conns :
                   /\ Take(c)
                   /\ call' = [call EXCEPT ![p].step = "exists", ![p].first = {c}]
             /\ UNCHANGED answer
    <3>1. PICK c \in Conns :
                   /\ Take(c)
                   /\ call' = [call EXCEPT ![p].step = "exists", ![p].first = {c}]
      BY <2>1
    <3>2. Known({c}, {})
      <4>1. "exists" \in Steps /\ {c} \in SUBSET Conns
        BY DEF Steps
      <4> QED
        BY <1>0, <3>1, <4>1 DEF TypeOK, Call
    <3>3. Local(p) /\ out' \subseteq out \cup Held(p)' /\ Nesting'
      BY <1>2, <3>1, <3>2
    <3> QED
      BY <1>7, <2>1, <3>1, <3>2, <3>3 DEF StartDelete, TypeOK, Take
  <2>2. CASE Exhausted /\ Answer(p, "raised")
    BY <1>1, <1>3, <1>4, <1>7, <2>2 DEF StartDelete, TypeOK, Exhausted
  <2> QED
    BY <1>7, <2>1, <2>2 DEF StartDelete
<1>8. CASE CheckSchema(p)
  <2>0. UNCHANGED <<project, configdb, answer, failures>>
    BY <1>8 DEF CheckSchema, Rows
  <2>1. CASE \E c \in Conns :
               Take(c) /\ call' = [call EXCEPT ![p].step = "exists_work", ![p].second = {c}]
    <3>1. PICK c \in Conns :
               Take(c) /\ call' = [call EXCEPT ![p].step = "exists_work", ![p].second = {c}]
      BY <2>1
    <3>2. Known(call[p].first, {c}) /\ call'[p].step = "exists_work"
      <4>1. "exists_work" \in Steps /\ {c} \in SUBSET Conns
        BY DEF Steps
      <4> QED
        BY <3>1, <4>1 DEF TypeOK, Call
    <3>3. Local(p) /\ out' \subseteq out \cup Held(p)' /\ Nesting'
      BY <1>0, <3>1, <3>2 DEF Local, Held, Nesting, Take
    <3> QED
      BY <2>0, <3>1, <3>2, <3>3 DEF TypeOK, Take
  <2>2. CASE UNCHANGED out /\ (Step(p, "config") \/ Step(p, "rows"))
    <3>1. Known(call[p].first, {})
      BY <1>0, <2>2, NextStep DEF Steps
    <3> QED
      BY <1>1, <2>0, <2>2, <3>1 DEF TypeOK
  <2> QED
    BY <1>8, <2>1, <2>2 DEF CheckSchema, Exhausted
<1>9. CASE DeleteRows(p)
  <2>1. Known(call[p].first, {})
    BY <1>0, <1>9, NextStep DEF DeleteRows, Steps
  <2>2. project' \subseteq Things /\ failures' \in 0 .. MaxFailures
    BY <1>9, FailuresAssumption DEF DeleteRows, Fail, TypeOK
  <2> QED
    BY <1>1, <1>9, <2>1, <2>2 DEF DeleteRows, TypeOK
<1>10. CASE DeleteConfig(p)
  <2>1. PICK a \in {"true", "false", "raised"} : Answer(p, a)
    BY <1>10 DEF DeleteConfig
  <2>2. configdb' \subseteq Things /\ failures' \in 0 .. MaxFailures
    BY <1>10, FailuresAssumption DEF DeleteConfig, Fail, TypeOK
  <2>3. Known({}, {}) /\ answer' \in [Things -> Answers]
    BY <1>3, <1>4, <2>1
  <2> QED
    BY <1>1, <1>10, <2>2, <2>3 DEF DeleteConfig, TypeOK
<1> QED
  BY <1>5, <1>6, <1>7, <1>8, <1>9, <1>10

-----------------------------------------------------------------------------
\* Local steps of any thread, and the restart that empties the pool.
LEMMA StepOrRestart ==
    ASSUME Next
    PROVE  Restart \/ \E p \in Threads :
              \/ \E c \in Conns : BeginPlain(p, c) \/ BeginCreateParser(p, c)
              \/ \E t \in Things : BeginDelete(p, t)
              \/ TypeId(p) \/ NestedDone(p) \/ Finish(p)
              \/ ResolveSchema(p) \/ SchemaResolved(p) \/ StartDelete(p) \/ CheckSchema(p)
              \/ DeleteRows(p) \/ DeleteConfig(p)
  BY DEF Next, Advance

LEMMA BeginDeleteIsLocal ==
    ASSUME IInv, NEW p \in Threads, NEW t \in Things, BeginDelete(p, t)
    PROVE  Local(p) /\ GivesBack(p) /\ TypeOK' /\ Nesting'
<1> DEFINE r == [Idle EXCEPT !.kind = "delete", !.step = "schema", !.thing = t]
<1>1. r \in Call /\ r.first = {} /\ r.second = {}
  BY DEF Idle, Call, Kinds, Steps
<1>2. /\ call[p].first = {} /\ call[p].second = {} /\ UNCHANGED <<out, Rows, failures>>
      /\ call' = [call EXCEPT ![p] = r]
  BY DEF BeginDelete, Idle
<1> HIDE DEF r
<1>3. call'[p] = r /\ (\A q \in Threads : q # p => call'[q] = call[q]) /\ call' \in [Threads -> Call]
  BY <1>1, <1>2 DEF IInv, TypeOK
<1> QED
  BY <1>1, <1>2, <1>3 DEF Local, GivesBack, Held, Nesting, IInv, TypeOK, Rows

LEMMA RestartKeeps ==
    ASSUME IInv, Restart
    PROVE  IInv' /\ Leaked' \subseteq Leaked
<1>1. Idle \in Call /\ Idle.first = {} /\ Idle.second = {}
  BY DEF Idle, Call, Kinds, Steps
<1>2. call' \in [Threads -> Call] /\ \A p \in Threads : call'[p] = Idle
  BY <1>1 DEF Restart
<1>3. failures' \in 0 .. MaxFailures
  BY FailuresAssumption DEF Restart, Fail, IInv, TypeOK
<1>4. TypeOK'
  BY <1>2, <1>3 DEF Restart, IInv, TypeOK, Rows
<1>5. HeldApart' /\ Nesting'
  BY <1>1, <1>2 DEF HeldApart, Held, Nesting, Restart
<1> QED
  BY <1>4, <1>5 DEF IInv, Leaked, Restart

\* Every step keeps the invariant, and only a delete loses a connection.
LEMMA NextKeeps ==
    ASSUME IInv, Next
    PROVE  /\ IInv'
           /\ \A c \in Leaked' \ Leaked : \E p \in Threads : c \in Held(p) /\ call[p].kind = "delete"
<1>1. CASE Restart
  BY <1>1, RestartKeeps
<1>2. ASSUME NEW p \in Threads,
             \/ \E c \in Conns : BeginPlain(p, c) \/ BeginCreateParser(p, c)
             \/ \E t \in Things : BeginDelete(p, t)
             \/ TypeId(p) \/ NestedDone(p) \/ Finish(p)
      PROVE  IInv' /\ Leaked' \subseteq Leaked
  <2>1. Local(p) /\ GivesBack(p) /\ TypeOK' /\ Nesting'
    BY <1>2, BeginIsLocal, BeginDeleteIsLocal, PlainStepIsLocal
  <2> QED
    BY <2>1, LocalKeepsApart, GivesBackLeaksNothing DEF IInv
<1>3. ASSUME NEW p \in Threads,
             \/ ResolveSchema(p) \/ SchemaResolved(p) \/ StartDelete(p) \/ CheckSchema(p)
             \/ DeleteRows(p) \/ DeleteConfig(p)
      PROVE  /\ IInv' /\ call[p].kind = "delete"
             /\ \A c \in Leaked' \ Leaked : c \in Held(p)
  <2>1. Local(p) /\ out' \subseteq out \cup Held(p)' /\ TypeOK' /\ Nesting'
    BY <1>3, DeleteStepIsLocal
  <2>2. call[p].kind = "delete"
    BY <1>3 DEF ResolveSchema, SchemaResolved, StartDelete, CheckSchema, DeleteRows,
                DeleteConfig, At
  <2> QED
    BY <2>1, <2>2, LocalKeepsApart, LocalLeaksItsOwn DEF IInv
<1> QED
  BY <1>1, <1>2, <1>3, StepOrRestart

LEMMA InitInv == Init => IInv
<1> SUFFICES ASSUME Init PROVE IInv
  OBVIOUS
<1>1. Idle \in Call /\ Idle.first = {} /\ Idle.second = {}
  BY DEF Idle, Call, Kinds, Steps
<1>2. TypeOK
  BY <1>1, FailuresAssumption DEF Init, TypeOK, Answers
<1> QED
  BY <1>1, <1>2 DEF Init, IInv, HeldApart, Held, Nesting

LEMMA StutterInv == IInv /\ UNCHANGED vars => IInv'
  BY DEF vars, IInv, TypeOK, HeldApart, Held, Nesting

\* For any number of threads and connections, the state keeps its types, no two
\* users share a connection, and a second one is held only by a nested method.
THEOREM Invariant == Spec => []IInv
<1>1. IInv /\ [Next]_vars => IInv'
  BY NextKeeps, StutterInv
<1> QED
  BY InitInv, <1>1, PTL DEF Spec

\* Every variable keeps its type.
THEOREM TypeCorrect == Spec => []TypeOK
<1>1. IInv => TypeOK
  BY DEF IInv
<1> QED
  BY Invariant, <1>1, PTL

\* No transaction is committed or rolled back by anybody but the call that runs it.
THEOREM NeverShared == Spec => []HeldApart
<1>1. IInv => HeldApart
  BY DEF IInv
<1> QED
  BY Invariant, <1>1, PTL

\* Whatever fails and wherever the pool runs out, a connection is lost by a delete or
\* not at all.
THEOREM LostByDeletesOnly == Spec => OnlyDeletesLeak
<1>1. IInv /\ [Next]_vars =>
          [\A c \in Leaked' \ Leaked :
              \E p \in Threads : c \in Held(p) /\ call[p].kind = "delete"]_vars
  BY NextKeeps
<1> QED
  BY Invariant, <1>1, PTL DEF Spec, OnlyDeletesLeak
=============================================================================
