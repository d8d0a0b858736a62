--------------------------- MODULE TimeIODatabase ---------------------------
(***************************************************************************)
(* Direct access to the TimeIO database (services/timeio/timeio_db.py):    *)
(* the connection pool that all threads of an API process share, and the   *)
(* operation on top of it with the most to lose, delete_thing_cascade,     *)
(* which commits in the project database first and in the ConfigDB second. *)
(*                                                                         *)
(* Three kinds of calls use the pool.  A plain method takes a connection   *)
(* and gives it back in a finally.  create_parser takes a second one while *)
(* it holds the first.  delete_thing_cascade does so too, and drops the    *)
(* first without giving it back.  An empty pool raises, it does not wait.  *)
(***************************************************************************)
EXTENDS Integers, FiniteSets

CONSTANTS
    Threads,      \* request threads of the process
    Conns,        \* the connections the pool may open (maxconn of them)
    Things,
    MaxFailures   \* bound on failing statements

NoThing == "no thing"

ASSUME ThingsAssumption   == NoThing \notin Things
ASSUME FailuresAssumption == MaxFailures \in Nat

VARIABLES
    out,        \* the connections given out by the pool (_used)
    call,       \* call[p]: the call that thread p is in
    project,    \* the things with rows in their project's schema, or mapped to it
    configdb,   \* the things with rows in the ConfigDB
    answer,     \* answer[t]: how the last delete of t ended
    failures    \* how many of the MaxFailures are used

vars == <<out, call, project, configdb, answer, failures>>

Kinds   == {"none", "plain", "create_parser", "delete"}
Steps   == {"idle", "work", "type", "type_work", "schema", "schema_work", "start",
            "exists", "exists_work", "rows", "config"}
Answers == {"none", "true", "false", "raised"}

\* first, second: the connections in the local variables of the call.
Idle == [kind |-> "none", step |-> "idle", thing |-> NoThing, first |-> {}, second |-> {}]

Call == [kind   : Kinds,
         step   : Steps,
         thing  : Things \cup {NoThing},
         first  : SUBSET Conns,
         second : SUBSET Conns]

TypeOK ==
    /\ out \subseteq Conns
    /\ call \in [Threads -> Call]
    /\ project \subseteq Things
    /\ configdb \subseteq Things
    /\ answer \in [Things -> Answers]
    /\ failures \in 0 .. MaxFailures

Init ==
    /\ out = {}
    /\ call = [p \in Threads |-> Idle]
    /\ project = Things
    /\ configdb = Things
    /\ answer = [t \in Things |-> "none"]
    /\ failures = 0

Held(p) == call[p].first \cup call[p].second

Fail == failures < MaxFailures /\ failures' = failures + 1

At(p, kind, step) == call[p].kind = kind /\ call[p].step = step

\* getconn: any connection that is not out.
Take(c) == c \in Conns \ out /\ out' = out \cup {c}

Exhausted == Conns \subseteq out /\ UNCHANGED out

EndCall(p) == call' = [call EXCEPT ![p] = Idle]

Rows == <<project, configdb, answer>>
Step(p, st) == call' = [call EXCEPT ![p].step = st]

-----------------------------------------------------------------------------
(* Plain methods and create_parser.  On an empty pool a call raises before  *)
(* it has changed anything; that is no step of the model.                   *)

\* Most methods: one connection, taken first and given back in a finally, as with those that
\* look up and repair schema mappings, the context manager, and what follows them.
BeginPlain(p, c) ==
    /\ call[p] = Idle
    /\ Take(c)
    /\ call' = [call EXCEPT ![p] = [Idle EXCEPT !.kind = "plain", !.step = "work", !.first = {c}]]
    /\ UNCHANGED <<Rows, failures>>

BeginCreateParser(p, c) ==
    /\ call[p] = Idle
    /\ Take(c)
    /\ call' = [call EXCEPT ![p] =
            [Idle EXCEPT !.kind = "create_parser", !.step = "type", !.first = {c}]]
    /\ UNCHANGED <<Rows, failures>>

\* Mutants: a pool that waits for a connection; no release when it raises.
TypeId_Waiting(p) ==
    /\ At(p, "create_parser", "type")
    /\ \E c \in Conns : /\ Take(c)
                        /\ call' = [call EXCEPT ![p].step = "type_work", ![p].second = {c}]
    /\ UNCHANGED <<Rows, failures>>

TypeId_NoRelease(p) ==
    /\ At(p, "create_parser", "type")
    /\ \/ \E c \in Conns :
             /\ Take(c)
             /\ call' = [call EXCEPT ![p].step = "type_work", ![p].second = {c}]
       \/ Exhausted /\ EndCall(p)
    /\ UNCHANGED <<Rows, failures>>

\* _get_parser_type_id takes a connection of its own.
TypeId(p) ==
    /\ At(p, "create_parser", "type")
    /\ \/ \E c \in Conns :
             /\ Take(c)
             /\ call' = [call EXCEPT ![p].step = "type_work", ![p].second = {c}]
       \/ /\ Conns \subseteq out
          /\ out' = out \ call[p].first
          /\ EndCall(p)
    /\ UNCHANGED <<Rows, failures>>

\* Mutant: the nested call gives the connection of its caller back.
NestedDone_WrongOne(p) ==
    /\ call[p].step \in {"type_work", "exists_work"}
    /\ out' = out \ call[p].first
    /\ call' = [call EXCEPT ![p].second = {},
                            ![p].step = IF @ = "type_work" THEN "work" ELSE "rows"]
    /\ UNCHANGED <<Rows, failures>>

\* The nested method gives its connection back.
NestedDone(p) ==
    /\ call[p].step \in {"type_work", "exists_work"}
    /\ out' = out \ call[p].second
    /\ call' = [call EXCEPT ![p].second = {},
                            ![p].step = IF @ = "type_work" THEN "work" ELSE "rows"]
    /\ UNCHANGED <<Rows, failures>>

\* finally: done or failed, the connection goes back.
Finish(p) ==
    /\ call[p].step = "work"
    /\ out' = out \ call[p].first
    /\ EndCall(p)
    /\ UNCHANGED <<Rows, failures>>

-----------------------------------------------------------------------------
(* delete_thing_cascade.                                                   *)

BeginDelete(p, t) ==
    /\ call[p] = Idle
    /\ call' = [call EXCEPT ![p] = [Idle EXCEPT !.kind = "delete", !.step = "schema", !.thing = t]]
    /\ UNCHANGED <<out, Rows, failures>>

Answer(p, a) ==
    /\ answer' = [answer EXCEPT ![call[p].thing] = a]
    /\ EndCall(p)

\* The schema is known, or get_thing_schema looks it up.
ResolveSchema(p) ==
    /\ At(p, "delete", "schema")
    /\ \/ Step(p, "start") /\ UNCHANGED <<out, answer>>
       \/ /\ \E c \in Conns :
                /\ Take(c)
                /\ call' = [call EXCEPT ![p].step = "schema_work", ![p].first = {c}]
          /\ UNCHANGED answer
       \/ Exhausted /\ Answer(p, "raised")
    /\ UNCHANGED <<project, configdb, failures>>

SchemaResolved(p) ==
    /\ At(p, "delete", "schema_work")
    /\ out' = out \ call[p].first
    /\ call' = [call EXCEPT ![p].step = "start", ![p].first = {}]
    /\ UNCHANGED <<Rows, failures>>

StartDelete(p) ==
    /\ At(p, "delete", "start")
    /\ \/ /\ \E c \in Conns :
                /\ Take(c)
                /\ call' = [call EXCEPT ![p].step = "exists", ![p].first = {c}]
          /\ UNCHANGED answer
       \/ Exhausted /\ Answer(p, "raised")
    /\ UNCHANGED <<project, configdb, failures>>

\* check_schema_exists takes a second connection.  With none left it raises, the
\* except rolls back, and the deletion goes on in the ConfigDB.  A thing without
\* a schema skips the check.
CheckSchema(p) ==
    /\ At(p, "delete", "exists")
    /\ \/ \E c \in Conns :
             /\ Take(c)
             /\ call' = [call EXCEPT ![p].step = "exists_work", ![p].second = {c}]
       \/ Exhausted /\ Step(p, "config")
       \/ call[p].thing \notin project /\ Step(p, "rows") /\ UNCHANGED out
    /\ UNCHANGED <<Rows, failures>>

\* One transaction: observations, datastreams, thing, links and mapping.
DeleteRows(p) ==
    /\ At(p, "delete", "rows")
    /\ \/ project' = project \ {call[p].thing} /\ UNCHANGED failures
       \/ Fail /\ UNCHANGED project
    /\ Step(p, "config")
    /\ UNCHANGED <<out, configdb, answer>>

\* Whatever became of the rows: one transaction on a connection of its own, which
\* may be refused.  connection is dropped, never released.
DeleteConfig(p) ==
    /\ At(p, "delete", "config")
    /\ \/ /\ configdb' = configdb \ {call[p].thing}
          /\ Answer(p, "true")
          /\ UNCHANGED failures
       \/ /\ Fail
          /\ \E a \in {"false", "raised"} : Answer(p, a)
          /\ UNCHANGED configdb
    /\ UNCHANGED <<out, project>>

\* The process is restarted, with an empty pool.
Restart ==
    /\ Fail
    /\ out' = {}
    /\ call' = [p \in Threads |-> Idle]
    /\ UNCHANGED Rows

-----------------------------------------------------------------------------
Advance(p) ==
    \/ TypeId(p) \/ NestedDone(p) \/ Finish(p)
    \/ ResolveSchema(p) \/ SchemaResolved(p) \/ StartDelete(p) \/ CheckSchema(p)
    \/ DeleteRows(p) \/ DeleteConfig(p)

Next ==
    \/ \E p \in Threads :
          \/ \E c \in Conns : BeginPlain(p, c) \/ BeginCreateParser(p, c)
          \/ \E t \in Things : BeginDelete(p, t)
          \/ Advance(p)
    \/ Restart

Spec == Init /\ [][Next]_vars

\* A call that runs keeps running; nobody has to call.
FairSpec == Spec /\ \A p \in Threads : WF_vars(Advance(p))

-----------------------------------------------------------------------------
(* Properties.                                                             *)

\* No two calls, and no call and the method it nests, use one connection: a
\* transaction is never committed or rolled back by somebody else.
HeldApart ==
    /\ \A p \in Threads : Held(p) \subseteq out /\ call[p].first \cap call[p].second = {}
    /\ \A p, q \in Threads : p # q => Held(p) \cap Held(q) = {}

\* Connections that are out though no call has them: they never come back.
Leaked == out \ UNION {Held(p) : p \in Threads}

\* Every method but delete_thing_cascade gives back what it took, on every path
\* (health_check does not when its query fails, but nothing calls it).
OnlyDeletesLeak ==
    [][\A c \in Leaked' \ Leaked :
          \E p \in Threads : c \in Held(p) /\ call[p].kind = "delete"]_vars

\* Every call ends, though calls hold a connection while they ask for another and
\* the pool may be used up for good.
CallsEnd == \A p \in Threads : (call[p] # Idle) ~> (call[p] = Idle)
=============================================================================
