----------------------- MODULE SensorProvisioningProofs -----------------------
(***************************************************************************)
(* For any number of processes, projects, things and schemas: orphans are   *)
(* told of, simulations have their things, what is gone stays gone, and     *)
(* every step is a step of Provisioned or none.                             *)
(*                                                                         *)
(* The invariant says whose a thing is at each step: its uuid is drawn by   *)
(* one creation (Apart), no request is at a thing that was never ordered    *)
(* (Sound, Used), and a simulation is saved before it can be deleted.       *)
(***************************************************************************)
EXTENDS SensorProvisioning, TLAPS

\* A creation that has its simulation still to save.
Pending(r) == r.kind = "simulated" /\ r.step \in {"ordered", "waiting", "made"}

Sends(r) == r.step \in {"ordered", "syncing"}

\* Which step belongs to which kind of request, and what it knows of its thing.
Sound(r) ==
    /\ r.step # "idle" => r.thing \in Things /\ home[r.thing].schema # None
    /\ r.step = "idle" => r.kind = None
    /\ r.kind \in Creations =>
          /\ r.step \in {"ordered", "waiting", "made", "opened", "linking"}
          /\ home[r.thing].project = r.project
    /\ r.step \in {"ordered", "waiting", "made"} => r.kind \in Creations
    /\ r.step # "idle" /\ r.kind \notin {"group", "sync"} => r.project \in Projects
    /\ r.step \in {"opened", "linking"} => r.project \in Projects
    /\ r.step \in {"forgotten", "deleted"} => r.kind = "forget"
    /\ r.step = "unlinked" => r.kind = "remove"
    /\ r.step = "forgotten" => r.thing \notin sims
    /\ Sends(r) => inbox[r.thing] < MaxMessages
    /\ Pending(r) =>
          /\ r.thing \notin sims
          /\ r.thing \in rows => r.thing \in config \cup erased
          /\ r.step = "made" => r.thing \in config \cup erased

RequestsSound == \A w \in Processes : Sound(request[w])

\* Two requests at one thing.
Apart ==
    \A v, w \in Processes : v # w /\ request[v].thing = request[w].thing =>
        /\ ~(Creating(v) /\ Creating(w))
        /\ ~(Sends(request[v]) /\ Sends(request[w]))
        /\ ~(Pending(request[v]) /\ request[w].step = "forgotten")

\* Nothing is known of a thing before it is ordered.
Used ==
    \A t \in Things : home[t].schema = None =>
        /\ t \notin config \cup rows \cup setup \cup sims
        /\ inbox[t] = 0
        /\ \A p \in Projects : t \notin links[p]

\* What a step does not do to a thing that is gone.
Kept == \A t \in Things : Gone(t) => Gone(t)' /\ (t \in rows' => t \in rows)

IInv ==
    /\ TypeOK
    /\ RequestsSound
    /\ Apart
    /\ Used
    /\ OrphansAreTold
    /\ SimulationsHaveThings

-----------------------------------------------------------------------------
(* Init and the steps.                                                     *)

LEMMA InitSound == Init => IInv
<1> SUFFICES ASSUME Init PROVE IInv
  OBVIOUS
<1>1. TypeOK
  <2>1. Idle \in Request
    BY BoundsAssumption DEF Idle, At, Request
  <2> QED
    BY <2>1, BoundsAssumption DEF Init, TypeOK
<1>2. RequestsSound /\ Apart
  BY DEF Init, RequestsSound, Sound, Apart, Idle, At, Creating, Creations, Sends, None
<1>3. Used /\ OrphansAreTold /\ SimulationsHaveThings
  BY DEF Init, Used, OrphansAreTold, SimulationsHaveThings
<1> QED
  BY <1>1, <1>2, <1>3 DEF IInv

\* How a step changes the requests: only w's, to these values.
Moves(w, step, kind, t, p) ==
    /\ request' \in [Processes -> Request]
    /\ \A v \in Processes : v # w => request'[v] = request[v]
    /\ request'[w].step = step /\ request'[w].kind = kind
    /\ request'[w].thing = t /\ request'[w].project = p

Advances(w, step) ==
    Moves(w, step, request[w].kind, request[w].thing, request[w].project)

Ends(w) == Moves(w, "idle", None, None, None)

LEMMA Moved ==
    ASSUME TypeOK, NEW w \in Processes, NEW r \in Request, request' = [request EXCEPT ![w] = r]
    PROVE  Moves(w, r.step, r.kind, r.thing, r.project)
  BY DEF TypeOK, Moves

\* The requests that begin.
LEMMA Begun ==
    ASSUME TypeOK, NEW w \in Processes, NEW t \in Things, NEW p \in Projects \cup {None}
    PROVE  /\ \A kind \in Creations, s \in Schemas \cup {None} :
                 request' = [request EXCEPT ![w] =
                                [At("ordered", kind, t, p) EXCEPT !.schema = s]]
                 => Moves(w, "ordered", kind, t, p)
           /\ \A step \in {"opened", "unlinked", "forgotten", "syncing"},
                 kind \in {"link", "remove", "forget", "sync"} :
                 request' = [request EXCEPT ![w] = At(step, kind, t, p)]
                 => Moves(w, step, kind, t, p)
<1>1. ASSUME NEW kind \in Creations, NEW s \in Schemas \cup {None},
             request' = [request EXCEPT ![w] = [At("ordered", kind, t, p) EXCEPT !.schema = s]]
      PROVE  Moves(w, "ordered", kind, t, p)
  <2> DEFINE r == [At("ordered", kind, t, p) EXCEPT !.schema = s]
  <2>1. r \in Request /\ r.step = "ordered" /\ r.kind = kind /\ r.thing = t /\ r.project = p
    BY BoundsAssumption DEF At, Request
  <2>2. request' = [request EXCEPT ![w] = r]
    BY <1>1
  <2> HIDE DEF r
  <2> QED
    BY <2>1, <2>2, Moved
<1>2. ASSUME NEW step \in {"opened", "unlinked", "forgotten", "syncing"},
             NEW kind \in {"link", "remove", "forget", "sync"},
             request' = [request EXCEPT ![w] = At(step, kind, t, p)]
      PROVE  Moves(w, step, kind, t, p)
  <2> DEFINE r == At(step, kind, t, p)
  <2>1. r \in Request /\ r.step = step /\ r.kind = kind /\ r.thing = t /\ r.project = p
    BY BoundsAssumption DEF At, Request
  <2>2. request' = [request EXCEPT ![w] = r]
    BY <1>2
  <2> HIDE DEF r
  <2> QED
    BY <2>1, <2>2, Moved
<1> QED
  BY <1>1, <1>2

\* The next step of a request, with another schema in its hands or another poll behind it.
LEMMA Advanced ==
    ASSUME TypeOK, NEW w \in Processes,
           NEW step \in {"waiting", "made", "opened", "linking", "deleted"}
    PROVE  /\ Go(w, step) => Advances(w, step)
           /\ \A s \in Schemas \cup {None} :
                 request' = [request EXCEPT ![w] =
                                [request[w] EXCEPT !.step = step, !.schema = s]]
                 => Advances(w, step)
<1> DEFINE r == request[w]
<1>1. r \in Request
  BY DEF TypeOK
<1>2. ASSUME Go(w, step) PROVE Advances(w, step)
  <2> DEFINE n == [r EXCEPT !.step = step]
  <2>1. n \in Request /\ n.step = step /\ n.kind = r.kind /\ n.thing = r.thing
        /\ n.project = r.project
    BY <1>1 DEF Request
  <2>2. request' = [request EXCEPT ![w] = n]
    BY <1>2 DEF Go
  <2> HIDE DEF n
  <2> QED
    BY <2>1, <2>2, Moved DEF Advances
<1>3. ASSUME NEW s \in Schemas \cup {None},
             request' = [request EXCEPT ![w] = [request[w] EXCEPT !.step = step, !.schema = s]]
      PROVE  Advances(w, step)
  <2> DEFINE n == [r EXCEPT !.step = step, !.schema = s]
  <2>1. n \in Request /\ n.step = step /\ n.kind = r.kind /\ n.thing = r.thing
        /\ n.project = r.project
    BY <1>1 DEF Request
  <2>2. request' = [request EXCEPT ![w] = n]
    BY <1>3
  <2> HIDE DEF n
  <2> QED
    BY <2>1, <2>2, Moved DEF Advances
<1> QED
  BY <1>2, <1>3

LEMMA Polled ==
    ASSUME TypeOK, NEW w \in Processes, request[w].polls + 1 < MaxPolls,
           request' = [request EXCEPT ![w].polls = @ + 1]
    PROVE  Advances(w, request[w].step)
<1> DEFINE r == request[w]
           n == [r EXCEPT !.polls = @ + 1]
<1>1. r \in Request
  BY DEF TypeOK
<1>2. /\ n \in Request /\ n.step = r.step /\ n.kind = r.kind /\ n.thing = r.thing
      /\ n.project = r.project
  BY <1>1, BoundsAssumption DEF Request
<1>3. request' = [request EXCEPT ![w] = n]
  OBVIOUS
<1> HIDE DEF n
<1> QED
  BY <1>2, <1>3, Moved DEF Advances

LEMMA Finished ==
    ASSUME TypeOK, NEW w \in Processes, Finish(w)
    PROVE  Ends(w)
<1>1. /\ Idle \in Request /\ Idle.step = "idle" /\ Idle.kind = None /\ Idle.thing = None
      /\ Idle.project = None
  BY BoundsAssumption DEF Idle, At, Request
<1> QED
  BY <1>1, Moved DEF Finish, Ends

LEMMA IdleStep == Idle.step = "idle" /\ Idle.kind = None /\ Idle.thing = None
  BY DEF Idle, At

LEMMA OrderStep ==
    ASSUME IInv, NEW w \in Processes, NEW kind \in Creations, NEW t \in Things,
           NEW p \in Projects \cup {None},
           Order(w, kind, t, p)
    PROVE  IInv' /\ Kept
<1> USE DEF app, tsm
<1>1. /\ TypeOK /\ RequestsSound /\ Apart /\ Used /\ OrphansAreTold
      /\ SimulationsHaveThings
  BY DEF IInv
<1>2. Sound(request[w]) /\ request[w] \in Request
  BY <1>1 DEF RequestsSound, TypeOK
<1>3. Moves(w, "ordered", kind, t, p)
  BY <1>1, Begun DEF Order, TypeOK
<1>4. TypeOK'
  BY <1>1, <1>3 DEF Order, Targets, TypeOK, Moves
<1>5. RequestsSound'
  <2> SUFFICES ASSUME NEW v \in Processes PROVE Sound(request[v])'
    BY DEF RequestsSound
  <2>1. Sound(request[v]) /\ request[v] \in Request
    BY <1>1 DEF RequestsSound, TypeOK
  <2>2. CASE v = w
    BY <1>1, <1>3, BoundsAssumption, <2>2, SchemasAssumption DEF Order, Targets, TypeOK,
       Sound, Used, Moves
  <2>3. CASE v # w
    BY <2>1, <2>3 DEF Order, Sound
  <2> QED
    BY <2>2, <2>3
<1>6. Apart'
  BY <1>1, <1>3 DEF Order, RequestsSound, Sound, Apart, Sends, Creating, Moves
<1>7. Used'
  BY <1>1 DEF Order, Used
<1>8. OrphansAreTold'
  BY <1>1, <1>2, <1>3, IdleStep DEF Order, Sound, OrphansAreTold, Creating, Moves
<1>9. SimulationsHaveThings'
  BY <1>1 DEF Order, SimulationsHaveThings
<1>10. Kept
  BY <1>3 DEF Order, Kept, Gone, Sending, Moves
<1> QED
  BY <1>4, <1>5, <1>6, <1>7, <1>8, <1>9, <1>10 DEF IInv

LEMMA PublishStep ==
    ASSUME IInv, NEW w \in Processes, Publish(w)
    PROVE  IInv' /\ Kept
<1> USE DEF app, tsm
<1>1. /\ TypeOK /\ RequestsSound /\ Apart /\ Used /\ OrphansAreTold
      /\ SimulationsHaveThings
  BY DEF IInv
<1>2. Sound(request[w]) /\ request[w] \in Request
  BY <1>1 DEF RequestsSound, TypeOK
<1>3. Advances(w, "waiting") \/ (Ends(w) /\ Fail(w))
  BY <1>1, Advanced, Finished DEF Publish, Fail, Answer
<1>4. TypeOK'
  BY <1>1, <1>2, <1>3, BoundsAssumption, SchemasAssumption DEF Publish, Send, Fail, Answer,
     TypeOK, Sound, Sends, Moves, Advances, Ends
<1>5. RequestsSound'
  <2> SUFFICES ASSUME NEW v \in Processes PROVE Sound(request[v])'
    BY DEF RequestsSound
  <2>1. Sound(request[v]) /\ request[v] \in Request
    BY <1>1 DEF RequestsSound, TypeOK
  <2>2. CASE v = w
    BY <1>2, <1>3, <2>2 DEF Publish, Sound, Sends, Pending, Creations, None, Moves,
       Advances, Ends
  <2>3. CASE v # w
    BY <1>1, <1>3, <2>1, <2>3 DEF Publish, Send, Apart, TypeOK, Sound, Sends, Moves,
       Advances, Ends
  <2> QED
    BY <2>2, <2>3
<1>6. Apart'
  BY <1>1, <1>3 DEF Publish, Apart, Sends, Pending, Creating, Creations, None, Moves,
     Advances, Ends
<1>7. Used'
  BY <1>1 DEF Publish, Send, TypeOK, RequestsSound, Sound, Used
<1>8. OrphansAreTold'
  <2> SUFFICES ASSUME NEW u \in Things, home'[u].project # None,
                      home'[u].project \in projects', u \notin links'[home'[u].project]
               PROVE  \/ told'[u] \in {"failed", "unlinked", "deleted"} \/ u \in loose'
                      \/ \E v \in Processes : request'[v].thing = u /\ Creating(v)'
    BY DEF OrphansAreTold
  <2>1. \/ told[u] \in {"failed", "unlinked", "deleted"} \/ u \in loose
        \/ \E v \in Processes : request[v].thing = u /\ Creating(v)
    BY <1>1 DEF Publish, OrphansAreTold
  <2>2. CASE request[w].thing = u /\ Creating(w)
    BY <1>1, <1>3, <2>2 DEF Fail, Answer, TypeOK, Creating, Moves, Advances
  <2>3. CASE ~(request[w].thing = u /\ Creating(w))
    BY <1>1, <1>3, <2>1 DEF Publish, Fail, Answer, TypeOK, Creating, Moves, Advances, Ends
  <2> QED
    BY <2>2, <2>3
<1>9. SimulationsHaveThings'
  BY <1>1 DEF Publish, SimulationsHaveThings
<1>10. Kept
  BY <1>1, <1>3 DEF Publish, Send, TypeOK, Kept, Gone, Sending, Moves, Advances, Ends
<1> QED
  BY <1>4, <1>5, <1>6, <1>7, <1>8, <1>9, <1>10 DEF IInv

LEMMA PollStep ==
    ASSUME IInv, NEW w \in Processes, Poll(w)
    PROVE  IInv' /\ Kept
<1> USE DEF app, tsm
<1>1. /\ TypeOK /\ RequestsSound /\ Apart /\ Used /\ OrphansAreTold
      /\ SimulationsHaveThings
  BY DEF IInv
<1>2. Sound(request[w]) /\ request[w] \in Request
  BY <1>1 DEF RequestsSound, TypeOK
<1>3. \/ Advances(w, "made") /\ request[w].thing \in rows
      \/ Advances(w, "waiting")
      \/ Ends(w) /\ (Fail(w) \/ Answer(w, "failed"))
  BY <1>1, Advanced, Polled, Finished DEF Poll, Fail, Answer
<1>4. TypeOK'
  BY <1>1, <1>3, BoundsAssumption DEF Poll, Fail, Answer, TypeOK, Moves, Advances, Ends
<1>5. RequestsSound'
  <2> SUFFICES ASSUME NEW v \in Processes PROVE Sound(request[v])'
    BY DEF RequestsSound
  <2>1. Sound(request[v]) /\ request[v] \in Request
    BY <1>1 DEF RequestsSound, TypeOK
  <2>2. CASE v = w
    BY <1>2, <1>3, <2>2 DEF Poll, Sound, Sends, Pending, Creations, None, Moves, Advances, Ends
  <2>3. CASE v # w
    BY <1>3, <2>1, <2>3 DEF Poll, Sound, Moves, Advances, Ends
  <2> QED
    BY <2>2, <2>3
<1>6. Apart'
  BY <1>1, <1>3 DEF Poll, Apart, Sends, Pending, Creating, Creations, None, Moves, Advances,
     Ends
<1>7. Used'
  BY <1>1 DEF Poll, Used
<1>8. OrphansAreTold'
  <2> SUFFICES ASSUME NEW u \in Things, home'[u].project # None,
                      home'[u].project \in projects', u \notin links'[home'[u].project]
               PROVE  \/ told'[u] \in {"failed", "unlinked", "deleted"} \/ u \in loose'
                      \/ \E v \in Processes : request'[v].thing = u /\ Creating(v)'
    BY DEF OrphansAreTold
  <2>1. \/ told[u] \in {"failed", "unlinked", "deleted"} \/ u \in loose
        \/ \E v \in Processes : request[v].thing = u /\ Creating(v)
    BY <1>1 DEF Poll, OrphansAreTold
  <2>2. CASE request[w].thing = u /\ Creating(w)
    BY <1>1, <1>3, <2>2 DEF Fail, Answer, TypeOK, Creating, Moves, Advances
  <2>3. CASE ~(request[w].thing = u /\ Creating(w))
    BY <1>1, <1>3, <2>1 DEF Poll, Fail, Answer, TypeOK, Creating, Moves, Advances, Ends
  <2> QED
    BY <2>2, <2>3
<1>9. SimulationsHaveThings'
  BY <1>1 DEF Poll, SimulationsHaveThings
<1>10. Kept
  BY <1>3 DEF Poll, Kept, Gone, Sending, Moves, Advances, Ends
<1> QED
  BY <1>4, <1>5, <1>6, <1>7, <1>8, <1>9, <1>10 DEF IInv

LEMMA AssignSchemaStep ==
    ASSUME IInv, NEW w \in Processes, AssignSchema(w)
    PROVE  IInv' /\ Kept
<1> USE DEF app, tsm
<1>1. /\ TypeOK /\ RequestsSound /\ Apart /\ Used /\ OrphansAreTold
      /\ SimulationsHaveThings
  BY DEF IInv
<1>2. Sound(request[w]) /\ request[w] \in Request
  BY <1>1 DEF RequestsSound, TypeOK
<1>3. \/ Advances(w, "opened") /\ request[w].project # None
      \/ Ends(w) /\ (request[w].project = None \/ Answer(w, "failed"))
  BY <1>1, Advanced, Finished DEF AssignSchema, Answer
<1>4. TypeOK'
  BY <1>1, <1>2, <1>3 DEF AssignSchema, Answer, TypeOK, Sound, Moves, Advances, Ends
<1>5. RequestsSound'
  <2> SUFFICES ASSUME NEW v \in Processes PROVE Sound(request[v])'
    BY DEF RequestsSound
  <2>1. Sound(request[v]) /\ request[v] \in Request
    BY <1>1 DEF RequestsSound, TypeOK
  <2>2. CASE v = w
    BY <1>2, <1>3, <2>2 DEF AssignSchema, Sound, Sends, Pending, Creations, None, Request,
       Moves, Advances, Ends
  <2>3. CASE v # w
    BY <1>3, <2>1, <2>3 DEF AssignSchema, Sound, Moves, Advances, Ends
  <2> QED
    BY <2>2, <2>3
<1>6. Apart'
  BY <1>1, <1>3 DEF Apart, Sends, Pending, Creating, Creations, None, Moves, Advances, Ends
<1>7. Used'
  BY <1>1 DEF AssignSchema, Used
<1>8. OrphansAreTold'
  <2> SUFFICES ASSUME NEW u \in Things, home'[u].project # None,
                      home'[u].project \in projects', u \notin links'[home'[u].project]
               PROVE  \/ told'[u] \in {"failed", "unlinked", "deleted"} \/ u \in loose'
                      \/ \E v \in Processes : request'[v].thing = u /\ Creating(v)'
    BY DEF OrphansAreTold
  <2>1. \/ told[u] \in {"failed", "unlinked", "deleted"} \/ u \in loose
        \/ \E v \in Processes : request[v].thing = u /\ Creating(v)
    BY <1>1 DEF AssignSchema, OrphansAreTold
  <2>2. CASE request[w].thing = u /\ Creating(w)
    BY <1>1, <1>2, <1>3, <2>2 DEF AssignSchema, Answer, TypeOK, Sound, Creating, Moves,
       Advances
  <2>3. CASE ~(request[w].thing = u /\ Creating(w))
    BY <1>1, <1>3, <2>1, <2>3 DEF AssignSchema, Answer, TypeOK, Creating, Creations, Moves,
       Advances, Ends
  <2> QED
    BY <2>2, <2>3
<1>9. SimulationsHaveThings'
  BY <1>1 DEF AssignSchema, SimulationsHaveThings
<1>10. Kept
  BY <1>3 DEF AssignSchema, Kept, Gone, Sending, Moves, Advances, Ends
<1> QED
  BY <1>4, <1>5, <1>6, <1>7, <1>8, <1>9, <1>10 DEF IInv

LEMMA SaveSimulationStep ==
    ASSUME IInv, NEW w \in Processes, SaveSimulation(w)
    PROVE  IInv' /\ Kept
<1> USE DEF app, tsm
<1>1. /\ TypeOK /\ RequestsSound /\ Apart /\ Used /\ OrphansAreTold
      /\ SimulationsHaveThings
  BY DEF IInv
<1>2. Sound(request[w]) /\ request[w] \in Request
  BY <1>1 DEF RequestsSound, TypeOK
<1>3. Advances(w, "opened")
  BY <1>1, Advanced DEF SaveSimulation
<1>4. TypeOK'
  BY <1>1, <1>2, <1>3 DEF SaveSimulation, TypeOK, Sound, Moves, Advances
<1>5. RequestsSound'
  <2> SUFFICES ASSUME NEW v \in Processes PROVE Sound(request[v])'
    BY DEF RequestsSound
  <2>1. Sound(request[v]) /\ request[v] \in Request
    BY <1>1 DEF RequestsSound, TypeOK
  <2>2. CASE v = w
    BY <1>2, <1>3, <2>2 DEF SaveSimulation, Sound, Sends, Pending, Moves, Advances
  <2>3. CASE v # w
    BY <1>1, <1>3, <2>1, <2>3 DEF SaveSimulation, Apart, Sound, Pending, Creating, Moves,
       Advances
  <2> QED
    BY <2>2, <2>3
<1>6. Apart'
  BY <1>1, <1>3 DEF Apart, Sends, Pending, Creating, Moves, Advances
<1>7. Used'
  BY <1>1 DEF SaveSimulation, RequestsSound, Sound, Used
<1>8. OrphansAreTold'
  BY <1>1, <1>3 DEF SaveSimulation, OrphansAreTold, Creating, Moves, Advances
<1>9. SimulationsHaveThings'
  BY <1>1 DEF SaveSimulation, RequestsSound, Sound, Pending, SimulationsHaveThings
<1>10. Kept
  BY <1>3 DEF SaveSimulation, Kept, Gone, Sending, Moves, Advances
<1> QED
  BY <1>4, <1>5, <1>6, <1>7, <1>8, <1>9, <1>10 DEF IInv

LEMMA LinkDatasetStep ==
    ASSUME IInv, NEW w \in Processes, LinkDataset(w)
    PROVE  IInv' /\ Kept
<1> USE DEF app, tsm
<1>1. /\ TypeOK /\ RequestsSound /\ Apart /\ Used /\ OrphansAreTold
      /\ SimulationsHaveThings
  BY DEF IInv
<1>2. Sound(request[w]) /\ request[w] \in Request
  BY <1>1 DEF RequestsSound, TypeOK
<1>3. Ends(w)
  BY <1>1, Finished DEF LinkDataset, Answer
<1>4. /\ links' \in [Projects -> SUBSET Things]
      /\ request[w].project \in projects => request[w].thing \in links'[request[w].project]
  BY <1>1, <1>2 DEF LinkDataset, TypeOK, Sound
<1>5. TypeOK'
  BY <1>1, <1>3, <1>4 DEF LinkDataset, Answer, TypeOK, Moves, Ends
<1>6. RequestsSound'
  <2> SUFFICES ASSUME NEW v \in Processes PROVE Sound(request[v])'
    BY DEF RequestsSound
  <2>1. Sound(request[v]) /\ request[v] \in Request
    BY <1>1 DEF RequestsSound, TypeOK
  <2>2. CASE v = w
    BY <1>3, <2>2 DEF Sound, Sends, Pending, Creations, None, Moves, Ends
  <2>3. CASE v # w
    BY <1>3, <2>1, <2>3 DEF LinkDataset, Sound, Moves, Ends
  <2> QED
    BY <2>2, <2>3
<1>7. Apart'
  BY <1>1, <1>3 DEF Apart, Sends, Pending, Creating, Creations, None, Moves, Ends
<1>8. Used'
  BY <1>1, <1>4 DEF LinkDataset, RequestsSound, Sound, Used
<1>9. OrphansAreTold'
  <2> SUFFICES ASSUME NEW u \in Things, home'[u].project # None,
                      home'[u].project \in projects', u \notin links'[home'[u].project]
               PROVE  \/ told'[u] \in {"failed", "unlinked", "deleted"} \/ u \in loose'
                      \/ \E v \in Processes : request'[v].thing = u /\ Creating(v)'
    BY DEF OrphansAreTold
  <2>1. \/ told[u] \in {"failed", "unlinked", "deleted"} \/ u \in loose
        \/ \E v \in Processes : request[v].thing = u /\ Creating(v)
    BY <1>1 DEF LinkDataset, OrphansAreTold, TypeOK
  <2>2. CASE request[w].thing = u /\ Creating(w)
    BY <1>2, <1>4, <2>2 DEF LinkDataset, Sound, Moves
  <2>3. CASE ~(request[w].thing = u /\ Creating(w))
    BY <1>1, <1>3, <2>1, <2>3 DEF LinkDataset, Answer, TypeOK, Creating, Creations, Moves, Ends
  <2> QED
    BY <2>2, <2>3
<1>10. SimulationsHaveThings'
  BY <1>1 DEF LinkDataset, SimulationsHaveThings
<1>11. Kept
  BY <1>3 DEF LinkDataset, Kept, Gone, Sending, Moves, Ends
<1> QED
  BY <1>5, <1>6, <1>7, <1>8, <1>9, <1>10, <1>11 DEF IInv

LEMMA FindToLinkStep ==
    ASSUME IInv, NEW w \in Processes, NEW t \in Things, NEW p \in Projects, FindToLink(w, t, p)
    PROVE  IInv' /\ Kept
<1> USE DEF app, tsm
<1>1. /\ TypeOK /\ RequestsSound /\ Apart /\ Used /\ OrphansAreTold
      /\ SimulationsHaveThings
  BY DEF IInv
<1>2. Sound(request[w]) /\ request[w] \in Request
  BY <1>1 DEF RequestsSound, TypeOK
<1>3. Moves(w, "opened", "link", t, p)
  BY <1>1, Begun DEF FindToLink
<1>4. TypeOK'
  BY <1>1, <1>3 DEF FindToLink, TypeOK, Moves
<1>5. RequestsSound'
  <2> SUFFICES ASSUME NEW v \in Processes PROVE Sound(request[v])'
    BY DEF RequestsSound
  <2>1. Sound(request[v]) /\ request[v] \in Request
    BY <1>1 DEF RequestsSound, TypeOK
  <2>2. CASE v = w
    BY <1>1, <1>3, <2>2 DEF FindToLink, Sound, Sends, Pending, Creations, Used, Moves
  <2>3. CASE v # w
    BY <2>1, <2>3 DEF FindToLink, Sound
  <2> QED
    BY <2>2, <2>3
<1>6. Apart'
  BY <1>1, <1>3 DEF Apart, Sends, Pending, Creating, Creations, Moves
<1>7. Used'
  BY <1>1 DEF FindToLink, Used
<1>8. OrphansAreTold'
  BY <1>1, <1>2, IdleStep DEF FindToLink, Sound, OrphansAreTold, Creating
<1>9. SimulationsHaveThings'
  BY <1>1 DEF FindToLink, SimulationsHaveThings
<1>10. Kept
  BY <1>3 DEF FindToLink, Kept, Gone, Sending, Moves
<1> QED
  BY <1>4, <1>5, <1>6, <1>7, <1>8, <1>9, <1>10 DEF IInv

LEMMA OpenProjectStep ==
    ASSUME IInv, NEW w \in Processes, OpenProject(w)
    PROVE  IInv' /\ Kept
<1> USE DEF app, tsm
<1>1. /\ TypeOK /\ RequestsSound /\ Apart /\ Used /\ OrphansAreTold
      /\ SimulationsHaveThings
  BY DEF IInv
<1>2. Sound(request[w]) /\ request[w] \in Request
  BY <1>1 DEF RequestsSound, TypeOK
<1>3. Advances(w, "linking") \/ (Ends(w) /\ request[w].project \notin projects)
  BY <1>1, Advanced, Finished DEF OpenProject, EndLink, Answer, TypeOK
<1>4. TypeOK'
  BY <1>1, <1>3, BoundsAssumption DEF OpenProject, EndLink, Answer, TypeOK, Moves, Advances, Ends
<1>5. RequestsSound'
  <2> SUFFICES ASSUME NEW v \in Processes PROVE Sound(request[v])'
    BY DEF RequestsSound
  <2>1. Sound(request[v]) /\ request[v] \in Request
    BY <1>1 DEF RequestsSound, TypeOK
  <2>2. CASE v = w
    BY <1>2, <1>3, <2>2 DEF OpenProject, Sound, Sends, Pending, Creations, None, Moves,
       Advances, Ends
  <2>3. CASE v # w
    BY <1>3, <2>1, <2>3 DEF OpenProject, Sound, Moves, Advances, Ends
  <2> QED
    BY <2>2, <2>3
<1>6. Apart'
  BY <1>1, <1>3 DEF Apart, Sends, Pending, Creating, Creations, None, Moves, Advances, Ends
<1>7. Used'
  BY <1>1 DEF OpenProject, Used
<1>8. OrphansAreTold'
  <2> SUFFICES ASSUME NEW u \in Things, home'[u].project # None,
                      home'[u].project \in projects', u \notin links'[home'[u].project]
               PROVE  \/ told'[u] \in {"failed", "unlinked", "deleted"} \/ u \in loose'
                      \/ \E v \in Processes : request'[v].thing = u /\ Creating(v)'
    BY DEF OrphansAreTold
  <2>1. \/ told[u] \in {"failed", "unlinked", "deleted"} \/ u \in loose
        \/ \E v \in Processes : request[v].thing = u /\ Creating(v)
    BY <1>1 DEF OpenProject, OrphansAreTold
  <2>2. CASE request[w].thing = u /\ Creating(w)
    BY <1>2, <1>3, <2>2 DEF OpenProject, Sound, Creating, Moves, Advances
  <2>3. CASE ~(request[w].thing = u /\ Creating(w))
    BY <1>1, <1>3, <2>1, <2>3 DEF OpenProject, EndLink, Answer, TypeOK, Creating, Moves,
       Advances, Ends
  <2> QED
    BY <2>2, <2>3
<1>9. SimulationsHaveThings'
  BY <1>1 DEF OpenProject, SimulationsHaveThings
<1>10. Kept
  BY <1>3 DEF OpenProject, Kept, Gone, Sending, Moves, Advances, Ends
<1> QED
  BY <1>4, <1>5, <1>6, <1>7, <1>8, <1>9, <1>10 DEF IInv

LEMMA LinkStep ==
    ASSUME IInv, NEW w \in Processes, Link(w)
    PROVE  IInv' /\ Kept
<1> USE DEF app, tsm
<1>1. /\ TypeOK /\ RequestsSound /\ Apart /\ Used /\ OrphansAreTold
      /\ SimulationsHaveThings
  BY DEF IInv
<1>2. Sound(request[w]) /\ request[w] \in Request
  BY <1>1 DEF RequestsSound, TypeOK
<1>3. Ends(w)
  BY <1>1, Finished DEF Link, EndLink, Answer
<1>4. request[w].thing \in Things /\ request[w].schema \in Schemas \cup {None}
  BY <1>2 DEF Link, Sound, Request
<1>5. /\ links' \in [Projects -> SUBSET Things]
      /\ request[w].project \in projects => request[w].thing \in links'[request[w].project]
      /\ \A p \in Projects : /\ links[p] \subseteq links'[p]
                            /\ links'[p] \subseteq links[p] \cup {request[w].thing}
  <2>1. CASE links' = links /\ (request[w].project \in projects
                               => request[w].thing \in links[request[w].project])
    BY <1>1, <2>1 DEF TypeOK
  <2>2. CASE /\ request[w].project \in Projects
             /\ links' = [links EXCEPT ![request[w].project] = @ \cup {request[w].thing}]
    BY <1>1, <1>4, <2>2 DEF TypeOK
  <2> QED
    BY <1>1, <2>2 DEF Link, TypeOK
<1>6. schema' \in [Projects -> Schemas \cup {None}]
  BY <1>1, <1>4 DEF Link, TypeOK
<1>7. TypeOK'
  BY <1>1, <1>3, <1>5, <1>6 DEF Link, EndLink, Answer, TypeOK, Moves, Ends
<1>8. RequestsSound'
  <2> SUFFICES ASSUME NEW v \in Processes PROVE Sound(request[v])'
    BY DEF RequestsSound
  <2>1. Sound(request[v]) /\ request[v] \in Request
    BY <1>1 DEF RequestsSound, TypeOK
  <2>2. CASE v = w
    BY <1>3, <2>2 DEF Sound, Sends, Pending, Creations, None, Moves, Ends
  <2>3. CASE v # w
    BY <1>3, <2>1, <2>3 DEF Link, Sound, Moves, Ends
  <2> QED
    BY <2>2, <2>3
<1>9. Apart'
  BY <1>1, <1>3 DEF Apart, Sends, Pending, Creating, Creations, None, Moves, Ends
<1>10. Used'
  BY <1>1, <1>5 DEF Link, RequestsSound, Sound, Used
<1>11. OrphansAreTold'
  <2> SUFFICES ASSUME NEW u \in Things, home'[u].project # None,
                      home'[u].project \in projects', u \notin links'[home'[u].project]
               PROVE  \/ told'[u] \in {"failed", "unlinked", "deleted"} \/ u \in loose'
                      \/ \E v \in Processes : request'[v].thing = u /\ Creating(v)'
    BY DEF OrphansAreTold
  <2>1. \/ told[u] \in {"failed", "unlinked", "deleted"} \/ u \in loose
        \/ \E v \in Processes : request[v].thing = u /\ Creating(v)
    BY <1>1, <1>5 DEF Link, OrphansAreTold, TypeOK
  <2>2. CASE request[w].thing = u /\ Creating(w)
    BY <1>2, <1>5, <2>2 DEF Link, Sound, Creating, Moves
  <2>3. CASE ~(request[w].thing = u /\ Creating(w))
    BY <1>1, <1>3, <2>1, <2>3 DEF Link, EndLink, Answer, TypeOK, Creating, Moves, Ends
  <2> QED
    BY <2>2, <2>3
<1>12. SimulationsHaveThings'
  BY <1>1 DEF Link, SimulationsHaveThings
<1>13. Kept
  BY <1>3 DEF Link, Kept, Gone, Sending, Moves, Ends
<1> QED
  BY <1>7, <1>8, <1>9, <1>10, <1>11, <1>12, <1>13 DEF IInv

LEMMA LinkFailsStep ==
    ASSUME IInv, NEW w \in Processes, LinkFails(w)
    PROVE  IInv' /\ Kept
<1> USE DEF app, tsm
<1>1. /\ TypeOK /\ RequestsSound /\ Apart /\ Used /\ OrphansAreTold
      /\ SimulationsHaveThings
  BY DEF IInv
<1>2. Sound(request[w]) /\ request[w] \in Request /\ request[w].thing \in Things
  BY <1>1 DEF RequestsSound, TypeOK, LinkFails, Sound
<1>3. Ends(w)
  BY <1>1, Finished DEF LinkFails, EndLink, Answer
<1>4. TypeOK'
  BY <1>1, <1>2, <1>3, BoundsAssumption DEF LinkFails, EndLink, Answer, TypeOK, Moves, Ends
<1>5. RequestsSound'
  <2> SUFFICES ASSUME NEW v \in Processes PROVE Sound(request[v])'
    BY DEF RequestsSound
  <2>1. Sound(request[v]) /\ request[v] \in Request
    BY <1>1 DEF RequestsSound, TypeOK
  <2>2. CASE v = w
    BY <1>3, <2>2 DEF Sound, Sends, Pending, Creations, None, Moves, Ends
  <2>3. CASE v # w
    BY <1>3, <2>1, <2>3 DEF LinkFails, Sound, Moves, Ends
  <2> QED
    BY <2>2, <2>3
<1>6. Apart'
  BY <1>1, <1>3 DEF Apart, Sends, Pending, Creating, Creations, None, Moves, Ends
<1>7. Used'
  BY <1>1 DEF LinkFails, Used
<1>8. OrphansAreTold'
  <2> SUFFICES ASSUME NEW u \in Things, home'[u].project # None,
                      home'[u].project \in projects', u \notin links'[home'[u].project]
               PROVE  \/ told'[u] \in {"failed", "unlinked", "deleted"} \/ u \in loose'
                      \/ \E v \in Processes : request'[v].thing = u /\ Creating(v)'
    BY DEF OrphansAreTold
  <2>1. \/ told[u] \in {"failed", "unlinked", "deleted"} \/ u \in loose
        \/ \E v \in Processes : request[v].thing = u /\ Creating(v)
    BY <1>1 DEF LinkFails, OrphansAreTold
  <2>2. CASE request[w].thing = u /\ Creating(w)
    BY <2>2 DEF LinkFails
  <2>3. CASE ~(request[w].thing = u /\ Creating(w))
    BY <1>1, <1>3, <2>1, <2>3 DEF LinkFails, EndLink, Answer, TypeOK, Creating, Moves, Ends
  <2> QED
    BY <2>2, <2>3
<1>9. SimulationsHaveThings'
  BY <1>1 DEF LinkFails, SimulationsHaveThings
<1>10. Kept
  BY <1>3 DEF LinkFails, Kept, Gone, Sending, Moves, Ends
<1> QED
  BY <1>4, <1>5, <1>6, <1>7, <1>8, <1>9, <1>10 DEF IInv

LEMMA RemoveSensorStep ==
    ASSUME IInv, NEW w \in Processes, NEW t \in Things, NEW p \in Projects,
           NEW fromSource \in BOOLEAN,
           RemoveSensor(w, t, p, fromSource)
    PROVE  IInv' /\ Kept
<1> USE DEF app, tsm
<1>1. /\ TypeOK /\ RequestsSound /\ Apart /\ Used /\ OrphansAreTold
      /\ SimulationsHaveThings
  BY DEF IInv
<1>2. Sound(request[w]) /\ request[w] \in Request
  BY <1>1 DEF RequestsSound, TypeOK
<1>3. request' = request \/ Moves(w, "unlinked", "remove", t, p)
  BY <1>1, Begun DEF RemoveSensor
<1>4. TypeOK'
  BY <1>1, <1>3 DEF RemoveSensor, Unlink, TypeOK, Moves
<1>5. RequestsSound'
  <2> SUFFICES ASSUME NEW v \in Processes PROVE Sound(request[v])'
    BY DEF RequestsSound
  <2>1. Sound(request[v]) /\ request[v] \in Request
    BY <1>1 DEF RequestsSound, TypeOK
  <2>2. CASE v = w
    BY <1>1, <1>2, <1>3, <2>2 DEF RemoveSensor, Sound, Sends, Pending, Creations, Used, Moves
  <2>3. CASE v # w
    BY <2>1, <2>3 DEF RemoveSensor, Sound
  <2> QED
    BY <2>2, <2>3
<1>6. Apart'
  BY <1>1, <1>3 DEF Apart, Sends, Pending, Creating, Creations, Moves
<1>7. Used'
  BY <1>1 DEF RemoveSensor, Unlink, Used
<1>8. OrphansAreTold'
  BY <1>1, <1>2, IdleStep DEF RemoveSensor, Unlink, TypeOK, Sound, OrphansAreTold, Creating
<1>9. SimulationsHaveThings'
  BY <1>1 DEF RemoveSensor, SimulationsHaveThings
<1>10. Kept
  BY <1>3 DEF RemoveSensor, Kept, Gone, Sending, Moves
<1> QED
  BY <1>4, <1>5, <1>6, <1>7, <1>8, <1>9, <1>10 DEF IInv

LEMMA DeleteSourceStep ==
    ASSUME IInv, NEW w \in Processes, DeleteSource(w)
    PROVE  IInv' /\ Kept
<1> USE DEF app, tsm
<1>1. /\ TypeOK /\ RequestsSound /\ Apart /\ Used /\ OrphansAreTold
      /\ SimulationsHaveThings
  BY DEF IInv
<1>2. Sound(request[w]) /\ request[w] \in Request
  BY <1>1 DEF RequestsSound, TypeOK
<1>3. Ends(w)
  BY <1>1, Finished DEF DeleteSource, Answer
<1>4. config' \subseteq config /\ rows' \subseteq rows /\ inbox' = inbox /\ home' = home
  BY DEF DeleteSource, Cascade
<1>5. TypeOK'
  BY <1>1, <1>3, BoundsAssumption DEF DeleteSource, Cascade, Answer, TypeOK, Moves, Ends
<1>6. RequestsSound'
  <2> SUFFICES ASSUME NEW v \in Processes PROVE Sound(request[v])'
    BY DEF RequestsSound
  <2>1. Sound(request[v]) /\ request[v] \in Request
    BY <1>1 DEF RequestsSound, TypeOK
  <2>2. CASE v = w
    BY <1>3, <2>2 DEF Sound, Sends, Pending, Creations, None, Moves, Ends
  <2>3. CASE v # w
    BY <1>3, <2>1, <2>3 DEF DeleteSource, Cascade, Sound, Moves, Ends
  <2> QED
    BY <2>2, <2>3
<1>7. Apart'
  BY <1>1, <1>3 DEF Apart, Sends, Pending, Creating, Creations, None, Moves, Ends
<1>8. Used'
  BY <1>1 DEF DeleteSource, Cascade, Used
<1>9. OrphansAreTold'
  <2> SUFFICES ASSUME NEW u \in Things, home'[u].project # None,
                      home'[u].project \in projects', u \notin links'[home'[u].project]
               PROVE  \/ told'[u] \in {"failed", "unlinked", "deleted"} \/ u \in loose'
                      \/ \E v \in Processes : request'[v].thing = u /\ Creating(v)'
    BY DEF OrphansAreTold
  <2>1. \/ told[u] \in {"failed", "unlinked", "deleted"} \/ u \in loose
        \/ \E v \in Processes : request[v].thing = u /\ Creating(v)
    BY <1>1 DEF DeleteSource, OrphansAreTold
  <2>2. CASE request[w].thing = u /\ Creating(w)
    BY <1>2, <2>2 DEF DeleteSource, Sound, Creating, Moves
  <2>3. CASE ~(request[w].thing = u /\ Creating(w))
    BY <1>1, <1>3, <2>1, <2>3 DEF DeleteSource, Answer, TypeOK, Creating, Moves, Ends
  <2> QED
    BY <2>2, <2>3
<1>10. SimulationsHaveThings'
  BY <1>1 DEF DeleteSource, SimulationsHaveThings
<1>11. Kept
  BY <1>3, <1>4 DEF Sends, Kept, Gone, Sending, Moves, Ends
<1> QED
  BY <1>5, <1>6, <1>7, <1>8, <1>9, <1>10, <1>11 DEF IInv

LEMMA ForgetSimulationStep ==
    ASSUME IInv, NEW w \in Processes, NEW t \in Things, NEW p \in Projects,
           ForgetSimulation(w, t, p)
    PROVE  IInv' /\ Kept
<1> USE DEF app, tsm
<1>1. /\ TypeOK /\ RequestsSound /\ Apart /\ Used /\ OrphansAreTold
      /\ SimulationsHaveThings
  BY DEF IInv
<1>2. Sound(request[w]) /\ request[w] \in Request
  BY <1>1 DEF RequestsSound, TypeOK
<1>3. Moves(w, "forgotten", "forget", t, p)
  BY <1>1, Begun DEF ForgetSimulation
<1>4. TypeOK'
  BY <1>1, <1>3 DEF ForgetSimulation, TypeOK, Moves
<1>5. RequestsSound'
  <2> SUFFICES ASSUME NEW v \in Processes PROVE Sound(request[v])'
    BY DEF RequestsSound
  <2>1. Sound(request[v]) /\ request[v] \in Request
    BY <1>1 DEF RequestsSound, TypeOK
  <2>2. CASE v = w
    BY <1>1, <1>3, <2>2 DEF ForgetSimulation, Sound, Sends, Pending, Creations, Used, Moves
  <2>3. CASE v # w
    BY <2>1, <2>3 DEF ForgetSimulation, Sound
  <2> QED
    BY <2>2, <2>3
<1>6. Apart'
  BY <1>1, <1>3 DEF ForgetSimulation, RequestsSound, Sound, Apart, Sends, Creating,
     Creations, Moves
<1>7. Used'
  BY <1>1 DEF ForgetSimulation, Used
<1>8. OrphansAreTold'
  BY <1>1, <1>2, IdleStep DEF ForgetSimulation, Sound, OrphansAreTold, Creating
<1>9. SimulationsHaveThings'
  BY <1>1 DEF ForgetSimulation, SimulationsHaveThings
<1>10. Kept
  BY <1>3 DEF ForgetSimulation, Kept, Gone, Sending, Moves
<1> QED
  BY <1>4, <1>5, <1>6, <1>7, <1>8, <1>9, <1>10 DEF IInv

LEMMA DeleteSimulatedStep ==
    ASSUME IInv, NEW w \in Processes, DeleteSimulated(w)
    PROVE  IInv' /\ Kept
<1> USE DEF app, tsm
<1>1. /\ TypeOK /\ RequestsSound /\ Apart /\ Used /\ OrphansAreTold
      /\ SimulationsHaveThings
  BY DEF IInv
<1>2. Sound(request[w]) /\ request[w] \in Request
  BY <1>1 DEF RequestsSound, TypeOK
<1>3. Advances(w, "deleted") \/ Ends(w)
  BY <1>1, Advanced, Finished DEF DeleteSimulated, Fail, Answer
<1>4. TypeOK'
  BY <1>1, <1>3, BoundsAssumption DEF DeleteSimulated, Cascade, SchemaFor, Fail, Answer,
     TypeOK, Moves, Advances, Ends
<1>5. RequestsSound'
  <2> SUFFICES ASSUME NEW v \in Processes PROVE Sound(request[v])'
    BY DEF RequestsSound
  <2>1. Sound(request[v]) /\ request[v] \in Request
    BY <1>1 DEF RequestsSound, TypeOK
  <2>2. CASE v = w
    BY <1>2, <1>3, <2>2 DEF DeleteSimulated, Sound, Sends, Pending, Creations, None, Moves,
       Advances, Ends
  <2>3. CASE v # w
    BY <1>1, <1>3, <2>1, <2>3 DEF DeleteSimulated, Cascade, Apart, Sound, Moves, Advances, Ends
  <2> QED
    BY <2>2, <2>3
<1>6. Apart'
  BY <1>1, <1>3 DEF Apart, Sends, Pending, Creating, Creations, None, Moves, Advances, Ends
<1>7. Used'
  BY <1>1 DEF DeleteSimulated, Cascade, Used
<1>8. OrphansAreTold'
  BY <1>1, <1>3, ThingsAssumption, SchemasAssumption DEF DeleteSimulated, Fail, Answer,
     RequestsSound, Sound, OrphansAreTold, Creating, Creations, None, Moves, Advances, Ends
<1>9. SimulationsHaveThings'
  BY <1>1 DEF DeleteSimulated, Cascade, RequestsSound, Sound, SimulationsHaveThings
<1>10. Kept
  BY <1>3 DEF DeleteSimulated, Cascade, Kept, Gone, Sending, Moves, Advances, Ends
<1> QED
  BY <1>4, <1>5, <1>6, <1>7, <1>8, <1>9, <1>10 DEF IInv

LEMMA UnlinkSimulatedStep ==
    ASSUME IInv, NEW w \in Processes, UnlinkSimulated(w)
    PROVE  IInv' /\ Kept
<1> USE DEF app, tsm
<1>1. /\ TypeOK /\ RequestsSound /\ Apart /\ Used /\ OrphansAreTold
      /\ SimulationsHaveThings
  BY DEF IInv
<1>2. Sound(request[w]) /\ request[w] \in Request
  BY <1>1 DEF RequestsSound, TypeOK
<1>3. Ends(w)
  BY <1>1, Finished DEF UnlinkSimulated, Answer
<1>4. TypeOK'
  BY <1>1, <1>2, <1>3, IdleStep DEF UnlinkSimulated, Unlink, Answer, TypeOK, Sound, Moves, Ends
<1>5. RequestsSound'
  <2> SUFFICES ASSUME NEW v \in Processes PROVE Sound(request[v])'
    BY DEF RequestsSound
  <2>1. Sound(request[v]) /\ request[v] \in Request
    BY <1>1 DEF RequestsSound, TypeOK
  <2>2. CASE v = w
    BY <1>3, <2>2 DEF Sound, Sends, Pending, Creations, None, Moves, Ends
  <2>3. CASE v # w
    BY <1>3, <2>1, <2>3 DEF UnlinkSimulated, Sound, Moves, Ends
  <2> QED
    BY <2>2, <2>3
<1>6. Apart'
  BY <1>1, <1>3 DEF Apart, Sends, Pending, Creating, Creations, None, Moves, Ends
<1>7. Used'
  BY <1>1, <1>2, ProjectsAssumption DEF UnlinkSimulated, Unlink, TypeOK, Used
<1>8. OrphansAreTold'
  BY <1>1, <1>3, ProjectsAssumption, ThingsAssumption, SchemasAssumption DEF
     UnlinkSimulated, Unlink, Answer, TypeOK, RequestsSound, OrphansAreTold, Creating,
     Creations, None, Moves, Ends
<1>9. SimulationsHaveThings'
  BY <1>1 DEF UnlinkSimulated, SimulationsHaveThings
<1>10. Kept
  BY <1>3 DEF UnlinkSimulated, Kept, Gone, Sending, Moves, Ends
<1> QED
  BY <1>4, <1>5, <1>6, <1>7, <1>8, <1>9, <1>10 DEF IInv

LEMMA ReadConfigStep ==
    ASSUME IInv, NEW w \in Processes, NEW t \in Things, ReadConfig(w, t)
    PROVE  IInv' /\ Kept
<1> USE DEF app, tsm
<1>1. /\ TypeOK /\ RequestsSound /\ Apart /\ Used /\ OrphansAreTold
      /\ SimulationsHaveThings
  BY DEF IInv
<1>2. Sound(request[w]) /\ request[w] \in Request
  BY <1>1 DEF RequestsSound, TypeOK
<1>3. Moves(w, "syncing", "sync", t, None)
  BY <1>1, Begun DEF ReadConfig
<1>4. TypeOK'
  BY <1>1, <1>3 DEF ReadConfig, TypeOK, Moves
<1>5. RequestsSound'
  <2> SUFFICES ASSUME NEW v \in Processes PROVE Sound(request[v])'
    BY DEF RequestsSound
  <2>1. Sound(request[v]) /\ request[v] \in Request
    BY <1>1 DEF RequestsSound, TypeOK
  <2>2. CASE v = w
    BY <1>1, <1>3, <2>2 DEF ReadConfig, Sound, Pending, Creations, Used, Moves
  <2>3. CASE v # w
    BY <2>1, <2>3 DEF ReadConfig, Sound
  <2> QED
    BY <2>2, <2>3
<1>6. Apart'
  BY <1>1, <1>3 DEF ReadConfig, Sending, Apart, Sends, Pending, Creating, Creations, Moves
<1>7. Used'
  BY <1>1 DEF ReadConfig, Used
<1>8. OrphansAreTold'
  BY <1>1, <1>2, IdleStep DEF ReadConfig, Sound, OrphansAreTold, Creating
<1>9. SimulationsHaveThings'
  BY <1>1 DEF ReadConfig, SimulationsHaveThings
<1>10. Kept
  BY <1>3 DEF ReadConfig, Kept, Gone, Sending, Moves
<1> QED
  BY <1>4, <1>5, <1>6, <1>7, <1>8, <1>9, <1>10 DEF IInv

LEMMA PublishSyncStep ==
    ASSUME IInv, NEW w \in Processes, PublishSync(w)
    PROVE  IInv' /\ Kept
<1> USE DEF app, tsm
<1>1. /\ TypeOK /\ RequestsSound /\ Apart /\ Used /\ OrphansAreTold
      /\ SimulationsHaveThings
  BY DEF IInv
<1>2. Sound(request[w]) /\ request[w] \in Request
  BY <1>1 DEF RequestsSound, TypeOK
<1>3. Ends(w)
  BY <1>1, Finished DEF PublishSync
<1>4. TypeOK'
  BY <1>1, <1>2, <1>3, BoundsAssumption DEF PublishSync, Send, TypeOK, Sound, Sends, Moves,
     Ends
<1>5. RequestsSound'
  <2> SUFFICES ASSUME NEW v \in Processes PROVE Sound(request[v])'
    BY DEF RequestsSound
  <2>1. Sound(request[v]) /\ request[v] \in Request
    BY <1>1 DEF RequestsSound, TypeOK
  <2>2. CASE v = w
    BY <1>3, <2>2 DEF Sound, Sends, Pending, Creations, None, Moves, Ends
  <2>3. CASE v # w
    BY <1>1, <1>3, <2>1, <2>3 DEF PublishSync, Send, Apart, TypeOK, Sound, Sends, Moves, Ends
  <2> QED
    BY <2>2, <2>3
<1>6. Apart'
  BY <1>1, <1>3 DEF Apart, Sends, Pending, Creating, Creations, None, Moves, Ends
<1>7. Used'
  BY <1>1 DEF PublishSync, Send, TypeOK, RequestsSound, Sound, Used
<1>8. OrphansAreTold'
  BY <1>1, <1>3 DEF PublishSync, RequestsSound, Sound, OrphansAreTold, Creating, Moves, Ends
<1>9. SimulationsHaveThings'
  BY <1>1 DEF PublishSync, SimulationsHaveThings
<1>10. Kept
  BY <1>1, <1>3 DEF PublishSync, Send, TypeOK, Kept, Gone, Sending, Moves, Ends
<1> QED
  BY <1>4, <1>5, <1>6, <1>7, <1>8, <1>9, <1>10 DEF IInv

LEMMA ResolveSchemaStep ==
    ASSUME IInv, NEW p \in Projects, ResolveSchema(p)
    PROVE  IInv' /\ Kept
<1> USE DEF app, tsm
<1>1. /\ TypeOK /\ RequestsSound /\ Apart /\ Used /\ OrphansAreTold
      /\ SimulationsHaveThings
  BY DEF IInv
<1>2. TypeOK'
  BY <1>1 DEF ResolveSchema, TypeOK
<1>3. RequestsSound'
  <2> SUFFICES ASSUME NEW v \in Processes PROVE Sound(request[v])'
    BY DEF RequestsSound
  <2>1. Sound(request[v]) /\ request[v] \in Request
    BY <1>1 DEF RequestsSound, TypeOK
  <2> QED
    BY <2>1 DEF ResolveSchema, Sound
<1>4. Apart'
  BY <1>1 DEF ResolveSchema, Apart, Creating
<1>5. Used'
  BY <1>1 DEF ResolveSchema, Used
<1>6. OrphansAreTold'
  BY <1>1 DEF ResolveSchema, OrphansAreTold, Creating
<1>7. SimulationsHaveThings'
  BY <1>1 DEF ResolveSchema, SimulationsHaveThings
<1>8. Kept
  BY DEF ResolveSchema, Kept, Gone, Sending
<1> QED
  BY <1>2, <1>3, <1>4, <1>5, <1>6, <1>7, <1>8 DEF IInv

LEMMA DeleteProjectStep ==
    ASSUME IInv, NEW p \in Projects, DeleteProject(p)
    PROVE  IInv' /\ Kept
<1> USE DEF app, tsm
<1>1. /\ TypeOK /\ RequestsSound /\ Apart /\ Used /\ OrphansAreTold
      /\ SimulationsHaveThings
  BY DEF IInv
<1>2. TypeOK'
  BY <1>1 DEF DeleteProject, TypeOK
<1>3. RequestsSound'
  <2> SUFFICES ASSUME NEW v \in Processes PROVE Sound(request[v])'
    BY DEF RequestsSound
  <2>1. Sound(request[v]) /\ request[v] \in Request
    BY <1>1 DEF RequestsSound, TypeOK
  <2> QED
    BY <2>1 DEF DeleteProject, Sound
<1>4. Apart'
  BY <1>1 DEF DeleteProject, Apart, Creating
<1>5. Used'
  BY <1>1 DEF DeleteProject, Used
<1>6. OrphansAreTold'
  BY <1>1 DEF DeleteProject, OrphansAreTold, Creating
<1>7. SimulationsHaveThings'
  BY <1>1 DEF DeleteProject, SimulationsHaveThings
<1>8. Kept
  BY DEF DeleteProject, Kept, Gone, Sending
<1> QED
  BY <1>2, <1>3, <1>4, <1>5, <1>6, <1>7, <1>8 DEF IInv

LEMMA CrashStep ==
    ASSUME IInv, NEW w \in Processes, Crash(w)
    PROVE  IInv' /\ Kept
<1> USE DEF app, tsm
<1>1. /\ TypeOK /\ RequestsSound /\ Apart /\ Used /\ OrphansAreTold
      /\ SimulationsHaveThings
  BY DEF IInv
<1>2. Ends(w)
  BY <1>1, Finished DEF Crash, Fail, Answer
<1>3. TypeOK'
  BY <1>1, <1>2, BoundsAssumption DEF Crash, Fail, Answer, TypeOK, Moves, Ends
<1>4. RequestsSound'
  <2> SUFFICES ASSUME NEW v \in Processes PROVE Sound(request[v])'
    BY DEF RequestsSound
  <2>1. Sound(request[v]) /\ request[v] \in Request
    BY <1>1 DEF RequestsSound, TypeOK
  <2>2. CASE v = w
    BY <1>2, <2>2 DEF Sound, Sends, Pending, Creations, None, Moves, Ends
  <2>3. CASE v # w
    BY <1>2, <2>1, <2>3 DEF Crash, Sound, Moves, Ends
  <2> QED
    BY <2>2, <2>3
<1>5. Apart'
  BY <1>1, <1>2 DEF Apart, Sends, Pending, Creating, Creations, None, Moves, Ends
<1>6. Used'
  BY <1>1 DEF Crash, Used
<1>7. OrphansAreTold'
  <2> SUFFICES ASSUME NEW u \in Things, home'[u].project # None,
                      home'[u].project \in projects', u \notin links'[home'[u].project]
               PROVE  \/ told'[u] \in {"failed", "unlinked", "deleted"} \/ u \in loose'
                      \/ \E v \in Processes : request'[v].thing = u /\ Creating(v)'
    BY DEF OrphansAreTold
  <2>1. \/ told[u] \in {"failed", "unlinked", "deleted"} \/ u \in loose
        \/ \E v \in Processes : request[v].thing = u /\ Creating(v)
    BY <1>1 DEF Crash, OrphansAreTold
  <2>2. CASE request[w].thing = u /\ Creating(w)
    BY <1>1, <2>2 DEF Crash, Fail, Answer, TypeOK, Moves
  <2>3. CASE ~(request[w].thing = u /\ Creating(w))
    BY <1>1, <1>2, <2>1 DEF Crash, Fail, Answer, TypeOK, Creating, Moves, Ends
  <2> QED
    BY <2>2, <2>3
<1>8. SimulationsHaveThings'
  BY <1>1 DEF Crash, SimulationsHaveThings
<1>9. Kept
  BY <1>2 DEF Crash, Kept, Gone, Sending, Moves, Ends
<1> QED
  BY <1>3, <1>4, <1>5, <1>6, <1>7, <1>8, <1>9 DEF IInv

LEMMA ConfigureStep ==
    ASSUME IInv, NEW t \in Things, Configure(t)
    PROVE  IInv' /\ Kept
<1> USE DEF app, tsm
<1>1. /\ TypeOK /\ RequestsSound /\ Apart /\ Used /\ OrphansAreTold
      /\ SimulationsHaveThings
  BY DEF IInv
<1>2. /\ inbox' \in [Things -> 0 .. MaxMessages]
      /\ \A x \in Things : inbox[x] < MaxMessages => inbox'[x] < MaxMessages
      /\ \A x \in Things : x # t => inbox'[x] = inbox[x]
  BY <1>1, BoundsAssumption DEF Configure, TypeOK
<1>3. home[t].schema \in Schemas
  BY <1>1 DEF Configure, TypeOK, Used
<1>4. TypeOK'
  BY <1>1, <1>3, BoundsAssumption DEF Configure, TypeOK
<1>5. RequestsSound'
  <2> SUFFICES ASSUME NEW v \in Processes PROVE Sound(request[v])'
    BY DEF RequestsSound
  <2>1. Sound(request[v]) /\ request[v] \in Request
    BY <1>1 DEF RequestsSound, TypeOK
  <2> QED
    BY <1>2, <2>1 DEF Configure, Sound
<1>6. Apart'
  BY <1>1 DEF Configure, Apart, Creating
<1>7. Used'
  BY <1>1 DEF Configure, Used
<1>8. OrphansAreTold'
  BY <1>1 DEF Configure, OrphansAreTold, Creating
<1>9. SimulationsHaveThings'
  BY <1>1 DEF Configure, SimulationsHaveThings
<1>10. Kept
  BY DEF Configure, Kept, Gone, Sending
<1> QED
  BY <1>4, <1>5, <1>6, <1>7, <1>8, <1>9, <1>10 DEF IInv

LEMMA SetUpStep ==
    ASSUME IInv, NEW t \in Things, SetUp(t)
    PROVE  IInv' /\ Kept
<1> USE DEF app, tsm
<1>1. /\ TypeOK /\ RequestsSound /\ Apart /\ Used /\ OrphansAreTold
      /\ SimulationsHaveThings
  BY DEF IInv
<1>2. TypeOK'
  BY <1>1 DEF SetUp, TypeOK
<1>3. RequestsSound'
  <2> SUFFICES ASSUME NEW v \in Processes PROVE Sound(request[v])'
    BY DEF RequestsSound
  <2>1. Sound(request[v]) /\ request[v] \in Request
    BY <1>1 DEF RequestsSound, TypeOK
  <2> QED
    BY <2>1 DEF SetUp, Sound
<1>4. Apart'
  BY <1>1 DEF SetUp, Apart, Creating
<1>5. Used'
  BY <1>1 DEF SetUp, Used
<1>6. OrphansAreTold'
  BY <1>1 DEF SetUp, OrphansAreTold, Creating
<1>7. SimulationsHaveThings'
  BY <1>1 DEF SetUp, SimulationsHaveThings
<1>8. Kept
  BY DEF SetUp, Kept, Gone, Sending
<1> QED
  BY <1>2, <1>3, <1>4, <1>5, <1>6, <1>7, <1>8 DEF IInv

LEMMA LoseMessageStep ==
    ASSUME IInv, NEW t \in Things, LoseMessage(t)
    PROVE  IInv' /\ Kept
<1> USE DEF app, tsm
<1>1. /\ TypeOK /\ RequestsSound /\ Apart /\ Used /\ OrphansAreTold
      /\ SimulationsHaveThings
  BY DEF IInv
<1>2. /\ inbox' \in [Things -> 0 .. MaxMessages]
      /\ \A x \in Things : inbox[x] < MaxMessages => inbox'[x] < MaxMessages
      /\ \A x \in Things : x # t => inbox'[x] = inbox[x]
  BY <1>1, BoundsAssumption DEF LoseMessage, TypeOK
<1>3. TypeOK'
  BY <1>1, BoundsAssumption DEF LoseMessage, TypeOK
<1>4. RequestsSound'
  <2> SUFFICES ASSUME NEW v \in Processes PROVE Sound(request[v])'
    BY DEF RequestsSound
  <2>1. Sound(request[v]) /\ request[v] \in Request
    BY <1>1 DEF RequestsSound, TypeOK
  <2> QED
    BY <1>2, <2>1 DEF LoseMessage, Sound
<1>5. Apart'
  BY <1>1 DEF LoseMessage, Apart, Creating
<1>6. Used'
  BY <1>1 DEF LoseMessage, Used
<1>7. OrphansAreTold'
  BY <1>1 DEF LoseMessage, OrphansAreTold, Creating
<1>8. SimulationsHaveThings'
  BY <1>1 DEF LoseMessage, SimulationsHaveThings
<1>9. Kept
  BY DEF LoseMessage, Kept, Gone, Sending
<1> QED
  BY <1>3, <1>4, <1>5, <1>6, <1>7, <1>8, <1>9 DEF IInv

-----------------------------------------------------------------------------
(* Theorems.                                                               *)

LEMMA NextSound == IInv /\ [Next]_vars => IInv' /\ Kept
<1> SUFFICES ASSUME IInv, [Next]_vars PROVE IInv' /\ Kept
  OBVIOUS
<1>1. CASE UNCHANGED vars
  <2>1. /\ TypeOK /\ RequestsSound /\ Apart /\ Used /\ OrphansAreTold
        /\ SimulationsHaveThings
    BY DEF IInv
  <2>2. TypeOK' /\ Used' /\ OrphansAreTold' /\ SimulationsHaveThings'
    BY <1>1, <2>1 DEF vars, TypeOK, Used, OrphansAreTold, Creating, SimulationsHaveThings
  <2>3. RequestsSound' /\ Apart'
    BY <1>1, <2>1 DEF vars, RequestsSound, Sound, Apart, Creating
  <2>4. Kept
    BY <1>1 DEF vars, Kept, Gone, Sending
  <2> QED
    BY <2>2, <2>3, <2>4 DEF IInv
<1>2. ASSUME NEW w \in Processes, Start(w) PROVE IInv' /\ Kept
  <2>1. PICK t \in Things :
           \/ \E p \in Projects \cup {None}, kind \in Creations : Order(w, kind, t, p)
           \/ \E p \in Projects :
                 \/ FindToLink(w, t, p)
                 \/ \E fromSource \in BOOLEAN : RemoveSensor(w, t, p, fromSource)
                 \/ ForgetSimulation(w, t, p)
           \/ ReadConfig(w, t)
    BY <1>2 DEF Start
  <2> QED
    BY <2>1, OrderStep, FindToLinkStep, RemoveSensorStep, ForgetSimulationStep, ReadConfigStep
<1>3. ASSUME NEW w \in Processes, Continue(w) PROVE IInv' /\ Kept
  BY <1>3, PublishStep, PollStep, AssignSchemaStep, SaveSimulationStep, LinkDatasetStep,
     OpenProjectStep, LinkStep, LinkFailsStep, DeleteSourceStep, DeleteSimulatedStep,
     UnlinkSimulatedStep, PublishSyncStep DEF Continue
<1>4. ASSUME NEW w \in Processes, Crash(w) PROVE IInv' /\ Kept
  BY <1>4, CrashStep
<1>5. ASSUME NEW p \in Projects, ResolveSchema(p) \/ DeleteProject(p) PROVE IInv' /\ Kept
  BY <1>5, ResolveSchemaStep, DeleteProjectStep
<1>6. ASSUME NEW t \in Things, Configure(t) \/ SetUp(t) \/ LoseMessage(t) PROVE IInv' /\ Kept
  BY <1>6, ConfigureStep, SetUpStep, LoseMessageStep
<1> QED
  BY <1>1, <1>2, <1>3, <1>4, <1>5, <1>6 DEF Next

\* The invariant of the whole: it carries the properties below through every step of
\* every request, worker and failure.
THEOREM Invariant == Spec => []IInv
<1>1. Init => IInv
  BY InitSound
<1>2. IInv /\ [Next]_vars => IInv'
  BY NextSound
<1> QED
  BY <1>1, <1>2, PTL DEF Spec

\* Every variable keeps the form that the code gives it; above all, no message is sent for
\* a thing while another is on its way, and no creation polls beyond its limit.
THEOREM TypeCorrect == Spec => []TypeOK
<1>1. IInv => TypeOK
  BY DEF IInv
<1> QED
  BY <1>1, Invariant, PTL

\* A thing that was ordered for a project that is there and is not linked to it is either
\* at work, or its user was told, or add_sensor failed in its creation's last step: nothing
\* else, no interleaving with deletions, other links or the project's schema, and no error of
\* an earlier step, leaves a thing behind of which nobody knows.
THEOREM OrphansTold == Spec => []OrphansAreTold
<1>1. IInv => OrphansAreTold
  BY DEF IInv
<1> QED
  BY <1>1, Invariant, PTL

\* A row of simulations has its thing: delete_simulated_thing commits the row's deletion
\* before it touches the thing, and a creation saves it after it saw the thing.
THEOREM SimulationsGrounded == Spec => []SimulationsHaveThings
<1>1. IInv => SimulationsHaveThings
  BY DEF IInv
<1> QED
  BY <1>1, Invariant, PTL

\* What a deletion took away stays away once no message and no reader of the old
\* configuration is left: no other request can bring a thing back.
THEOREM GoneStays == Spec => GoneStaysGone
<1>1. IInv /\ [Next]_vars => [Kept]_vars
  BY NextSound
<1>2. [Kept]_vars
      => [\A t \in Things : Gone(t) => Gone(t)' /\ (t \in rows' => t \in rows)]_vars
  BY DEF Kept
<1> QED
  BY <1>1, <1>2, Invariant, PTL DEF Spec, GoneStaysGone

-----------------------------------------------------------------------------
(* Provisioning implements Provisioned.                                    *)

LEMMA MissingSame ==
    ASSUME UNCHANGED <<home, projects, links>>
    PROVE  Missing' = Missing /\ Ordered' = Ordered
  BY DEF Missing, Ordered

\* Another request in the place of one is another creation in the place of one.
LEMMA OpenSame ==
    ASSUME NEW w \in Processes, NEW step, NEW kind, NEW t, NEW p, Moves(w, step, kind, t, p),
           kind \in Creations \/ request[w].kind \in Creations =>
               kind \in Creations /\ request[w].kind \in Creations /\ request[w].thing = t
    PROVE  Open' = Open
<1>1. ASSUME NEW v \in Processes
      PROVE  /\ Creating(v)' <=> Creating(v)
             /\ Creating(v) => request'[v].thing = request[v].thing
  BY DEF Moves, Creating
<1> QED
  BY <1>1 DEF Open

LEMMA OpenBegins ==
    ASSUME NEW w \in Processes, NEW step, NEW kind \in Creations, NEW t \in Things, NEW p,
           Moves(w, step, kind, t, p), ~Creating(w)
    PROVE  Open' = Open \cup {t}
<1>1. /\ Creating(w)' /\ request'[w].thing = t
      /\ \A v \in Processes : v # w => (Creating(v)' <=> Creating(v))
                                       /\ request'[v].thing = request[v].thing
  BY DEF Moves, Creating
<1> QED
  BY <1>1 DEF Open

\* One creation at most is at a thing.
LEMMA OpenEnds ==
    ASSUME Apart, NEW w \in Processes, Ends(w), Creating(w), request[w].thing \in Things
    PROVE  request[w].thing \in Open /\ Open' = Open \ {request[w].thing}
<1>1. /\ ~Creating(w)'
      /\ \A v \in Processes : v # w => (Creating(v)' <=> Creating(v))
                                       /\ request'[v].thing = request[v].thing
  BY DEF Ends, Moves, Creating, Creations, None
<1>2. \A v \in Processes : v # w /\ Creating(v) => request[v].thing # request[w].thing
  BY DEF Apart
<1> QED
  BY <1>1, <1>2 DEF Open

\* A request that had nothing to send and has nothing now.
LEMMA ComingSame ==
    ASSUME NEW w \in Processes, NEW step, NEW kind, NEW t, NEW p, Moves(w, step, kind, t, p),
           ~Sends(request[w]), step \notin {"ordered", "syncing"}, UNCHANGED inbox
    PROVE  Coming' = Coming
<1>1. ASSUME NEW u \in Things
      PROVE  Sending(u)' = Sending(u)
  BY DEF Sending, Moves, Sends
<1> QED
  BY <1>1 DEF Coming

LEMMA ComingBegins ==
    ASSUME NEW w \in Processes, NEW step \in {"ordered", "syncing"}, NEW kind, NEW t \in Things,
           NEW p, Moves(w, step, kind, t, p), ~Sends(request[w]), UNCHANGED inbox
    PROVE  Coming' = Coming \cup {t}
<1>1. ASSUME NEW u \in Things, u # t
      PROVE  Sending(u)' = Sending(u)
  BY <1>1 DEF Sending, Moves, Sends
<1>2. w \in Sending(t)'
  BY DEF Sending, Moves
<1> QED
  BY <1>1, <1>2 DEF Coming

\* What was to be sent is under way, or it is not.
LEMMA ComingSent ==
    ASSUME TypeOK, NEW w \in Processes, NEW step, NEW kind, NEW t, NEW p,
           Moves(w, step, kind, t, p), step \notin {"ordered", "syncing"},
           request[w].thing \in Things, Sends(request[w]),
           Send(request[w].thing) \/ UNCHANGED inbox
    PROVE  /\ Coming' \in {Coming, Coming \ {request[w].thing}}
           /\ Send(request[w].thing) => Coming' = Coming
<1> DEFINE x == request[w].thing
<1>1. ASSUME NEW u \in Things, u # x
      PROVE  Sending(u)' = Sending(u) /\ inbox'[u] = inbox[u]
  BY <1>1 DEF Sending, Moves, Sends, Send, TypeOK
<1>2. x \in Coming
  BY DEF Coming, Sending, Sends
<1>3. Send(x) => x \in Coming'
  <2>1. Send(x) => inbox'[x] > 0
    BY DEF Send, TypeOK
  <2> QED
    BY <2>1 DEF Coming
<1>4. \A u \in Things : u # x => (u \in Coming' <=> u \in Coming)
  BY <1>1 DEF Coming
<1>5. Coming \subseteq Things /\ Coming' \subseteq Things
  BY DEF Coming
<1> HIDE DEF x
<1> QED
  BY <1>2, <1>3, <1>4, <1>5 DEF x

\* A step that Provisioned does not see.
LEMMA Unseen ==
    ASSUME UNCHANGED <<Ordered, Open, Missing, config, rows, Coming, told, loose>>
    PROVE  UNCHANGED Promise!vars
  BY DEF Promise!vars

\* A creation is answered.
LEMMA Settled ==
    ASSUME NEW t \in Things, NEW answer \in {"created", "failed"}, t \in Open,
           Open' = Open \ {t}, Missing' \in {Missing, Missing \ {t}},
           answer = "created" => t \notin Missing', told' = [told EXCEPT ![t] = answer],
           Coming' \in {Coming, Coming \ {t}}, UNCHANGED <<Ordered, config, rows, loose>>
    PROVE  Promise!Next
<1>1. Promise!Settle(t, answer)
  BY DEF Promise!Settle, Promise!Lapses
<1> QED
  BY <1>1 DEF Promise!Next

\* A thing gets its project with its order.
HomesSound == \A t \in Things : home[t].schema = None => home[t].project = None

LEMMA HomesStaySound ==
    ASSUME IInv, HomesSound, [Next]_vars
    PROVE  HomesSound'
<1> USE DEF app, tsm
<1>1. CASE UNCHANGED home
  BY <1>1 DEF HomesSound
<1>2. ASSUME NEW w \in Processes, NEW kind \in Creations, NEW t \in Things,
             NEW p \in Projects \cup {None}, Order(w, kind, t, p)
      PROVE  HomesSound'
  <2>1. \E s \in Schemas : home' = [home EXCEPT ![t] = [schema |-> s, project |-> p]]
    BY <1>2 DEF IInv, Order, Targets, TypeOK
  <2> QED
    BY <2>1, SchemasAssumption DEF IInv, TypeOK, HomesSound
<1>3. ASSUME NEW w \in Processes, Start(w)
      PROVE  HomesSound'
  BY <1>1, <1>2, <1>3 DEF Start, FindToLink, RemoveSensor, ForgetSimulation, ReadConfig
<1>4. ASSUME NEW w \in Processes, Continue(w) \/ Crash(w)
      PROVE  UNCHANGED home
  BY <1>4 DEF Continue, Crash, Publish, Poll, AssignSchema, SaveSimulation, LinkDataset,
     OpenProject, Link, LinkFails, DeleteSource, DeleteSimulated, UnlinkSimulated, PublishSync
<1>5. ASSUME NEW p \in Projects, ResolveSchema(p) \/ DeleteProject(p)
      PROVE  UNCHANGED home
  BY <1>5 DEF ResolveSchema, DeleteProject
<1>6. ASSUME NEW t \in Things, Configure(t) \/ SetUp(t) \/ LoseMessage(t)
      PROVE  UNCHANGED home
  BY <1>6 DEF Configure, SetUp, LoseMessage
<1>7. CASE UNCHANGED vars
  BY <1>1, <1>7 DEF vars
<1> QED
  BY <1>1, <1>3, <1>4, <1>5, <1>6, <1>7 DEF Next

-----------------------------------------------------------------------------
(* The steps of creations.                                                 *)

LEMMA OrderKeepsPromise ==
    ASSUME IInv, HomesSound, NEW w \in Processes, NEW kind \in Creations,
           NEW t \in Things, NEW p \in Projects \cup {None}, Order(w, kind, t, p)
    PROVE  Promise!Order(t)
<1> USE DEF app, tsm
<1>1. TypeOK /\ Used
  BY DEF IInv
<1>2. Moves(w, "ordered", kind, t, p)
  BY <1>1, Begun DEF Order, TypeOK
<1>3. ~Creating(w) /\ ~Sends(request[w])
  BY IdleStep DEF Order, Creating, Creations, Sends, None
<1>4. Open' = Open \cup {t} /\ Coming' = Coming \cup {t}
  BY <1>2, <1>3, OpenBegins, ComingBegins DEF Order
<1>5. \E s \in Schemas : home' = [home EXCEPT ![t] = [schema |-> s, project |-> p]]
  BY <1>1 DEF Order, Targets, TypeOK
<1>6. t \notin Ordered /\ Ordered' = Ordered \cup {t}
  BY <1>1, <1>5, SchemasAssumption DEF Order, Ordered, TypeOK
<1>7. Missing' \in {Missing, Missing \cup {t}}
  <2>1. \A u \in Things : u # t => (u \in Missing' <=> u \in Missing)
    BY <1>1, <1>5 DEF Order, Missing, TypeOK
  <2>2. Missing \subseteq Things /\ Missing' \subseteq Things
    BY DEF Missing
  <2>3. t \notin Missing
    BY DEF Order, HomesSound, Missing
  <2> QED
    BY <2>1, <2>2, <2>3
<1> QED
  BY <1>4, <1>6, <1>7 DEF Order, Promise!Order

LEMMA FailKeepsPromise ==
    ASSUME IInv, NEW w \in Processes, request[w] # Idle, Fail(w),
           UNCHANGED <<app, home, config, rows, loose>>,
           UNCHANGED inbox \/ (Sends(request[w]) /\ Send(request[w].thing))
    PROVE  [Promise!Next]_(Promise!vars)
<1> USE DEF app
<1> DEFINE t == request[w].thing
<1>1. TypeOK /\ Apart /\ Sound(request[w]) /\ request[w] \in Request
  BY DEF IInv, RequestsSound, TypeOK
<1>2. Ends(w)
  BY <1>1, Finished DEF Fail, Answer
<1>3. UNCHANGED <<Ordered, Missing>>
  BY MissingSame
<1>4. t \in Things \/ ~Sends(request[w])
  BY <1>1 DEF Sound, Sends
<1>5. Coming' \in {Coming, Coming \ {t}}
  BY <1>1, <1>2, <1>4, ComingSame, ComingSent DEF Ends
<1>6. CASE Creating(w)
  <2>1. t \in Things
    BY <1>1, <1>6 DEF Sound, Creating
  <2>2. t \in Open /\ Open' = Open \ {t} /\ told' = [told EXCEPT ![t] = "failed"]
    BY <1>1, <1>2, <1>6, <2>1, OpenEnds DEF Fail, Answer
  <2> HIDE DEF t
  <2> QED
    BY <1>3, <1>5, <2>1, <2>2, Settled
<1>7. CASE ~Creating(w)
  <2>1. Open' = Open /\ told' = told
    BY <1>2, <1>7, OpenSame DEF Ends, Creating, Creations, None, Fail
  <2>2. CASE Coming' = Coming
    BY <1>3, <2>1, <2>2, Unseen
  <2>3. CASE Coming' # Coming
    <3>1. t \in Things
      BY <1>2, <1>4, <2>3, ComingSame DEF Ends
    <3> HIDE DEF t
    <3>2. Promise!Lapse(t)
      BY <1>3, <1>5, <2>1 DEF Promise!Lapse, Promise!Lapses
    <3> QED
      BY <3>1, <3>2 DEF Promise!Next
  <2> QED
    BY <2>2, <2>3
<1> QED
  BY <1>6, <1>7

LEMMA CrashKeepsPromise ==
    ASSUME IInv, NEW w \in Processes, Crash(w)
    PROVE  [Promise!Next]_(Promise!vars)
  BY FailKeepsPromise DEF Crash, tsm

\* A request that goes on, and neither sends nor writes what Provisioned sees.
LEMMA GoesOnUnseen ==
    ASSUME IInv, NEW w \in Processes, NEW step, Advances(w, step),
           ~Sends(request[w]), step \notin {"ordered", "syncing"},
           UNCHANGED <<projects, links, home, config, rows, inbox, told, loose>>
    PROVE  UNCHANGED Promise!vars
<1>1. UNCHANGED <<Ordered, Missing>>
  BY MissingSame
<1>2. Open' = Open
  BY OpenSame DEF Advances
<1>3. Coming' = Coming
  BY ComingSame DEF Advances
<1> QED
  BY <1>1, <1>2, <1>3, Unseen

LEMMA PublishKeepsPromise ==
    ASSUME IInv, NEW w \in Processes, Publish(w)
    PROVE  [Promise!Next]_(Promise!vars)
<1> USE DEF app, tsm
<1> DEFINE t == request[w].thing
<1>1. TypeOK /\ Apart /\ Sound(request[w])
  BY DEF IInv, RequestsSound
<1>2. t \in Things /\ Sends(request[w]) /\ request[w] # Idle
  BY <1>1, IdleStep DEF Publish, Sound, Sends
<1>3. CASE Fail(w)
  BY <1>2, <1>3, FailKeepsPromise DEF Publish
<1>4. CASE Send(t) /\ Go(w, "waiting") /\ UNCHANGED <<told, failures>>
  <2>1. Advances(w, "waiting")
    BY <1>1, <1>4, Advanced
  <2>2. Open' = Open
    BY <2>1, OpenSame DEF Advances
  <2>3. Coming' = Coming
    BY <1>1, <1>2, <1>4, <2>1, ComingSent DEF Advances
  <2>4. UNCHANGED <<Ordered, Missing>>
    BY MissingSame DEF Publish
  <2> QED
    BY <1>4, <2>2, <2>3, <2>4, Unseen DEF Publish
<1> QED
  BY <1>3, <1>4 DEF Publish

\* A creation ends that has nothing to send.
LEMMA AnswerKeepsPromise ==
    ASSUME IInv, NEW w \in Processes, Creating(w), ~Sends(request[w]),
           NEW answer \in {"created", "failed"}, Answer(w, answer),
           Missing' \in {Missing, Missing \ {request[w].thing}},
           answer = "created" => request[w].thing \notin Missing',
           UNCHANGED <<home, config, rows, inbox, loose>>
    PROVE  Promise!Next
<1> DEFINE t == request[w].thing
<1>1. TypeOK /\ Apart /\ Sound(request[w])
  BY DEF IInv, RequestsSound
<1>2. Ends(w)
  BY <1>1, Finished DEF Answer
<1>3. t \in Things
  BY <1>1 DEF Sound, Creating, Creations, None
<1>4. t \in Open /\ Open' = Open \ {t} /\ told' = [told EXCEPT ![t] = answer]
  BY <1>1, <1>2, <1>3, OpenEnds DEF Answer
<1>5. Coming' = Coming /\ Ordered' = Ordered
  BY <1>2, ComingSame DEF Ends, Ordered
<1> HIDE DEF t
<1> QED
  BY <1>3, <1>4, <1>5, Settled DEF t

LEMMA PollKeepsPromise ==
    ASSUME IInv, NEW w \in Processes, Poll(w)
    PROVE  [Promise!Next]_(Promise!vars)
<1> USE DEF app, tsm
<1>1. TypeOK /\ Sound(request[w])
  BY DEF IInv, RequestsSound
<1>2. ~Sends(request[w]) /\ request[w] # Idle /\ Creating(w)
  BY <1>1, IdleStep DEF Poll, Sends, Sound, Creating
<1>3. \/ Advances(w, "made") /\ UNCHANGED told
      \/ Advances(w, "waiting") /\ UNCHANGED told
      \/ Fail(w) \/ Answer(w, "failed")
  BY <1>1, Advanced, Polled DEF Poll
<1>4. CASE Advances(w, "made") /\ UNCHANGED told
  BY <1>2, <1>4, GoesOnUnseen DEF Poll
<1>5. CASE Advances(w, "waiting") /\ UNCHANGED told
  BY <1>2, <1>5, GoesOnUnseen DEF Poll
<1>6. CASE Fail(w)
  BY <1>2, <1>6, FailKeepsPromise DEF Poll
<1>7. CASE Answer(w, "failed")
  <2>1. Missing' = Missing
    BY MissingSame DEF Poll
  <2> QED
    BY <1>2, <1>7, <2>1, AnswerKeepsPromise DEF Poll
<1> QED
  BY <1>3, <1>4, <1>5, <1>6, <1>7

LEMMA AssignSchemaKeepsPromise ==
    ASSUME IInv, NEW w \in Processes, AssignSchema(w)
    PROVE  [Promise!Next]_(Promise!vars)
<1> USE DEF app, tsm
<1>1. TypeOK /\ Sound(request[w])
  BY DEF IInv, RequestsSound
<1>2. ~Sends(request[w]) /\ Creating(w)
  BY DEF AssignSchema, Sends, Creating, Creations
<1>3. Missing' = Missing
  BY MissingSame DEF AssignSchema
<1>4. CASE Answer(w, "failed")
  BY <1>2, <1>3, <1>4, AnswerKeepsPromise DEF AssignSchema
<1>5. CASE Answer(w, "created") /\ request[w].project = None
  <2>1. request[w].thing \notin Missing
    BY <1>1, <1>2, <1>5 DEF Sound, Creating, Missing
  <2> QED
    BY <1>2, <1>3, <1>5, <2>1, AnswerKeepsPromise DEF AssignSchema
<1>6. CASE Go(w, "opened") /\ UNCHANGED told
  <2>1. Advances(w, "opened")
    BY <1>1, <1>6, Advanced
  <2> QED
    BY <1>2, <1>6, <2>1, GoesOnUnseen DEF AssignSchema
<1> QED
  BY <1>4, <1>5, <1>6 DEF AssignSchema

LEMMA SaveSimulationKeepsPromise ==
    ASSUME IInv, NEW w \in Processes, SaveSimulation(w)
    PROVE  UNCHANGED Promise!vars
<1>1. Advances(w, "opened") /\ ~Sends(request[w])
  BY Advanced DEF IInv, SaveSimulation, Sends
<1> QED
  BY <1>1, GoesOnUnseen DEF SaveSimulation, tsm

LEMMA LinkDatasetKeepsPromise ==
    ASSUME IInv, NEW w \in Processes, LinkDataset(w)
    PROVE  [Promise!Next]_(Promise!vars)
<1> USE DEF app, tsm
<1> DEFINE t == request[w].thing
<1> DEFINE p == request[w].project
<1>1. TypeOK /\ Sound(request[w])
  BY DEF IInv, RequestsSound
<1>2. ~Sends(request[w]) /\ Creating(w) /\ t \in Things /\ p \in Projects
      /\ home[t].project = p
  BY <1>1 DEF LinkDataset, Sends, Creating, Creations, Sound
<1>3. CASE p \in projects
  <2>1. links' = [links EXCEPT ![p] = @ \cup {t}] /\ Answer(w, "created")
    BY <1>3 DEF LinkDataset
  <2>2. t \notin Missing'
    BY <1>1, <1>2, <2>1 DEF LinkDataset, Missing, TypeOK
  <2>3. \A u \in Things : u # t => (u \in Missing' <=> u \in Missing)
    BY <1>1, <1>2, <2>1 DEF LinkDataset, Missing, TypeOK
  <2>4. Missing' = Missing \ {t}
    <3>1. Missing \subseteq Things /\ Missing' \subseteq Things
      BY DEF Missing
    <3> QED
      BY <2>2, <2>3, <3>1
  <2> QED
    BY <1>2, <2>1, <2>2, <2>4, AnswerKeepsPromise DEF LinkDataset
<1>4. CASE p \notin projects
  <2>1. Missing' = Missing /\ Answer(w, "failed")
    BY <1>4, MissingSame DEF LinkDataset
  <2> QED
    BY <1>2, <2>1, AnswerKeepsPromise DEF LinkDataset
<1> QED
  BY <1>3, <1>4

\* Neither a request nor a message moves.
LEMMA RequestsSame ==
    ASSUME UNCHANGED request
    PROVE  Open' = Open /\ (UNCHANGED inbox => Coming' = Coming)
  BY DEF Open, Coming, Sending, Creating

\* A link makes its thing no longer missing, if it was missed there.
LEMMA LinkedMissing ==
    ASSUME TypeOK, NEW p \in Projects, NEW t \in Things,
           links' = [links EXCEPT ![p] = @ \cup {t}], UNCHANGED <<home, projects>>
    PROVE  /\ Missing' \in {Missing, Missing \ {t}}
           /\ home[t].project = p => t \notin Missing'
<1>1. \A u \in Things : u # t => (u \in Missing' <=> u \in Missing)
  BY DEF Missing, TypeOK
<1>2. t \in Missing' => t \in Missing
  BY DEF Missing, TypeOK
<1>3. Missing \subseteq Things /\ Missing' \subseteq Things
  BY DEF Missing
<1>4. home[t].project = p => t \notin Missing'
  BY DEF Missing, TypeOK
<1> QED
  BY <1>1, <1>2, <1>3, <1>4

LEMMA UnlinkedMissing ==
    ASSUME TypeOK, NEW p \in Projects, NEW t \in Things, Unlink(p, t),
           UNCHANGED <<home, projects>>
    PROVE  Missing' \in {Missing, Missing \cup {t}}
<1>1. \A u \in Things : u # t => (u \in Missing' <=> u \in Missing)
  BY DEF Missing, TypeOK, Unlink
<1>2. t \in Missing => t \in Missing'
  BY DEF Missing, TypeOK, Unlink
<1>3. Missing \subseteq Things /\ Missing' \subseteq Things
  BY DEF Missing
<1> QED
  BY <1>1, <1>2, <1>3

\* A request ends that neither creates nor sends.
LEMMA EndsUnseen ==
    ASSUME TypeOK, NEW w \in Processes, Finish(w), ~Creating(w)
    PROVE  /\ Open' = Open
           /\ ~Sends(request[w]) /\ UNCHANGED inbox => Coming' = Coming
<1>1. Ends(w)
  BY Finished
<1>2. Open' = Open
  BY <1>1, OpenSame DEF Ends, Creating, Creations, None
<1>3. ~Sends(request[w]) /\ UNCHANGED inbox => Coming' = Coming
  BY <1>1, ComingSame DEF Ends
<1> QED
  BY <1>2, <1>3

\* A request begins that does not create.
LEMMA BeginsUnseen ==
    ASSUME TypeOK, NEW w \in Processes, request[w] = Idle, NEW t \in Things, NEW p,
           NEW step \in {"opened", "unlinked", "forgotten"},
           NEW kind \in {"link", "remove", "forget"}, Moves(w, step, kind, t, p),
           UNCHANGED inbox
    PROVE  Open' = Open /\ Coming' = Coming
<1>1. ~Sends(request[w]) /\ request[w].kind \notin Creations /\ kind \notin Creations
  BY IdleStep DEF Sends, Creations, None
<1> QED
  BY <1>1, OpenSame, ComingSame

\* A user's request takes t away, and says so.
LEMMA Removed ==
    ASSUME NEW t \in Ordered, NEW answer \in {"unlinked", "deleted"},
           Missing' \in {Missing, Missing \cup {t}}, config' \in {config, config \ {t}},
           rows' \in {rows, rows \ {t}}, told' = [told EXCEPT ![t] = answer],
           UNCHANGED <<Ordered, Open, Coming, loose>>
    PROVE  Promise!Next
<1>1. t \in Things
  BY DEF Ordered
<1>2. Promise!Remove(t, answer)
  BY DEF Promise!Remove
<1> QED
  BY <1>1, <1>2 DEF Promise!Next

-----------------------------------------------------------------------------
(* The steps of links and deletions.                                       *)

LEMMA FindToLinkKeepsPromise ==
    ASSUME IInv, NEW w \in Processes, NEW t \in Things, NEW p \in Projects,
           FindToLink(w, t, p)
    PROVE  UNCHANGED Promise!vars
<1> USE DEF app, tsm
<1>1. TypeOK
  BY DEF IInv
<1>2. Moves(w, "opened", "link", t, p)
  BY <1>1, Begun DEF FindToLink
<1>3. Open' = Open /\ Coming' = Coming
  BY <1>1, <1>2, BeginsUnseen DEF FindToLink
<1> QED
  BY <1>3, MissingSame, Unseen DEF FindToLink

LEMMA OpenProjectKeepsPromise ==
    ASSUME IInv, NEW w \in Processes, OpenProject(w)
    PROVE  [Promise!Next]_(Promise!vars)
<1> USE DEF app, tsm
<1> DEFINE r == request[w]
<1>1. TypeOK /\ Sound(r) /\ r.thing \in Things
  BY DEF IInv, RequestsSound, Sound, OpenProject
<1>2. ~Sends(r)
  BY DEF OpenProject, Sends
<1>3. Missing' = Missing
  BY MissingSame DEF OpenProject
<1>4. CASE r.project \in projects
  <2>1. \E s \in Schemas \cup {None} :
            request' = [request EXCEPT ![w] =
                           [request[w] EXCEPT !.step = "linking", !.schema = s]]
    BY <1>1, <1>4 DEF OpenProject, TypeOK
  <2>2. Advances(w, "linking")
    BY <1>1, <2>1, Advanced
  <2> QED
    BY <1>2, <1>4, <2>2, GoesOnUnseen DEF OpenProject
<1>5. CASE r.project \notin projects /\ Creating(w)
  <2>1. r.thing \notin Missing
    BY <1>1, <1>5 DEF Sound, Creating, Missing
  <2> QED
    BY <1>2, <1>3, <1>5, <2>1, AnswerKeepsPromise DEF OpenProject, EndLink
<1>6. CASE r.project \notin projects /\ ~Creating(w)
  <2>1. Finish(w) /\ UNCHANGED told
    BY <1>6 DEF OpenProject, EndLink
  <2>2. Open' = Open /\ Coming' = Coming
    BY <1>1, <1>2, <1>6, <2>1, EndsUnseen DEF OpenProject
  <2> QED
    BY <2>1, <2>2, MissingSame, Unseen DEF OpenProject
<1> QED
  BY <1>4, <1>5, <1>6

LEMMA LinkKeepsPromise ==
    ASSUME IInv, NEW w \in Processes, Link(w)
    PROVE  [Promise!Next]_(Promise!vars)
<1> USE DEF app, tsm
<1> DEFINE r == request[w]
           t == r.thing
           p == r.project
<1>1. TypeOK /\ Sound(r) /\ t \in Things /\ p \in Projects
  BY DEF IInv, RequestsSound, Sound, Link
<1>2. ~Sends(r)
  BY DEF Link, Sends
<1>3. /\ Missing' \in {Missing, Missing \ {t}}
      /\ home[t].project = p => t \notin Missing'
  <2>1. CASE p \in projects /\ t \notin links[p]
    <3>1. links' = [links EXCEPT ![p] = @ \cup {t}]
      BY <2>1 DEF Link
    <3> QED
      BY <1>1, <3>1, LinkedMissing DEF Link
  <2>2. CASE ~(p \in projects /\ t \notin links[p])
    <3>1. Missing' = Missing
      BY <2>2, MissingSame DEF Link
    <3> QED
      BY <2>2, <3>1 DEF Missing
  <2> QED
    BY <2>1, <2>2
<1>4. CASE Creating(w)
  <2>1. home[t].project = p
    BY <1>1, <1>4 DEF Sound, Creating
  <2> QED
    BY <1>2, <1>3, <1>4, <2>1, AnswerKeepsPromise DEF Link, EndLink
<1>5. CASE ~Creating(w)
  <2>1. Finish(w) /\ UNCHANGED told
    BY <1>5 DEF Link, EndLink
  <2>2. Open' = Open /\ Coming' = Coming
    BY <1>1, <1>2, <1>5, <2>1, EndsUnseen DEF Link
  <2>3. Ordered' = Ordered
    BY DEF Link, Ordered
  <2>4. PICK T \in {{}, {t}} : Missing' = Missing \ T
    <3>1. Missing = Missing \ {}
      OBVIOUS
    <3> QED
      BY <1>3, <3>1
  <2>5. Promise!NotMissing(T)
    BY <2>1, <2>2, <2>3, <2>4 DEF Link, Promise!NotMissing
  <2>6. T \in SUBSET Things
    BY <1>1, <2>4
  <2> QED
    BY <2>5, <2>6 DEF Promise!Next
<1> QED
  BY <1>4, <1>5

LEMMA LinkFailsKeepsPromise ==
    ASSUME IInv, NEW w \in Processes, LinkFails(w)
    PROVE  [Promise!Next]_(Promise!vars)
<1> USE DEF app, tsm
<1> DEFINE t == request[w].thing
<1>1. TypeOK /\ Apart /\ Sound(request[w]) /\ t \in Things /\ ~Sends(request[w])
  BY DEF IInv, RequestsSound, Sound, LinkFails, Sends
<1>2. UNCHANGED <<Ordered, Missing>>
  BY MissingSame DEF LinkFails
<1>3. CASE Creating(w)
  <2>1. Answer(w, "created") /\ loose' = loose \cup {t}
    BY <1>3 DEF LinkFails, EndLink
  <2>2. Ends(w)
    BY <1>1, <2>1, Finished DEF Answer
  <2>3. t \in Open /\ Open' = Open \ {t} /\ told' = [told EXCEPT ![t] = "created"]
    BY <1>1, <1>3, <2>1, <2>2, OpenEnds DEF Answer
  <2>4. Coming' = Coming
    BY <1>1, <2>2, ComingSame DEF Ends, LinkFails
  <2> HIDE DEF t
  <2>5. Promise!SettleLoose(t)
    BY <1>2, <2>1, <2>3, <2>4 DEF LinkFails, Promise!SettleLoose
  <2> QED
    BY <1>1, <2>5 DEF Promise!Next
<1>4. CASE ~Creating(w)
  <2>1. Finish(w) /\ UNCHANGED <<told, loose>>
    BY <1>4 DEF LinkFails, EndLink
  <2>2. Open' = Open /\ Coming' = Coming
    BY <1>1, <1>4, <2>1, EndsUnseen DEF LinkFails
  <2> QED
    BY <1>2, <2>1, <2>2, Unseen DEF LinkFails
<1> QED
  BY <1>3, <1>4

LEMMA RemoveSensorKeepsPromise ==
    ASSUME IInv, NEW w \in Processes, NEW t \in Things, NEW p \in Projects,
           NEW fromSource \in BOOLEAN, RemoveSensor(w, t, p, fromSource)
    PROVE  Promise!Next
<1> USE DEF app, tsm
<1>1. TypeOK /\ Used
  BY DEF IInv
<1>2. t \in Ordered
  BY <1>1 DEF RemoveSensor, Used, Ordered
<1>3. Open' = Open /\ Coming' = Coming
  <2>1. CASE fromSource
    <3>1. Moves(w, "unlinked", "remove", t, p)
      BY <1>1, <2>1, Begun DEF RemoveSensor
    <3> QED
      BY <1>1, <3>1, BeginsUnseen DEF RemoveSensor
  <2>2. CASE ~fromSource
    BY <2>2, RequestsSame DEF RemoveSensor
  <2> QED
    BY <2>1, <2>2
<1>4. Missing' \in {Missing, Missing \cup {t}}
  BY <1>1, UnlinkedMissing DEF RemoveSensor
<1>5. Ordered' = Ordered
  BY DEF RemoveSensor, Ordered
<1> QED
  BY <1>2, <1>3, <1>4, <1>5, Removed DEF RemoveSensor

LEMMA DeleteSourceKeepsPromise ==
    ASSUME IInv, NEW w \in Processes, DeleteSource(w)
    PROVE  [Promise!Next]_(Promise!vars)
<1> USE DEF app, tsm
<1> DEFINE r == request[w]
           t == r.thing
<1>1. TypeOK /\ Sound(r) /\ t \in Ordered
  BY DEF IInv, RequestsSound, Sound, DeleteSource, Ordered
<1>2. ~Sends(r) /\ ~Creating(w)
  BY <1>1 DEF DeleteSource, Sends, Sound, Creating, Creations
<1>3. Finish(w) /\ UNCHANGED inbox
  BY DEF DeleteSource, Answer, Cascade
<1>4. UNCHANGED <<Ordered, Missing, Open, Coming>>
  BY <1>1, <1>2, <1>3, MissingSame, EndsUnseen DEF DeleteSource
<1>5. CASE /\ config' \in {config, config \ {t}} /\ rows' \in {rows, rows \ {t}}
           /\ told' = [told EXCEPT ![t] = "deleted"]
  BY <1>1, <1>4, <1>5, Removed DEF DeleteSource
<1>6. CASE UNCHANGED <<config, rows, told>>
  BY <1>4, <1>6, Unseen DEF DeleteSource
<1> QED
  BY <1>5, <1>6 DEF DeleteSource, Cascade, Answer

LEMMA ForgetSimulationKeepsPromise ==
    ASSUME IInv, NEW w \in Processes, NEW t \in Things, NEW p \in Projects,
           ForgetSimulation(w, t, p)
    PROVE  UNCHANGED Promise!vars
<1> USE DEF app, tsm
<1>1. TypeOK
  BY DEF IInv
<1>2. Moves(w, "forgotten", "forget", t, p)
  BY <1>1, Begun DEF ForgetSimulation
<1>3. Open' = Open /\ Coming' = Coming
  BY <1>1, <1>2, BeginsUnseen DEF ForgetSimulation
<1> QED
  BY <1>3, MissingSame, Unseen DEF ForgetSimulation

LEMMA DeleteSimulatedKeepsPromise ==
    ASSUME IInv, NEW w \in Processes, DeleteSimulated(w)
    PROVE  [Promise!Next]_(Promise!vars)
<1> USE DEF app, tsm
<1> DEFINE r == request[w]
           t == r.thing
<1>1. TypeOK /\ Sound(r) /\ t \in Things /\ r # Idle
  BY IdleStep DEF IInv, RequestsSound, Sound, DeleteSimulated
<1>2. ~Sends(r)
  BY DEF DeleteSimulated, Sends
<1>3. UNCHANGED <<Ordered, Missing>>
  BY MissingSame DEF DeleteSimulated
<1>4. CASE Cascade(t, SchemaFor(r.project, t)) /\ Go(w, "deleted") /\ UNCHANGED told
  <2>1. Advances(w, "deleted")
    BY <1>1, <1>4, Advanced
  <2>2. Open' = Open
    BY <2>1, OpenSame DEF Advances
  <2>3. Coming' = Coming
    BY <1>2, <1>4, <2>1, ComingSame DEF Advances, Cascade
  <2>4. config' \in {config, config \ {t}} /\ rows' \in {rows, rows \ {t}}
    BY <1>4 DEF Cascade
  <2> HIDE DEF t
  <2>5. Promise!Delete(t)
    BY <1>3, <1>4, <2>2, <2>3, <2>4 DEF DeleteSimulated, Promise!Delete
  <2> QED
    BY <1>1, <2>5 DEF Promise!Next
<1>5. CASE Fail(w) /\ UNCHANGED tsm
  BY <1>1, <1>5, FailKeepsPromise DEF DeleteSimulated
<1> QED
  BY <1>4, <1>5 DEF DeleteSimulated

LEMMA UnlinkSimulatedKeepsPromise ==
    ASSUME IInv, NEW w \in Processes, UnlinkSimulated(w)
    PROVE  Promise!Next
<1> USE DEF app, tsm
<1> DEFINE r == request[w]
           t == r.thing
<1>1. TypeOK /\ Sound(r) /\ t \in Ordered /\ r.project \in Projects
  BY DEF IInv, RequestsSound, Sound, UnlinkSimulated, Ordered
<1>2. ~Sends(r) /\ ~Creating(w)
  BY <1>1 DEF UnlinkSimulated, Sends, Sound, Creating, Creations
<1>3. Open' = Open /\ Coming' = Coming
  BY <1>1, <1>2, EndsUnseen DEF UnlinkSimulated, Answer
<1>4. Missing' \in {Missing, Missing \cup {t}}
  <2>1. CASE Unlink(r.project, t)
    BY <1>1, <2>1, UnlinkedMissing DEF UnlinkSimulated, Ordered
  <2>2. CASE UNCHANGED links
    BY <2>2, MissingSame DEF UnlinkSimulated
  <2> QED
    BY <2>1, <2>2 DEF UnlinkSimulated
<1>5. Ordered' = Ordered /\ told' = [told EXCEPT ![t] = "deleted"]
  BY DEF UnlinkSimulated, Ordered, Answer
<1> QED
  BY <1>1, <1>3, <1>4, <1>5, Removed DEF UnlinkSimulated

-----------------------------------------------------------------------------
(* Syncs, projects and the TSM.                                            *)

LEMMA ReadConfigKeepsPromise ==
    ASSUME IInv, NEW w \in Processes, NEW t \in Things, ReadConfig(w, t)
    PROVE  Promise!Sync(t)
<1> USE DEF app, tsm
<1>1. TypeOK
  BY DEF IInv
<1>2. Moves(w, "syncing", "sync", t, None)
  BY <1>1, Begun DEF ReadConfig
<1>3. ~Sends(request[w]) /\ request[w].kind \notin Creations /\ "sync" \notin Creations
  BY IdleStep DEF ReadConfig, Sends, Creations, None
<1>4. Open' = Open
  BY <1>2, <1>3, OpenSame
<1>5. Coming' = Coming \cup {t}
  BY <1>2, <1>3, ComingBegins DEF ReadConfig
<1> QED
  BY <1>4, <1>5, MissingSame DEF ReadConfig, Promise!Sync

LEMMA PublishSyncKeepsPromise ==
    ASSUME IInv, NEW w \in Processes, PublishSync(w)
    PROVE  Promise!Lapse(request[w].thing) /\ request[w].thing \in Things
<1> USE DEF app, tsm
<1> DEFINE t == request[w].thing
<1>1. TypeOK /\ Sound(request[w])
  BY DEF IInv, RequestsSound
<1>2. t \in Things /\ ~Creating(w) /\ Sends(request[w])
  BY <1>1 DEF PublishSync, Sound, Creating, Creations, Sends
<1>3. Open' = Open
  BY <1>1, <1>2, EndsUnseen DEF PublishSync
<1>4. Coming' \in {Coming, Coming \ {t}}
  BY <1>1, <1>2, Finished, ComingSent DEF PublishSync, Ends
<1>5. UNCHANGED <<Ordered, Missing>>
  BY MissingSame DEF PublishSync
<1> QED
  BY <1>2, <1>3, <1>4, <1>5 DEF PublishSync, Promise!Lapse, Promise!Lapses

LEMMA ResolveSchemaKeepsPromise ==
    ASSUME NEW p \in Projects, ResolveSchema(p)
    PROVE  UNCHANGED Promise!vars
  BY RequestsSame, MissingSame, Unseen DEF ResolveSchema, tsm

LEMMA DeleteProjectKeepsPromise ==
    ASSUME NEW p \in Projects, DeleteProject(p)
    PROVE  Promise!NotMissing(Missing \ Missing')
<1>1. Missing' \subseteq Missing
  BY DEF DeleteProject, Missing
<1>2. Ordered' = Ordered /\ Open' = Open /\ Coming' = Coming
  BY RequestsSame DEF DeleteProject, tsm, Ordered
<1> QED
  BY <1>1, <1>2 DEF DeleteProject, tsm, Promise!NotMissing

\* A message ends.
LEMMA MessageEnds ==
    ASSUME TypeOK, NEW t \in Things, inbox[t] > 0, inbox' = [inbox EXCEPT ![t] = @ - 1],
           UNCHANGED request
    PROVE  t \in Coming /\ Coming' \in {Coming, Coming \ {t}}
<1>1. t \in Coming
  BY DEF Coming
<1>2. \A u \in Things : Sending(u)' = Sending(u)
  BY DEF Sending
<1>3. \A u \in Things : u # t => (u \in Coming' <=> u \in Coming)
  BY <1>2 DEF Coming, TypeOK
<1>4. Coming \subseteq Things /\ Coming' \subseteq Things
  BY DEF Coming
<1> QED
  BY <1>1, <1>3, <1>4

LEMMA ConfigureKeepsPromise ==
    ASSUME IInv, NEW t \in Things, Configure(t)
    PROVE  Promise!Appear(t)
<1>1. t \in Coming /\ Coming' \in {Coming, Coming \ {t}}
  BY MessageEnds DEF IInv, Configure
<1>2. UNCHANGED <<Ordered, Missing, Open>>
  BY MissingSame, RequestsSame DEF Configure, app
<1> QED
  BY <1>1, <1>2 DEF Configure, Promise!Appear, Promise!Lapses

LEMMA SetUpKeepsPromise ==
    ASSUME NEW t \in Things, SetUp(t)
    PROVE  Promise!SetUp(t) \/ UNCHANGED Promise!vars
<1>1. UNCHANGED <<Ordered, Missing, Open, Coming>>
  BY MissingSame, RequestsSame DEF SetUp, app
<1>2. CASE t \in config
  BY <1>1, <1>2 DEF SetUp, Promise!SetUp
<1>3. CASE t \notin config
  BY <1>1, <1>3, Unseen DEF SetUp
<1> QED
  BY <1>2, <1>3

LEMMA LoseMessageKeepsPromise ==
    ASSUME IInv, NEW t \in Things, LoseMessage(t)
    PROVE  Promise!Lapse(t)
<1>1. Coming' \in {Coming, Coming \ {t}}
  BY MessageEnds DEF IInv, LoseMessage
<1>2. UNCHANGED <<Ordered, Missing, Open>>
  BY MissingSame, RequestsSame DEF LoseMessage, app
<1> QED
  BY <1>1, <1>2 DEF LoseMessage, Promise!Lapse, Promise!Lapses

-----------------------------------------------------------------------------
LEMMA InitKeepsPromise == Init => HomesSound /\ Promise!Init
<1> SUFFICES ASSUME Init PROVE HomesSound /\ Promise!Init
  OBVIOUS
<1>1. HomesSound /\ Missing = {} /\ Ordered = config /\ Ordered \in SUBSET Things
  BY DEF Init, HomesSound, Missing, Ordered
<1>2. Open = {} /\ Coming = {}
  BY IdleStep DEF Init, Open, Coming, Sending, Creating, Creations, None
<1> QED
  BY <1>1, <1>2 DEF Init, Promise!Init, None

LEMMA NextKeepsPromise ==
    ASSUME IInv, HomesSound, [Next]_vars
    PROVE  [Promise!Next]_(Promise!vars)
<1>1. ASSUME NEW w \in Processes, Start(w)
      PROVE  [Promise!Next]_(Promise!vars)
  <2>1. PICK t \in Things :
            \/ \E p \in Projects \cup {None}, kind \in Creations : Order(w, kind, t, p)
            \/ \E p \in Projects :
                  \/ FindToLink(w, t, p)
                  \/ \E fromSource \in BOOLEAN : RemoveSensor(w, t, p, fromSource)
                  \/ ForgetSimulation(w, t, p)
            \/ ReadConfig(w, t)
    BY <1>1 DEF Start
  <2>2. CASE \E p \in Projects \cup {None}, kind \in Creations : Order(w, kind, t, p)
    <3>1. Promise!Order(t)
      BY <2>2, OrderKeepsPromise
    <3> QED
      BY <3>1 DEF Promise!Next
  <2>3. ASSUME NEW p \in Projects, FindToLink(w, t, p) \/ ForgetSimulation(w, t, p)
        PROVE  [Promise!Next]_(Promise!vars)
    BY <2>3, FindToLinkKeepsPromise, ForgetSimulationKeepsPromise
  <2>4. ASSUME NEW p \in Projects, NEW fromSource \in BOOLEAN,
               RemoveSensor(w, t, p, fromSource)
        PROVE  Promise!Next
    BY <2>4, RemoveSensorKeepsPromise
  <2>5. CASE ReadConfig(w, t)
    <3>1. Promise!Sync(t)
      BY <2>5, ReadConfigKeepsPromise
    <3> QED
      BY <3>1 DEF Promise!Next
  <2> QED
    BY <2>1, <2>2, <2>3, <2>4, <2>5
<1>2. ASSUME NEW w \in Processes, Continue(w)
      PROVE  [Promise!Next]_(Promise!vars)
  <2>1. CASE Publish(w) \/ Poll(w) \/ AssignSchema(w) \/ SaveSimulation(w) \/ LinkDataset(w)
    BY <2>1, PublishKeepsPromise, PollKeepsPromise, AssignSchemaKeepsPromise,
       SaveSimulationKeepsPromise, LinkDatasetKeepsPromise
  <2>2. CASE OpenProject(w) \/ Link(w) \/ LinkFails(w)
    BY <2>2, OpenProjectKeepsPromise, LinkKeepsPromise, LinkFailsKeepsPromise
  <2>3. CASE DeleteSource(w) \/ DeleteSimulated(w) \/ UnlinkSimulated(w)
    BY <2>3, DeleteSourceKeepsPromise, DeleteSimulatedKeepsPromise,
       UnlinkSimulatedKeepsPromise
  <2>4. CASE PublishSync(w)
    BY <2>4, PublishSyncKeepsPromise DEF Promise!Next
  <2> QED
    BY <1>2, <2>1, <2>2, <2>3, <2>4 DEF Continue
<1>3. ASSUME NEW w \in Processes, Crash(w)
      PROVE  [Promise!Next]_(Promise!vars)
  BY <1>3, CrashKeepsPromise
<1>4. ASSUME NEW p \in Projects, ResolveSchema(p)
      PROVE  UNCHANGED Promise!vars
  BY <1>4, ResolveSchemaKeepsPromise
<1>5. ASSUME NEW p \in Projects, DeleteProject(p)
      PROVE  Promise!Next
  <2>1. Missing \ Missing' \in SUBSET Things
    BY DEF Missing
  <2>2. Promise!NotMissing(Missing \ Missing')
    BY <1>5, DeleteProjectKeepsPromise
  <2> QED
    BY <2>1, <2>2 DEF Promise!Next
<1>6. ASSUME NEW t \in Things, Configure(t) \/ SetUp(t) \/ LoseMessage(t)
      PROVE  [Promise!Next]_(Promise!vars)
  <2>1. Promise!Appear(t) \/ Promise!SetUp(t) \/ Promise!Lapse(t) \/ UNCHANGED Promise!vars
    BY <1>6, ConfigureKeepsPromise, SetUpKeepsPromise, LoseMessageKeepsPromise
  <2> QED
    BY <2>1 DEF Promise!Next
<1>7. CASE UNCHANGED vars
  BY <1>7, MissingSame, RequestsSame, Unseen DEF vars
<1> QED
  BY <1>1, <1>2, <1>3, <1>4, <1>5, <1>6, <1>7 DEF Next

\* Provisioning implements Provisioned, whatever its messages, timeouts and deaths: no
\* creation is answered "created" while its project misses the thing, but in the step in
\* which add_sensor itself fails, and nothing that is deleted comes back but through
\* something that was under way for it.
THEOREM ProvisioningKeepsPromise == Spec => ImplementsPromise
<1>1. Spec => []HomesSound
  <2>1. Init => HomesSound
    BY InitKeepsPromise
  <2>2. IInv /\ HomesSound /\ [Next]_vars => HomesSound'
    BY HomesStaySound
  <2> QED
    BY Invariant, <2>1, <2>2, PTL DEF Spec
<1>2. Init => Promise!Init
  BY InitKeepsPromise
<1>3. IInv /\ HomesSound /\ [Next]_vars => [Promise!Next]_(Promise!vars)
  BY NextKeepsPromise
<1> QED
  BY Invariant, <1>1, <1>2, <1>3, PTL DEF Spec, ImplementsPromise, Promise!Spec
=============================================================================
