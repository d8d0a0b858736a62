---------------------------- MODULE LayersProofs ----------------------------
(***************************************************************************)
(* What holds of layers for any number of processes, names and requests:   *)
(* features have layers, and an import that is taken back takes its own    *)
(* row alone.                                                              *)
(*                                                                         *)
(* Most steps change the request of one process and nothing else here, so  *)
(* that it is enough to see that the request stays sound (RequestKept).    *)
(***************************************************************************)
EXTENDS Layers, TLAPS

\* A request under way has a name and a number, and an import that has saved its layer knows
\* it by that number.
SoundRequest(r) ==
    /\ r.step # "idle" => r.name \in Names /\ r.number \in Numbers
    /\ r.op = "import" /\ r.step \notin {"idle", "checked"} => r.row = r.number

Sound == \A p \in Processes : SoundRequest(request[p])

IInv == TypeOK /\ Sound /\ FeaturesHaveLayers

RequestsOK == request \in [Processes -> Request] /\ Sound

LEMMA IdleIsSound == Idle \in Request /\ SoundRequest(Idle)
BY DEF Idle, Request, SoundRequest, NoRow

\* Who puts a sound request in the place of one keeps the requests sound.
LEMMA RequestKept ==
    ASSUME NEW p \in Processes, RequestsOK,
           NEW r \in Request, SoundRequest(r),
           request' = [request EXCEPT ![p] = r]
    PROVE  RequestsOK'
BY DEF RequestsOK, Sound

LEMMA FinishKept ==
    ASSUME NEW p \in Processes, RequestsOK, Finish(p)
    PROVE  RequestsOK'
BY IdleIsSound, RequestKept DEF Finish

\* The next request has a number of its own.
LEMMA BeginKept ==
    ASSUME NEW p \in Processes, TypeOK, RequestsOK,
           NEW r \in Request, r.op # "import" \/ r.step = "checked", r.name \in Names,
           Begin(p, r)
    PROVE  RequestsOK' /\ made' \in Numbers
<1>1. made + 1 \in Numbers
  BY RequestsAssumption DEF Begin, TypeOK, Numbers, NoRow
<1> DEFINE s == [r EXCEPT !.number = made + 1]
<1>2. s \in Request
  BY <1>1 DEF Request
<1>3. SoundRequest(s)
  BY <1>1 DEF SoundRequest, Request
<1>4. request' = [request EXCEPT ![p] = s]
  BY DEF Begin
<1>5. made' = made + 1
  BY DEF Begin
<1> HIDE DEF s
<1> QED
  BY <1>1, <1>2, <1>3, <1>4, <1>5, RequestKept

\* A request that goes on to another step, and may learn what a look found, stays sound.
LEMMA AdvanceKept ==
    ASSUME NEW p \in Processes, RequestsOK, ~Free(p), request[p].step # "checked",
           NEW s \in {"workspace", "store", "view", "table", "undo"},
           NEW f \in {"unknown", "yes", "no"},
           request' = [request EXCEPT ![p].step = s, ![p].found = f]
    PROVE  RequestsOK'
<1> DEFINE r == [request[p] EXCEPT !.step = s, !.found = f]
<1>1. request[p] \in Request /\ SoundRequest(request[p])
  BY DEF RequestsOK, Sound
<1>2. r \in Request
  BY <1>1 DEF Request
<1>3. SoundRequest(r)
  BY <1>1 DEF SoundRequest, Request, Free
<1>4. request' = [request EXCEPT ![p] = r]
  OBVIOUS
<1> HIDE DEF r
<1> QED
  BY <1>2, <1>3, <1>4, RequestKept

-----------------------------------------------------------------------------
(* The answers of GeoServer.                                               *)

LEMMA AnsweredKept ==
    ASSUME NEW p \in Processes, RequestsOK,
           request[p].step \in {"workspace", "store", "view", "table"},
           Answered(p)
    PROVE  RequestsOK'
<1>1. CASE request[p].step \in {"view", "table"}
  BY <1>1, FinishKept DEF Answered
<1>2. CASE request[p].step \in {"workspace", "store"}
  <2>1. Following(request[p]) \in {"store", "table", "view"}
    BY <1>2 DEF Following
  <2>2. request' = [request EXCEPT ![p].step = Following(request[p]), ![p].found = "unknown"]
    BY <1>2 DEF Answered
  <2> QED
    BY <1>2, <2>1, <2>2, AdvanceKept DEF Free
<1> QED
  BY <1>1, <1>2

LEMMA FailedKept ==
    ASSUME NEW p \in Processes, RequestsOK,
           request[p].step \in {"workspace", "store", "view", "table"},
           Failed(p)
    PROVE  RequestsOK'
<1>1. CASE request[p].op = "import"
  <2>1. request' = [request EXCEPT ![p].step = "undo", ![p].found = request[p].found]
    BY <1>1 DEF Failed, RequestsOK, Request
  <2>2. request[p].found \in {"unknown", "yes", "no"}
    BY DEF RequestsOK, Request
  <2> QED
    BY <2>1, <2>2, AdvanceKept DEF Free
<1>2. CASE request[p].op # "import"
  BY <1>2, FinishKept DEF Failed
<1> QED
  BY <1>1, <1>2

-----------------------------------------------------------------------------
(* Steps.                                                                  *)

\* Requests stay sound, and their numbers stay within the bound.
LEMMA RequestsStep ==
    ASSUME IInv, Next
    PROVE  RequestsOK' /\ made' \in Numbers \cup {NoRow}
<1>1. RequestsOK /\ TypeOK /\ made \in Numbers \cup {NoRow}
  BY DEF IInv, RequestsOK, TypeOK
<1>2. CASE SeedGeoServer
  BY <1>1, <1>2 DEF SeedGeoServer, rows, RequestsOK, Sound
<1>3. ASSUME NEW p \in Processes, Start(p)
      PROVE  RequestsOK' /\ made' \in Numbers \cup {NoRow}
  <2>1. CASE CreateLayer(p) \/ AddFeature(p) \/ Unassign(p) \/ Unpublish(p)
    <3>1. UNCHANGED request /\ made < MaxRequests /\ made' = made + 1
      BY <2>1 DEF CreateLayer, AddFeature, Unassign, Unpublish
    <3> QED
      BY <1>1, <3>1, RequestsAssumption DEF RequestsOK, Sound, Numbers, NoRow
  <2>2. CASE FindFeature(p)
    <3>1. PICK n \in Names, f \in UNION {features[m] : m \in Names} :
            Begin(p, [Idle EXCEPT !.op = "feature", !.step = "deleting", !.name = n, !.row = f])
      BY <2>2 DEF FindFeature
    <3>2. f \in Numbers
      BY <1>1 DEF TypeOK
    <3> DEFINE r == [Idle EXCEPT !.op = "feature", !.step = "deleting", !.name = n, !.row = f]
    <3>3. r \in Request /\ r.op = "feature" /\ r.name = n
      BY <3>2 DEF Idle, Request, NoRow
    <3> HIDE DEF r
    <3> QED
      BY <1>1, <3>1, <3>3, BeginKept DEF r
  <2>3. CASE FindLayer(p)
    <3>1. PICK n \in Names :
            Begin(p, [Idle EXCEPT !.op = "delete", !.step = "deleting", !.name = n,
                                  !.row = layer[n], !.seen = features[n]])
      BY <2>3 DEF FindLayer
    <3> DEFINE r == [Idle EXCEPT !.op = "delete", !.step = "deleting", !.name = n,
                                 !.row = layer[n], !.seen = features[n]]
    <3>2. layer[n] \in Numbers \cup {NoRow} /\ features[n] \subseteq Numbers
      BY <1>1 DEF TypeOK
    <3>3. r \in Request /\ r.op = "delete" /\ r.name = n
      BY <3>2 DEF Idle, Request, NoRow
    <3> HIDE DEF r
    <3> QED
      BY <1>1, <3>1, <3>3, BeginKept DEF r
  <2>4. CASE FindAssignments(p)
    <3>1. PICK n \in Names, w \in SUBSET Projects :
            Begin(p, [Idle EXCEPT !.op = "assign", !.step = "checked", !.name = n,
                                  !.wanted = {j \in w : <<n, j>> \notin assigned}])
      BY <2>4 DEF FindAssignments
    <3> DEFINE r == [Idle EXCEPT !.op = "assign", !.step = "checked", !.name = n,
                                 !.wanted = {j \in w : <<n, j>> \notin assigned}]
    <3>2. {j \in w : <<n, j>> \notin assigned} \in SUBSET Projects
      OBVIOUS
    <3>3. r \in Request /\ r.op = "assign" /\ r.name = n
      BY <3>2 DEF Idle, Request, NoRow
    <3> HIDE DEF r
    <3> QED
      BY <1>1, <3>1, <3>3, BeginKept DEF r
  <2>5. CASE Publish(p)
    <3>1. PICK n \in Names :
            Begin(p, [Idle EXCEPT !.op = "publish", !.step = "workspace", !.name = n])
      BY <2>5 DEF Publish
    <3> DEFINE r == [Idle EXCEPT !.op = "publish", !.step = "workspace", !.name = n]
    <3>2. r \in Request /\ r.op = "publish" /\ r.name = n
      BY DEF Idle, Request, NoRow
    <3> HIDE DEF r
    <3> QED
      BY <1>1, <3>1, <3>2, BeginKept DEF r
  <2>6. CASE Import(p)
    <3>1. PICK n \in Names :
            Begin(p, [Idle EXCEPT !.op = "import", !.step = "checked", !.name = n])
      BY <2>6 DEF Import
    <3> DEFINE r == [Idle EXCEPT !.op = "import", !.step = "checked", !.name = n]
    <3>2. r \in Request /\ r.step = "checked" /\ r.name = n
      BY DEF Idle, Request, NoRow
    <3> HIDE DEF r
    <3> QED
      BY <1>1, <3>1, <3>2, BeginKept DEF r
  <2> QED
    BY <1>3, <2>1, <2>2, <2>3, <2>4, <2>5, <2>6 DEF Start
<1>4. ASSUME NEW p \in Processes, Continue(p)
      PROVE  RequestsOK' /\ made' \in Numbers \cup {NoRow}
  <2>1. CASE DeleteFeature(p) \/ Delete(p) \/ SaveAssignments(p)
    <3>1. Finish(p) /\ UNCHANGED made
      BY <2>1 DEF DeleteFeature, Delete, SaveAssignments
    <3> QED
      BY <1>1, <3>1, FinishKept
  <2>2. CASE Look(p)
    <3>1. request[p].step \in {"workspace", "store", "view"} /\ UNCHANGED made
      BY <2>2 DEF Look
    <3>2. CASE Failed(p)
      BY <1>1, <3>1, <3>2, FailedKept
    <3>3. CASE \E f \in {"yes", "no"} : request' = [request EXCEPT ![p].found = f]
      <4>1. PICK f \in {"yes", "no"} : request' = [request EXCEPT ![p].found = f]
        BY <3>3
      <4>2. request' = [request EXCEPT ![p].step = request[p].step, ![p].found = f]
        BY <1>1, <4>1 DEF RequestsOK, Request
      <4> QED
        BY <1>1, <3>1, <4>2, AdvanceKept DEF Free
    <3> QED
      BY <2>2, <3>2, <3>3 DEF Look
  <2>3. CASE EnsureWorkspace(p) \/ EnsureStore(p) \/ PublishView(p) \/ PublishTable(p)
    <3>1. /\ request[p].step \in {"workspace", "store", "view", "table"}
          /\ Answered(p) \/ Failed(p)
          /\ UNCHANGED made
      BY <2>3 DEF EnsureWorkspace, EnsureStore, PublishView, PublishTable
    <3> QED
      BY <1>1, <3>1, AnsweredKept, FailedKept
  <2>4. CASE SaveImport(p)
    <3>1. UNCHANGED made
      BY <2>4 DEF SaveImport
    <3>2. CASE Finish(p)
      BY <1>1, <3>1, <3>2, FinishKept
    <3>3. CASE request' = [request EXCEPT ![p].step = "saved", ![p].row = request[p].number]
      <4> DEFINE r == [request[p] EXCEPT !.step = "saved", !.row = request[p].number]
      <4>1. request[p] \in Request /\ SoundRequest(request[p]) /\ ~Free(p)
        BY <1>1, <2>4 DEF RequestsOK, Sound, SaveImport, At, Free
      <4>2. r \in Request /\ SoundRequest(r)
        BY <4>1 DEF Request, SoundRequest, Free
      <4>3. request' = [request EXCEPT ![p] = r]
        BY <3>3
      <4> HIDE DEF r
      <4> QED
        BY <1>1, <3>1, <4>2, <4>3, RequestKept
    <3> QED
      BY <2>4, <3>2, <3>3 DEF SaveImport
  <2>5. CASE Connect(p)
    <3>1. UNCHANGED made /\ request[p].step = "saved"
      BY <2>5 DEF Connect, At
    <3>2. CASE Finish(p)
      BY <1>1, <3>1, <3>2, FinishKept
    <3>3. CASE request' = [request EXCEPT ![p].step = "workspace"]
      <4>1. request' = [request EXCEPT ![p].step = "workspace", ![p].found = request[p].found]
        BY <1>1, <3>3 DEF RequestsOK, Request
      <4>2. request[p].found \in {"unknown", "yes", "no"}
        BY <1>1 DEF RequestsOK, Request
      <4> QED
        BY <1>1, <3>1, <4>1, <4>2, AdvanceKept DEF Free
    <3> QED
      BY <2>5, <3>2, <3>3 DEF Connect
  <2>6. CASE Undo(p)
    <3>1. UNCHANGED made /\ request[p].step = "undo"
      BY <2>6 DEF Undo, At
    <3>2. CASE Finish(p)
      BY <1>1, <3>1, <3>2, FinishKept
    <3>3. CASE request' = [request EXCEPT ![p].step = "deleting", ![p].seen = features[request[p].name]]
      <4> DEFINE r == [request[p] EXCEPT !.step = "deleting", !.seen = features[request[p].name]]
      <4>1. request[p] \in Request /\ SoundRequest(request[p])
        BY <1>1 DEF RequestsOK, Sound
      <4>2. features[request[p].name] \subseteq Numbers
        BY <1>1, <3>1, <4>1 DEF SoundRequest, TypeOK
      <4>3. r \in Request /\ SoundRequest(r)
        BY <3>1, <4>1, <4>2 DEF Request, SoundRequest
      <4>4. request' = [request EXCEPT ![p] = r]
        BY <3>3
      <4> HIDE DEF r
      <4> QED
        BY <1>1, <3>1, <4>3, <4>4, RequestKept
    <3> QED
      BY <2>6, <3>2, <3>3 DEF Undo
  <2> QED
    BY <1>4, <2>1, <2>2, <2>3, <2>4, <2>5, <2>6 DEF Continue
<1>5. ASSUME NEW p \in Processes, Crash(p)
      PROVE  RequestsOK' /\ made' \in Numbers \cup {NoRow}
  BY <1>1, <1>5, FinishKept DEF Crash
<1> QED
  BY <1>2, <1>3, <1>4, <1>5 DEF Next

-----------------------------------------------------------------------------
(* Rows.                                                                   *)

\* What a step may do to the rows of a layer: nothing, make it, add or delete a feature of
\* one that is there, or delete it with all of them.
RowsStep ==
    \/ UNCHANGED <<layer, features>>
    \/ \E n \in Names, k \in Numbers, own \in SUBSET Numbers :
         /\ layer[n] = NoRow /\ layer' = [layer EXCEPT ![n] = k]
         /\ features' = [features EXCEPT ![n] = own]
    \/ \E n \in Names, fs \in SUBSET Numbers :
         /\ fs \subseteq features[n] \/ layer[n] # NoRow
         /\ features' = [features EXCEPT ![n] = fs] /\ UNCHANGED layer
    \/ \E p \in Processes :
         LET n == request[p].name
         IN  /\ request[p].op \in {"delete", "import"} /\ request[p].step = "deleting"
             /\ n \in Names /\ layer[n] = request[p].row
             /\ layer' = [layer EXCEPT ![n] = NoRow]
             /\ features' = [features EXCEPT ![n] = {}]

LEMMA StepOfRows ==
    ASSUME IInv, Next
    PROVE  RowsStep
<1>1. TypeOK /\ Sound
  BY DEF IInv
<1>2. ASSUME made < MaxRequests
      PROVE  made + 1 \in Numbers
  BY <1>1, <1>2, RequestsAssumption DEF TypeOK, Numbers, NoRow
<1>3. ASSUME NEW n \in Names
      PROVE  features[n] \in SUBSET Numbers /\ features = [features EXCEPT ![n] = @]
  BY <1>1 DEF TypeOK
<1>4. ASSUME NEW p \in Processes, CreateLayer(p)
      PROVE  RowsStep
  <2>1. PICK n \in Names : layer[n] = NoRow /\ layer' = [layer EXCEPT ![n] = made + 1]
    BY <1>4 DEF CreateLayer
  <2>2. made + 1 \in Numbers /\ features' = [features EXCEPT ![n] = features[n]]
    BY <1>2, <1>3, <1>4 DEF CreateLayer
  <2> QED
    BY <1>3, <2>1, <2>2 DEF RowsStep
<1>5. ASSUME NEW p \in Processes, AddFeature(p)
      PROVE  RowsStep
  <2>1. PICK n \in Names : layer[n] # NoRow /\ features' = [features EXCEPT ![n] = @ \cup {made + 1}]
    BY <1>5 DEF AddFeature
  <2>2. features[n] \cup {made + 1} \in SUBSET Numbers /\ UNCHANGED layer
    BY <1>2, <1>3, <1>5 DEF AddFeature
  <2> QED
    BY <2>1, <2>2 DEF RowsStep
<1>6. ASSUME NEW p \in Processes, DeleteFeature(p)
      PROVE  RowsStep
  <2> DEFINE n == request[p].name
  <2>1. n \in Names
    BY <1>1, <1>6 DEF DeleteFeature, At, Sound, SoundRequest
  <2>2. features' = [features EXCEPT ![n] = features[n] \ {request[p].row}] /\ UNCHANGED layer
    BY <1>6 DEF DeleteFeature
  <2>3. features[n] \ {request[p].row} \in SUBSET Numbers
    BY <1>3, <2>1
  <2> HIDE DEF n
  <2> QED
    BY <2>1, <2>2, <2>3 DEF RowsStep
<1>7. ASSUME NEW p \in Processes, Delete(p)
      PROVE  RowsStep
  <2>1. request[p].name \in Names
    BY <1>1, <1>7 DEF Delete, Sound, SoundRequest
  <2> QED
    BY <1>7, <2>1 DEF Delete, RowsStep
<1>8. ASSUME NEW p \in Processes, SaveImport(p)
      PROVE  RowsStep
  <2>1. request[p].name \in Names /\ request[p].number \in Numbers
    BY <1>1, <1>8 DEF SaveImport, At, Sound, SoundRequest
  <2>2. CASE layer[request[p].name] = NoRow
    <3>1. PICK own \in SUBSET {request[p].number} : features' = [features EXCEPT ![request[p].name] = own]
      BY <1>8, <2>2 DEF SaveImport
    <3>2. own \in SUBSET Numbers /\ layer' = [layer EXCEPT ![request[p].name] = request[p].number]
      BY <1>8, <2>1, <2>2 DEF SaveImport
    <3> QED
      BY <2>1, <2>2, <3>1, <3>2 DEF RowsStep
  <2>3. CASE layer[request[p].name] # NoRow
    BY <1>8, <2>3 DEF SaveImport, RowsStep
  <2> QED
    BY <2>2, <2>3
<1>9. CASE SeedGeoServer
  BY <1>9 DEF SeedGeoServer, rows, RowsStep
<1>10. ASSUME NEW p \in Processes, Start(p), ~CreateLayer(p), ~AddFeature(p)
       PROVE  RowsStep
  BY <1>10 DEF Start, FindFeature, FindLayer, FindAssignments, Unassign, Publish, Unpublish, Import,
               rows, RowsStep
<1>11. ASSUME NEW p \in Processes, Continue(p), ~DeleteFeature(p), ~Delete(p), ~SaveImport(p)
       PROVE  RowsStep
  BY <1>11 DEF Continue, SaveAssignments, Look, EnsureWorkspace, EnsureStore, PublishView, PublishTable,
               Connect, Undo, rows, RowsStep
<1>12. ASSUME NEW p \in Processes, Crash(p)
       PROVE  RowsStep
  BY <1>12 DEF Crash, rows, RowsStep
<1> QED
  BY <1>4, <1>5, <1>6, <1>7, <1>8, <1>9, <1>10, <1>11, <1>12 DEF Next

LEMMA RowsKept ==
    ASSUME IInv, RowsStep
    PROVE  /\ FeaturesHaveLayers'
           /\ layer' \in [Names -> Numbers \cup {NoRow}]
           /\ features' \in [Names -> SUBSET Numbers]
<1>1. /\ layer \in [Names -> Numbers \cup {NoRow}] /\ features \in [Names -> SUBSET Numbers]
      /\ FeaturesHaveLayers
  BY DEF IInv, TypeOK
<1> DEFINE Kept == /\ FeaturesHaveLayers'
                   /\ layer' \in [Names -> Numbers \cup {NoRow}]
                   /\ features' \in [Names -> SUBSET Numbers]
<1>2. ASSUME UNCHANGED <<layer, features>>
      PROVE  Kept
  BY <1>1, <1>2 DEF FeaturesHaveLayers
<1>3. ASSUME NEW n \in Names, NEW k \in Numbers, NEW own \in SUBSET Numbers,
             layer' = [layer EXCEPT ![n] = k], features' = [features EXCEPT ![n] = own]
      PROVE  Kept
  <2>1. k # NoRow
    BY DEF Numbers, NoRow
  <2> QED
    BY <1>1, <1>3, <2>1 DEF FeaturesHaveLayers
<1>4. ASSUME NEW n \in Names, NEW fs \in SUBSET Numbers, fs \subseteq features[n] \/ layer[n] # NoRow,
             features' = [features EXCEPT ![n] = fs], UNCHANGED layer
      PROVE  Kept
  BY <1>1, <1>4 DEF FeaturesHaveLayers
<1>5. ASSUME NEW n \in Names,
             layer' = [layer EXCEPT ![n] = NoRow], features' = [features EXCEPT ![n] = {}]
      PROVE  Kept
  BY <1>1, <1>5 DEF FeaturesHaveLayers
<1> HIDE DEF Kept
<1>6. Kept
  BY <1>2, <1>3, <1>4, <1>5 DEF RowsStep
<1> QED
  BY <1>6 DEF Kept

\* What GeoServer has, and the assignments, keep their types.
LEMMA OthersKept ==
    ASSUME IInv, Next
    PROVE  /\ workspace' \in BOOLEAN /\ store' \in BOOLEAN
           /\ served' \in [Names -> {"no", "view", "table"}]
           /\ assigned' \subseteq Names \X Projects
<1>1. TypeOK /\ Sound
  BY DEF IInv
<1> DEFINE Others == /\ workspace' \in BOOLEAN /\ store' \in BOOLEAN
                     /\ served' \in [Names -> {"no", "view", "table"}]
                     /\ assigned' \subseteq Names \X Projects
<1>2. CASE SeedGeoServer
  BY <1>1, <1>2 DEF SeedGeoServer, rows, TypeOK
<1>3. ASSUME NEW p \in Processes, Start(p)
      PROVE  Others
  BY <1>1, <1>3 DEF Start, CreateLayer, AddFeature, FindFeature, FindLayer, FindAssignments, Unassign,
                    Publish, Unpublish, Import, rows, geoserver, TypeOK
<1>4. ASSUME NEW p \in Processes, SaveAssignments(p)
      PROVE  Others
  <2>1. request[p].name \in Names /\ request[p].wanted \subseteq Projects
    BY <1>1, <1>4 DEF SaveAssignments, At, Sound, SoundRequest, TypeOK, Request
  <2>2. {request[p].name} \X request[p].wanted \subseteq Names \X Projects
    BY <2>1
  <2> QED
    BY <1>1, <1>4, <2>2 DEF SaveAssignments, geoserver, TypeOK
<1>5. ASSUME NEW p \in Processes, Continue(p), ~SaveAssignments(p)
      PROVE  Others
  <2>1. CASE DeleteFeature(p) \/ Delete(p) \/ Look(p) \/ SaveImport(p) \/ Connect(p) \/ Undo(p)
    BY <1>1, <2>1 DEF DeleteFeature, Delete, Look, SaveImport, Connect, Undo, rows, geoserver, TypeOK
  <2>2. CASE EnsureWorkspace(p)
    BY <1>1, <2>2 DEF EnsureWorkspace, rows, TypeOK
  <2>3. CASE EnsureStore(p)
    BY <1>1, <2>3 DEF EnsureStore, rows, TypeOK
  <2>4. CASE PublishView(p)
    BY <1>1, <2>4 DEF PublishView, rows, TypeOK
  <2>5. CASE PublishTable(p)
    BY <1>1, <2>5 DEF PublishTable, rows, TypeOK
  <2> QED
    BY <1>5, <2>1, <2>2, <2>3, <2>4, <2>5 DEF Continue
<1>6. ASSUME NEW p \in Processes, Crash(p)
      PROVE  Others
  BY <1>1, <1>6 DEF Crash, rows, geoserver, TypeOK
<1> QED
  BY <1>2, <1>3, <1>4, <1>5, <1>6 DEF Next

-----------------------------------------------------------------------------
(* The theorems.                                                           *)

LEMMA InitHolds == Init => IInv
<1> SUFFICES ASSUME Init PROVE IInv
  OBVIOUS
<1>1. RequestsOK
  BY IdleIsSound DEF Init, RequestsOK, Sound
<1> QED
  BY <1>1 DEF Init, IInv, TypeOK, RequestsOK, FeaturesHaveLayers, NoRow

LEMMA StepHolds == IInv /\ [Next]_vars => IInv'
<1> SUFFICES ASSUME IInv, [Next]_vars PROVE IInv'
  OBVIOUS
<1>1. CASE Next
  <2>1. RequestsOK' /\ made' \in Numbers \cup {NoRow}
    BY <1>1, RequestsStep
  <2>2. RowsStep
    BY <1>1, StepOfRows
  <2>3. /\ FeaturesHaveLayers'
        /\ layer' \in [Names -> Numbers \cup {NoRow}]
        /\ features' \in [Names -> SUBSET Numbers]
    BY <2>2, RowsKept
  <2> QED
    BY <1>1, <2>1, <2>3, OthersKept DEF IInv, TypeOK, RequestsOK
<1>2. CASE UNCHANGED vars
  BY <1>2 DEF vars, IInv, TypeOK, Sound, FeaturesHaveLayers
<1> QED
  BY <1>1, <1>2

LEMMA Inductive == Spec => []IInv
BY InitHolds, StepHolds, PTL DEF Spec

\* Every variable stays within its type, whatever the requests and the failures.
THEOREM TypesHold == Spec => []TypeOK
<1>1. IInv => TypeOK
  BY DEF IInv
<1> QED
  BY <1>1, Inductive, PTL

\* No feature outlives its layer: deletions of a layer, also those that take an import back,
\* give way to a feature that they have not seen (delete_geo_layer).
THEOREM FeaturesGrounded == Spec => []FeaturesHaveLayers
<1>1. IInv => FeaturesHaveLayers
  BY DEF IInv
<1> QED
  BY <1>1, Inductive, PTL

\* A step that takes a layer away is a deletion of that very row, or an import's own undo.
LEMMA OwnStep ==
    ASSUME IInv, Next, NEW n \in Names, layer[n] # NoRow, layer'[n] # layer[n]
    PROVE  \E p \in Processes : /\ request[p].step = "deleting" /\ request[p].row = layer[n]
                                /\ request[p].op = "delete" \/ request[p].number = layer[n]
<1>1. TypeOK /\ Sound /\ RowsStep
  BY StepOfRows DEF IInv
<1>2. PICK p \in Processes :
        /\ request[p].op \in {"delete", "import"} /\ request[p].step = "deleting"
        /\ layer[request[p].name] = request[p].row
        /\ layer' = [layer EXCEPT ![request[p].name] = NoRow]
  BY <1>1 DEF RowsStep, TypeOK
<1>3. request[p].name = n
  BY <1>1, <1>2 DEF TypeOK
<1>4. request[p].op = "import" => request[p].row = request[p].number
  BY <1>1, <1>2 DEF Sound, SoundRequest
<1> QED
  BY <1>2, <1>3, <1>4

\* An import that fails late takes back its own layer, and never one of the same name that
\* has been made since (create_layer_from_geojson).
THEOREM OwnUndone == Spec => OnlyOwnIsUndone
<1> DEFINE Own == \A n \in Names :
                    layer[n] # NoRow /\ layer'[n] # layer[n] =>
                      \E p \in Processes :
                        /\ request[p].step = "deleting" /\ request[p].row = layer[n]
                        /\ request[p].op = "delete" \/ request[p].number = layer[n]
<1>1. IInv /\ [Next]_vars => [Own]_vars
  BY OwnStep DEF vars
<1> QED
  BY <1>1, Inductive, PTL DEF Spec, OnlyOwnIsUndone
=============================================================================
