------------------------------- MODULE Layers -------------------------------
(***************************************************************************)
(* Geospatial layers: rows of geo_layers and geo_features in the           *)
(* application's database, and the layers that GeoServer serves by the same *)
(* names.  services/database_service.py, services/geoserver_service.py,    *)
(* api/v1/endpoints/geospatial.py, models/geospatial.py and                *)
(* models/layer_assignment.py.                                             *)
(*                                                                         *)
(* The two stores share nothing but the names.  An import writes the rows, *)
(* then asks GeoServer for a workspace, a data store and an SQL view, each *)
(* with a look before the change, and takes its rows back when any of the  *)
(* calls fails or is not answered.                                         *)
(***************************************************************************)
EXTENDS Integers

CONSTANTS
    Processes,   \* of the API
    Names,       \* of layers
    Projects,    \* that layers are assigned to
    MaxRequests  \* requests that are ever made

ASSUME RequestsAssumption == MaxRequests \in Nat

VARIABLES
    layer,      \* layer[n]: the number of the request that made the row of name n, or NoRow
    features,   \* features[n]: its features, each the number of the request that made it
    workspace,  \* GeoServer has the workspace
    store,      \* GeoServer has the data store of the imports, "water_dp_geo"
    served,     \* served[n]: what GeoServer serves by name n
    assigned,   \* pairs of a name and a project
    request,    \* request[p]: the request that process p is at
    made        \* requests made so far

vars == <<layer, features, workspace, store, served, assigned, request, made>>

-----------------------------------------------------------------------------
(* Rows and requests.                                                      *)

NoRow   == 0
Numbers == 1..MaxRequests

Request == [op     : {"none", "import", "publish", "unpublish", "delete", "feature", "assign", "unassign"},
            step   : {"idle", "checked", "saved", "workspace", "store", "view", "table", "undo", "deleting"},
            number : Numbers \cup {NoRow},
            name   : Names \cup {"none"},
            row    : Numbers \cup {NoRow},
            seen   : SUBSET Numbers,
            found  : {"unknown", "yes", "no"},
            wanted : SUBSET Projects]

Idle == [op |-> "none", step |-> "idle", number |-> NoRow, name |-> "none", row |-> NoRow,
         seen |-> {}, found |-> "unknown", wanted |-> {}]

Free(p)     == request[p].step = "idle"
At(p, o, s) == request[p].op = o /\ request[p].step = s
Finish(p)   == request' = [request EXCEPT ![p] = Idle]

\* A request begins; its number becomes that of the row it may make.
Begin(p, r) ==
    /\ Free(p) /\ made < MaxRequests
    /\ made' = made + 1
    /\ request' = [request EXCEPT ![p] = [r EXCEPT !.number = made + 1]]

Init ==
    /\ layer = [n \in Names |-> NoRow]
    /\ features = [n \in Names |-> {}]
    /\ workspace = FALSE
    /\ store = FALSE
    /\ served = [n \in Names |-> "no"]
    /\ assigned = {}
    /\ request = [p \in Processes |-> Idle]
    /\ made = 0

rows == <<layer, features, assigned>>
geoserver == <<workspace, store, served>>

-----------------------------------------------------------------------------
(* Rows.                                                                   *)

\* create_geo_layer: one insert, which a row of that name refuses.
CreateLayer(p) ==
    /\ Free(p) /\ made < MaxRequests /\ made' = made + 1
    /\ \E n \in Names : layer[n] = NoRow /\ layer' = [layer EXCEPT ![n] = made + 1]
    /\ UNCHANGED <<features, assigned, geoserver, request>>

\* create_geo_feature: one insert, which the foreign key refuses without the layer.
\* Mutant: no foreign key.
AddFeature_Unchecked(p) ==
    /\ Free(p) /\ made < MaxRequests /\ made' = made + 1
    /\ \E n \in Names : features' = [features EXCEPT ![n] = @ \cup {made + 1}]
    /\ UNCHANGED <<layer, assigned, geoserver, request>>

AddFeature(p) ==
    /\ Free(p) /\ made < MaxRequests /\ made' = made + 1
    /\ \E n \in Names : layer[n] # NoRow /\ features' = [features EXCEPT ![n] = @ \cup {made + 1}]
    /\ UNCHANGED <<layer, assigned, geoserver, request>>

\* delete_geo_feature reads the feature ...
FindFeature(p) ==
    /\ \E n \in Names : \E f \in features[n] :
         Begin(p, [Idle EXCEPT !.op = "feature", !.step = "deleting", !.name = n, !.row = f])
    /\ UNCHANGED <<rows, geoserver>>

\* ... and deletes it, which does nothing if it has gone.
DeleteFeature(p) ==
    /\ At(p, "feature", "deleting")
    /\ features' = [features EXCEPT ![request[p].name] = @ \ {request[p].row}]
    /\ Finish(p)
    /\ UNCHANGED <<layer, assigned, geoserver, made>>

\* delete_geo_layer reads the layer and, for the cascade, its features ...
FindLayer(p) ==
    /\ \E n \in Names :
         /\ layer[n] # NoRow
         /\ Begin(p, [Idle EXCEPT !.op = "delete", !.step = "deleting", !.name = n,
                                  !.row = layer[n], !.seen = features[n]])
    /\ UNCHANGED <<rows, geoserver>>

\* ... and deletes these rows, by their keys.  A feature that came in between refuses the
\* layer's, and all is rolled back.  Neither GeoServer nor an assignment hears of it.
\* Mutant: by the name.
Delete_ByName(p) ==
    LET n == request[p].name
    IN  /\ request[p].op \in {"delete", "import"} /\ request[p].step = "deleting"
        /\ IF layer[n] # NoRow
           THEN /\ layer' = [layer EXCEPT ![n] = NoRow]
                /\ features' = [features EXCEPT ![n] = {}]
           ELSE UNCHANGED <<layer, features>>
        /\ Finish(p)
        /\ UNCHANGED <<assigned, geoserver, made>>

Delete(p) ==
    LET n == request[p].name
    IN  /\ request[p].op \in {"delete", "import"} /\ request[p].step = "deleting"
        /\ IF layer[n] = request[p].row /\ features[n] \subseteq request[p].seen
           THEN /\ layer' = [layer EXCEPT ![n] = NoRow]
                /\ features' = [features EXCEPT ![n] = {}]
           ELSE UNCHANGED <<layer, features>>
        /\ Finish(p)
        /\ UNCHANGED <<assigned, geoserver, made>>

-----------------------------------------------------------------------------
(* Assignments.  The table names layers without a foreign key.             *)

\* assign_layer_to_project looks for each project's row ...
FindAssignments(p) ==
    /\ \E n \in Names : \E w \in SUBSET Projects \ {{}} :
         Begin(p, [Idle EXCEPT !.op = "assign", !.step = "checked", !.name = n,
                               !.wanted = {j \in w : <<n, j>> \notin assigned}])
    /\ UNCHANGED <<rows, geoserver>>

\* ... and inserts those that are missing; the unique index refuses them all for one.
SaveAssignments(p) ==
    LET new == {request[p].name} \X request[p].wanted
    IN  /\ At(p, "assign", "checked")
        /\ assigned' = IF new \cap assigned = {} THEN assigned \cup new ELSE assigned
        /\ Finish(p)
        /\ UNCHANGED <<layer, features, geoserver, made>>

\* unassign_layer_from_project.
Unassign(p) ==
    /\ Free(p) /\ made < MaxRequests /\ made' = made + 1
    /\ \E a \in assigned : assigned' = assigned \ {a}
    /\ UNCHANGED <<layer, features, geoserver, request>>

-----------------------------------------------------------------------------
(* GeoServer.  A call may fail, or be done and not be answered.            *)

\* What follows a step of a request that publishes.
Following(r) ==
    CASE r.step = "workspace" -> IF r.op = "import" THEN "store" ELSE "table"
      [] r.step = "store"     -> "view"

Answered(p) ==
    IF request[p].step \in {"view", "table"} THEN Finish(p)
    ELSE request' = [request EXCEPT ![p].step = Following(request[p]), ![p].found = "unknown"]

\* An import takes its rows back; publish_layer_to_geoserver answers 500.
Failed(p) ==
    IF request[p].op = "import" THEN request' = [request EXCEPT ![p].step = "undo"] ELSE Finish(p)

\* The GET before each change.
Look(p) ==
    LET r   == request[p]
        has == CASE r.step = "workspace" -> workspace
                 [] r.step = "store"     -> store
                 [] r.step = "view"      -> served[r.name] # "no"
    IN  /\ r.step \in {"workspace", "store", "view"} /\ r.found = "unknown"
        /\ \/ request' = [request EXCEPT ![p].found = IF has THEN "yes" ELSE "no"]
           \/ Failed(p)
        /\ UNCHANGED <<rows, geoserver, made>>

\* create_workspace: nothing to do, or a POST that fails if another was faster.
EnsureWorkspace(p) ==
    LET r == request[p]
    IN  /\ r.step = "workspace" /\ r.found # "unknown"
        /\ \/ r.found = "yes" /\ Answered(p) /\ UNCHANGED workspace
           \/ r.found = "no" /\ ~workspace /\ workspace' = TRUE /\ (Answered(p) \/ Failed(p))
           \/ r.found = "no" /\ Failed(p) /\ UNCHANGED workspace
        /\ UNCHANGED <<rows, store, served, made>>

\* create_datastore: a PUT of the one there is, or a POST.
EnsureStore(p) ==
    LET r == request[p]
    IN  /\ r.step = "store" /\ r.found # "unknown"
        /\ \/ (r.found = "yes" \/ ~store) /\ store' = TRUE /\ (Answered(p) \/ Failed(p))
           \/ Failed(p) /\ UNCHANGED store
        /\ UNCHANGED <<rows, workspace, served, made>>

\* publish_sql_view: a PUT, which finds nothing in this store if the name is a table of
\* another, or a POST.
PublishView(p) ==
    LET r == request[p]
    IN  /\ r.step = "view" /\ r.found # "unknown"
        /\ \/ /\ served[r.name] = IF r.found = "yes" THEN "view" ELSE "no"
              /\ served' = [served EXCEPT ![r.name] = "view"]
              /\ Answered(p) \/ Failed(p)
           \/ Failed(p) /\ UNCHANGED served
        /\ UNCHANGED <<rows, workspace, store, made>>

\* publish_layer: a POST, then the style, which may fail when the layer is there already.
PublishTable(p) ==
    LET r == request[p]
    IN  /\ r.step = "table"
        /\ \/ /\ served[r.name] = "no"
              /\ served' = [served EXCEPT ![r.name] = "table"]
              /\ Answered(p) \/ Failed(p)
           \/ Failed(p) /\ UNCHANGED served
        /\ UNCHANGED <<rows, workspace, store, made>>

\* publish_layer_to_geoserver, which asks for no row; without a connection it answers 503.
Publish(p) ==
    /\ \E n \in Names : Begin(p, [Idle EXCEPT !.op = "publish", !.step = "workspace", !.name = n])
    /\ UNCHANGED <<rows, geoserver>>

\* unpublish_layer: one DELETE.
Unpublish(p) ==
    /\ Free(p) /\ made < MaxRequests /\ made' = made + 1
    /\ \E n \in Names : served[n] # "no" /\ served' = [served EXCEPT ![n] = "no"]
    /\ UNCHANGED <<rows, workspace, store, request>>

\* The set-up of the deployment: its workspace, and a layer for each of its files whose name
\* GeoServer does not have yet.
SeedGeoServer ==
    /\ workspace' = TRUE
    /\ \E files \in SUBSET Names :
         served' = [n \in Names |-> IF n \in files /\ served[n] = "no" THEN "table" ELSE served[n]]
    /\ UNCHANGED <<rows, store, request, made>>

-----------------------------------------------------------------------------
(* create_layer_from_geojson.                                              *)

\* A name that has a row is answered 409.
Import(p) ==
    /\ \E n \in Names :
         /\ layer[n] = NoRow
         /\ Begin(p, [Idle EXCEPT !.op = "import", !.step = "checked", !.name = n])
    /\ UNCHANGED <<rows, geoserver>>

\* The layer and those of its features that have a geometry are committed at once; a layer
\* of that name made since fails the insert.
SaveImport(p) ==
    LET r == request[p]
    IN  /\ At(p, "import", "checked")
        /\ IF layer[r.name] = NoRow
           THEN /\ layer' = [layer EXCEPT ![r.name] = r.number]
                /\ \E own \in SUBSET {r.number} : features' = [features EXCEPT ![r.name] = own]
                /\ request' = [request EXCEPT ![p].step = "saved", ![p].row = r.number]
           ELSE Finish(p) /\ UNCHANGED <<layer, features>>
        /\ UNCHANGED <<assigned, geoserver, made>>

\* test_connection: without GeoServer the import is done, and nothing is published.
Connect(p) ==
    /\ At(p, "import", "saved")
    /\ Finish(p) \/ request' = [request EXCEPT ![p].step = "workspace"]
    /\ UNCHANGED <<rows, geoserver, made>>

\* The row that was made is read again, with its features by now; if it has gone, that is
\* logged.  Delete does the rest.
Undo(p) ==
    LET r == request[p]
    IN  /\ At(p, "import", "undo")
        /\ IF layer[r.name] = r.row
           THEN request' = [request EXCEPT ![p].step = "deleting", ![p].seen = features[r.name]]
           ELSE Finish(p)
        /\ UNCHANGED <<rows, geoserver, made>>

-----------------------------------------------------------------------------
(* The whole.                                                              *)

Start(p) ==
    \/ CreateLayer(p) \/ AddFeature(p) \/ FindFeature(p) \/ FindLayer(p) \/ FindAssignments(p)
    \/ Unassign(p) \/ Publish(p) \/ Unpublish(p) \/ Import(p)

Continue(p) ==
    \/ DeleteFeature(p) \/ Delete(p) \/ SaveAssignments(p)
    \/ Look(p) \/ EnsureWorkspace(p) \/ EnsureStore(p) \/ PublishView(p) \/ PublishTable(p)
    \/ SaveImport(p) \/ Connect(p) \/ Undo(p)

\* A process that dies leaves what is committed and what GeoServer has.
Crash(p) ==
    /\ ~Free(p)
    /\ Finish(p)
    /\ UNCHANGED <<rows, geoserver, made>>

Next == SeedGeoServer \/ \E p \in Processes : Start(p) \/ Continue(p) \/ Crash(p)

Spec == Init /\ [][Next]_vars

-----------------------------------------------------------------------------
(* Properties.                                                             *)

\* Every variable stays within its type.
TypeOK ==
    /\ layer \in [Names -> Numbers \cup {NoRow}]
    /\ features \in [Names -> SUBSET Numbers]
    /\ workspace \in BOOLEAN /\ store \in BOOLEAN
    /\ served \in [Names -> {"no", "view", "table"}]
    /\ assigned \subseteq Names \X Projects
    /\ request \in [Processes -> Request]
    /\ made \in Numbers \cup {NoRow}

\* No feature outlives its layer, whatever is added while the layer is deleted or an import
\* is taken back.
FeaturesHaveLayers == \A n \in Names : features[n] # {} => layer[n] # NoRow

\* A layer goes when somebody deletes that very layer, or when its own import fails: an
\* import that fails late never takes a layer of the same name that another has made since.
OnlyOwnIsUndone ==
    [][\A n \in Names :
         layer[n] # NoRow /\ layer'[n] # layer[n] =>
            \E p \in Processes : /\ request[p].step = "deleting" /\ request[p].row = layer[n]
                                 /\ request[p].op = "delete" \/ request[p].number = layer[n]]_vars
=============================================================================
