---------------------------- MODULE SensorConfig ----------------------------
(***************************************************************************)
(* How a sensor's configuration is changed after its creation: the parts   *)
(* of services/timeio/timeio_db.py that write config_db and a thing's      *)
(* properties, with their callers api/v1/endpoints/sms.py,                 *)
(* external_sources.py and custom_parsers.py, services/sms_service.py and  *)
(* ProjectService.update_sensor.                                           *)
(*                                                                         *)
(* A request makes several calls, each a transaction of its own, and a     *)
(* transaction that reads first and writes then holds no lock between the  *)
(* two.  Scripts of custom parsers and syncers are objects in MinIO, named *)
(* by a row of config_db.  There is one thing, one parser name, one MQTT    *)
(* device type and one API type: nothing here relates two of a kind.       *)
(***************************************************************************)
EXTENDS Integers

CONSTANTS
    Processes,    \* of the API
    Keys,         \* of a thing's properties; "location" is one of them
    MaxRequests,  \* requests that are ever made
    MaxRows       \* rows of config_db.file_parser, ext_api and ext_sftp that are ever made

ASSUME KeysAssumption     == "location" \in Keys
ASSUME RequestsAssumption == MaxRequests \in Nat
ASSUME RowsAssumption     == MaxRows \in Nat

VARIABLES
    properties,  \* properties[k]: the number of the request that wrote k, 0 without
    settled,     \* keys whose value was written by a request that no other writer of the
                 \* properties ran beside (a note for UndisturbedChangesStay)
    external,    \* external[s]: the rows of source s, and which of them the thing links to
    ingest,      \* the thing's ingest type
    parser,      \* parser[f]: a row of config_db.file_parser
    store,       \* the parser that the thing's s3_store names
    raced,       \* two uploads of the one parser ran side by side (a note for ParsersAreUpserted)
    type,        \* type[s]: the row that registers the device type or the API type
    script,      \* script[s]: its script is in MinIO
    request,     \* request[p]: the request that process p is at
    made         \* requests made so far

vars == <<properties, settled, external, ingest, parser, store, raced, type, script, request, made>>

-----------------------------------------------------------------------------
(* Rows and requests.                                                      *)

Rows    == 1..MaxRows
Sources == {"api", "sftp"}
Kinds   == {"api", "device"}
NoRow   == 0

\* What a thing is fed by when source s is configured.
IngestOf(s) == IF s = "api" THEN "extapi" ELSE "extsftp"

\* parts: what is left of a request that changes several things, in this order.
Request == [op     : {"none", "sensor", "remove", "parser", "discard", "upload", "drop"},
            step   : {"idle", "next", "read", "found", "sync", "stored"},
            number : 0..MaxRequests,
            parts  : SUBSET (Sources \cup Keys),
            source : Sources \cup Kinds \cup {"none"},
            row    : Rows \cup {NoRow},
            seen   : [Keys -> 0..MaxRequests],
            failed : BOOLEAN,
            alone  : BOOLEAN]

Nothing == [k \in Keys |-> 0]
Idle == [op |-> "none", step |-> "idle", number |-> 0, parts |-> {}, source |-> "none",
         row |-> NoRow, seen |-> Nothing, failed |-> FALSE, alone |-> TRUE]

Free(p)     == request[p].step = "idle"
At(p, o, s) == request[p].op = o /\ request[p].step = s
Finish(p)   == request' = [request EXCEPT ![p] = Idle]

\* A request begins; number tells its writes from others'.
Begin(p, r) ==
    /\ Free(p) /\ made < MaxRequests
    /\ made' = made + 1
    /\ request' = [request EXCEPT ![p] = [r EXCEPT !.number = made + 1]]

Init ==
    /\ properties = Nothing
    /\ settled = {}
    /\ external = [s \in Sources |-> [rows |-> {}, link |-> NoRow]]
    /\ ingest = "mqtt"
    /\ parser = [f \in Rows |-> "unused"]
    /\ store = NoRow
    /\ raced = FALSE
    /\ type = [k \in Kinds |-> "absent"]
    /\ script = [k \in Kinds |-> FALSE]
    /\ request = [p \in Processes |-> Idle]
    /\ made = 0

-----------------------------------------------------------------------------
(* Changing a sensor.                                                      *)

\* SMSService.update_sensor: name, credentials, ingest type and parser at once, in
\* update_sensor_config, then the parts that were sent with them.
UpdateSensor(p) ==
    /\ \E parts \in SUBSET (Sources \cup {"location"}) :
         Begin(p, [Idle EXCEPT !.op = "sensor", !.step = "next", !.parts = parts])
    /\ ingest' \in {ingest, "mqtt", "sftp"}
    /\ \/ \E f \in Rows : parser[f] \notin {"unused", "deleted"} /\ store' = f
       \/ UNCHANGED store
    /\ UNCHANGED <<properties, settled, external, parser, raced, type, script>>

\* ProjectService.update_sensor: properties only, merged into what FROST has of them.
UpdateLinked(p) ==
    /\ \E k \in Keys : Begin(p, [Idle EXCEPT !.op = "sensor", !.step = "next", !.parts = {k}])
    /\ UNCHANGED <<properties, settled, external, ingest, parser, store, raced, type, script>>

\* PUT of one external source; the API type must be known.
ConfigureSource(p) ==
    /\ \E s \in Sources :
         /\ s = "api" => type["api"] # "absent"
         /\ Begin(p, [Idle EXCEPT !.op = "sensor", !.step = "next", !.parts = {s}])
    /\ UNCHANGED <<properties, settled, external, ingest, parser, store, raced, type, script>>

\* Properties come first, then the API, then SFTP.
Takes(p, part) ==
    /\ At(p, "sensor", "next") /\ part \in request[p].parts
    /\ part \in Sources => request[p].parts \cap Keys = {}
    /\ part = "sftp" => "api" \notin request[p].parts

Writing(p) == request[p].op = "sensor" /\ request[p].step = "read"

\* get_thing_properties: a query that fails is logged and reads as no properties at all;
\* an update through a project would rather fail.
ReadProperties(p, k) ==
    LET rivals == {o \in Processes \ {p} : Writing(o)}
    IN  /\ Takes(p, k)
        /\ \E failed \in BOOLEAN :
             /\ failed => k = "location"
             /\ request' = [o \in Processes |->
                  CASE o = p -> [request[p] EXCEPT !.step = "read", !.failed = failed,
                                                   !.alone = rivals = {},
                                                   !.seen = IF failed THEN Nothing ELSE properties]
                    [] o # p -> [request[o] EXCEPT !.alone = @ /\ o \notin rivals]]
        /\ UNCHANGED <<properties, settled, external, ingest, parser, store, raced, type, script, made>>

\* What replaces the properties: what was read, with the new value.
\* Mutant: the new value alone.
Merged_Alone(r, k) == [Nothing EXCEPT ![k] = r.number]

Merged(r, k) == [r.seen EXCEPT ![k] = r.number]

\* update_thing_properties replaces the column.
WriteProperties(p, k) ==
    LET r    == request[p]
        kept == IF r.failed THEN {} ELSE settled \ {k}
    IN  /\ Writing(p) /\ k \in r.parts \cap Keys
        /\ properties' = Merged(r, k)
        /\ settled' = IF r.alone THEN kept \cup {k} ELSE kept
        /\ request' = [request EXCEPT ![p] = [Idle EXCEPT !.op = "sensor", !.number = r.number,
                                                !.step = "next", !.parts = r.parts \ {k}]]
        /\ UNCHANGED <<external, ingest, parser, store, raced, type, script, made>>

\* update_thing_external_api and update_thing_external_sftp read the link ...
ReadLink(p, s) ==
    /\ Takes(p, s)
    /\ s = "api" => type["api"] # "absent"
    /\ request' = [request EXCEPT ![p].step = "found", ![p].row = external[s].link, ![p].source = s]
    /\ UNCHANGED <<properties, settled, external, ingest, parser, store, raced, type, script, made>>

\* ... fail for an unknown API type, which a change through the SMS logs and passes over ...
UnknownType(p) ==
    /\ Takes(p, "api") /\ type["api"] = "absent"
    /\ request' = [request EXCEPT ![p].parts = @ \ {"api"}]
    /\ UNCHANGED <<properties, settled, external, ingest, parser, store, raced, type, script, made>>

\* ... and change the row that they read, whether or not it is still there, or add one.
WriteLink(p, s) ==
    LET r == request[p]
    IN  /\ At(p, "sensor", "found") /\ r.source = s
        /\ IF r.row # NoRow THEN UNCHANGED external
           ELSE \E n \in Rows \ external[s].rows :
                  external' = [external EXCEPT ![s] = [rows |-> @.rows \cup {n}, link |-> n]]
        /\ ingest' = IngestOf(s)
        /\ request' = [request EXCEPT ![p].step = "next", ![p].row = NoRow, ![p].source = "none",
                                      ![p].parts = @ \ {s}]
        /\ UNCHANGED <<properties, settled, parser, store, raced, type, script, made>>

\* The configuration is sent to the TSM again; the answer does not depend on it.
Resync(p) ==
    /\ \/ At(p, "sensor", "next") /\ request[p].parts = {}
       \/ At(p, "remove", "sync")
    /\ Finish(p)
    /\ UNCHANGED <<properties, settled, external, ingest, parser, store, raced, type, script, made>>

\* remove_thing_external_api and _sftp read the link; without one they answer 404.
RemoveSource(p) ==
    /\ \E s \in Sources :
         /\ external[s].link # NoRow
         /\ Begin(p, [Idle EXCEPT !.op = "remove", !.step = "found", !.source = s,
                                  !.row = external[s].link])
    /\ UNCHANGED <<properties, settled, external, ingest, parser, store, raced, type, script>>

\* They remove whatever link there is by now, delete the row that was read, and set the
\* ingest type back to MQTT, also where the other source remains.
\* Mutant: the link stays.
DropLink_RowOnly(p) ==
    LET s == request[p].source
    IN  /\ At(p, "remove", "found")
        /\ external' = [external EXCEPT ![s].rows = @ \ {request[p].row}]
        /\ ingest' = "mqtt"
        /\ request' = [request EXCEPT ![p].step = "sync"]
        /\ UNCHANGED <<properties, settled, parser, store, raced, type, script, made>>

DropLink(p) ==
    LET s == request[p].source
    IN  /\ At(p, "remove", "found")
        /\ external' = [external EXCEPT ![s] = [rows |-> @.rows \ {request[p].row}, link |-> NoRow]]
        /\ ingest' = "mqtt"
        /\ request' = [request EXCEPT ![p].step = "sync"]
        /\ UNCHANGED <<properties, settled, parser, store, raced, type, script, made>>

-----------------------------------------------------------------------------
(* Parsers of files.                                                       *)

Unused == {f \in Rows : parser[f] = "unused" /\ \A g \in 1..(f - 1) : parser[g] # "unused"}
Named  == {f \in Rows : parser[f] = "named"}

\* create_parser looks for the uuid that name and project give ...
FindParser(p) ==
    /\ Begin(p, [Idle EXCEPT !.op = "parser", !.step = "found",
                             !.row = IF Named = {} THEN NoRow ELSE CHOOSE f \in Named : TRUE])
    /\ raced' = (raced \/ \E o \in Processes : At(o, "parser", "found"))
    /\ UNCHANGED <<properties, settled, external, ingest, parser, store, type, script>>

\* ... and updates the row that it found, or inserts one: the column has no constraint.
\* Mutant: no look.
SaveParser_Insert(p) ==
    /\ At(p, "parser", "found")
    /\ \E f \in Unused : /\ parser' = [parser EXCEPT ![f] = "named"]
                         /\ request' = [request EXCEPT ![p].step = "next", ![p].row = f]
    /\ UNCHANGED <<properties, settled, external, ingest, store, raced, type, script, made>>

SaveParser(p) ==
    /\ At(p, "parser", "found")
    /\ IF request[p].row # NoRow
       THEN parser' = parser /\ request' = [request EXCEPT ![p].step = "next"]
       ELSE \E f \in Unused : /\ parser' = [parser EXCEPT ![f] = "named"]
                              /\ request' = [request EXCEPT ![p].step = "next", ![p].row = f]
    /\ UNCHANGED <<properties, settled, external, ingest, store, raced, type, script, made>>

\* link_thing_to_parser, with the id that create_parser gave.
LinkParser(p) ==
    /\ At(p, "parser", "next")
    /\ store' = request[p].row
    /\ Finish(p)
    /\ UNCHANGED <<properties, settled, external, ingest, parser, raced, type, script, made>>

\* create_csv_parser inserts without a look, and without the uuid.
CreateCsvParser(p) ==
    /\ \E f \in Unused : parser' = [parser EXCEPT ![f] = "csv"]
    /\ Free(p) /\ made < MaxRequests /\ made' = made + 1
    /\ UNCHANGED <<properties, settled, external, ingest, store, raced, type, script, request>>

\* delete_parser asks whether a sensor uses it ...
CheckParser(p) ==
    /\ \E f \in Rows :
         /\ parser[f] \in {"named", "csv"} /\ store # f
         /\ Begin(p, [Idle EXCEPT !.op = "discard", !.step = "found", !.row = f])
    /\ UNCHANGED <<properties, settled, external, ingest, parser, store, raced, type, script>>

\* ... and deletes it; config_db, which is the TSM's, may refuse if one does by now.
DeleteParser(p) ==
    /\ At(p, "discard", "found")
    /\ \/ parser' = [parser EXCEPT ![request[p].row] = "deleted"]
       \/ store = request[p].row /\ parser' = parser
    /\ Finish(p)
    /\ UNCHANGED <<properties, settled, external, ingest, store, raced, type, script, made>>

-----------------------------------------------------------------------------
(* Device types and API types with scripts of their own.                   *)

\* upload_custom_parser and upload_custom_syncer: the file first ...
StoreScript(p) ==
    /\ \E k \in Kinds :
         /\ Begin(p, [Idle EXCEPT !.op = "upload", !.step = "stored", !.source = k])
         /\ script' = [script EXCEPT ![k] = TRUE]
    /\ UNCHANGED <<properties, settled, external, ingest, parser, store, raced, type>>

\* ... then the row that names it, which an existing row is merged with.
RegisterScript(p) ==
    /\ At(p, "upload", "stored")
    /\ type' = [type EXCEPT ![request[p].source] = "script"]
    /\ Finish(p)
    /\ UNCHANGED <<properties, settled, external, ingest, parser, store, raced, script, made>>

\* A refused connection between the two leaves the file without a row.
RegisterFails(p) ==
    /\ At(p, "upload", "stored")
    /\ Finish(p)
    /\ UNCHANGED <<properties, settled, external, ingest, parser, store, raced, type, script, made>>

\* create_ext_api_type finds no such type ...
FindType(p) ==
    /\ type["api"] = "absent"
    /\ Begin(p, [Idle EXCEPT !.op = "upload", !.step = "found", !.source = "api"])
    /\ UNCHANGED <<properties, settled, external, ingest, parser, store, raced, type, script>>

\* ... and upserts one without properties: those of a row made meanwhile stay.
CreateType(p) ==
    /\ At(p, "upload", "found")
    /\ type' = [type EXCEPT !["api"] = IF @ = "absent" THEN "bare" ELSE @]
    /\ Finish(p)
    /\ UNCHANGED <<properties, settled, external, ingest, parser, store, raced, script, made>>

\* delete_ext_api_type asks whether a sensor uses it ...
CheckType(p) ==
    /\ type["api"] # "absent" /\ external["api"].link = NoRow
    /\ Begin(p, [Idle EXCEPT !.op = "drop", !.step = "found", !.source = "api"])
    /\ UNCHANGED <<properties, settled, external, ingest, parser, store, raced, type, script>>

\* ... and deletes the row, not the script; with rows of the type left, config_db may refuse.
\* Mutant: the script as well.
DeleteType_Script(p) ==
    /\ At(p, "drop", "found") /\ request[p].source = "api"
    /\ script' = [script EXCEPT !["api"] = FALSE]
    /\ \/ type' = [type EXCEPT !["api"] = "absent"]
       \/ external["api"].rows # {} /\ type' = type
    /\ Finish(p)
    /\ UNCHANGED <<properties, settled, external, ingest, parser, store, raced, made>>

DeleteType(p) ==
    /\ At(p, "drop", "found") /\ request[p].source = "api"
    /\ \/ type' = [type EXCEPT !["api"] = "absent"]
       \/ external["api"].rows # {} /\ type' = type
    /\ Finish(p)
    /\ UNCHANGED <<properties, settled, external, ingest, parser, store, raced, script, made>>

\* delete_device_type reads the row, removes the script that it names, and ends there.
FindDeviceType(p) ==
    /\ type["device"] # "absent"
    /\ Begin(p, [Idle EXCEPT !.op = "drop", !.step = "found", !.source = "device"])
    /\ UNCHANGED <<properties, settled, external, ingest, parser, store, raced, type, script>>

DeleteDeviceType(p) ==
    /\ At(p, "drop", "found") /\ request[p].source = "device"
    /\ script' = [script EXCEPT !["device"] = FALSE]
    /\ Finish(p)
    /\ UNCHANGED <<properties, settled, external, ingest, parser, store, raced, type, made>>

-----------------------------------------------------------------------------
(* The whole.                                                              *)

Start(p) ==
    \/ UpdateSensor(p) \/ UpdateLinked(p) \/ ConfigureSource(p) \/ RemoveSource(p)
    \/ FindParser(p) \/ CreateCsvParser(p) \/ CheckParser(p)
    \/ StoreScript(p) \/ FindType(p) \/ CheckType(p) \/ FindDeviceType(p)

Continue(p) ==
    \/ \E k \in Keys : ReadProperties(p, k) \/ WriteProperties(p, k)
    \/ \E s \in Sources : ReadLink(p, s) \/ WriteLink(p, s)
    \/ UnknownType(p) \/ Resync(p) \/ DropLink(p)
    \/ SaveParser(p) \/ LinkParser(p) \/ DeleteParser(p)
    \/ RegisterScript(p) \/ RegisterFails(p) \/ CreateType(p) \/ DeleteType(p) \/ DeleteDeviceType(p)

\* A process that dies leaves what it has committed.
Crash(p) ==
    /\ ~Free(p)
    /\ Finish(p)
    /\ UNCHANGED <<properties, settled, external, ingest, parser, store, raced, type, script, made>>

Next == \E p \in Processes : Start(p) \/ Continue(p) \/ Crash(p)

Spec == Init /\ [][Next]_vars

-----------------------------------------------------------------------------
(* Properties.                                                             *)

\* Every variable stays within its type.
TypeOK ==
    /\ properties \in [Keys -> 0..MaxRequests]
    /\ settled \subseteq Keys
    /\ external \in [Sources -> [rows : SUBSET Rows, link : Rows \cup {NoRow}]]
    /\ ingest \in {"mqtt", "sftp", "extapi", "extsftp"}
    /\ parser \in [Rows -> {"unused", "named", "csv", "deleted"}]
    /\ store \in Rows \cup {NoRow}
    /\ raced \in BOOLEAN
    /\ type \in [Kinds -> {"absent", "bare", "script"}]
    /\ script \in [Kinds -> BOOLEAN]
    /\ request \in [Processes -> Request]
    /\ made \in 0..MaxRequests

\* The source that a thing links to has its row, however configurations and removals that
\* read the link before cross each other.
LinkedSourcesExist == \A s \in Sources : external[s].link \in external[s].rows \cup {NoRow}

\* A syncer that is registered has its script, wherever an upload stops and whatever is
\* deleted beside it: the script is stored first, and never removed.
SyncersHaveScripts == type["api"] = "script" => script["api"]

\* "Helper to merge properties safely": what a request wrote into the properties with no
\* other writer beside it stays until a request changes that very key, or one whose own
\* reading failed writes over all of them.
UndisturbedChangesStay ==
    [][\A k \in Keys :
         k \in settled /\ properties'[k] # properties[k] =>
            \E p \in Processes : /\ Writing(p) /\ request'[p].step = "next"
                                 /\ k \in request[p].parts \/ request[p].failed]_vars

\* One name in one project makes one parser, upload after upload, unless two uploads ran
\* side by side.
ParsersAreUpserted == ~raced => \A f, g \in Named : f = g
=============================================================================
