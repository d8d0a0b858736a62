---------------------------- MODULE SensorProofs ----------------------------
(***************************************************************************)
(* Two components that keep rows about sensors.                            *)
(*                                                                         *)
(* SensorConfig, for any number of processes, keys and requests: links     *)
(* have their rows and syncers their scripts, names make one parser, and   *)
(* only rivals cost a property its value.  All steps but the reading and   *)
(* writing of properties put one request in the place of another, about    *)
(* which little need be known (Quiet).                                     *)
(*                                                                         *)
(* SensorActivity, for any number of sensors, tasks and alerts: its types, *)
(* and that its tasks implement InactivityAlarm.  What a task has read and *)
(* concluded still holds when it acts upon it (Informed).                  *)
(***************************************************************************)
EXTENDS SensorConfig, SensorActivity, TLAPS

-----------------------------------------------------------------------------
(* SensorConfig.                                                           *)


\* An upload that has stored its script knows of which kind it is; a syncer's is there.
Stored ==
    \A p \in Processes :
        At(p, "upload", "stored") => /\ request[p].source \in Kinds
                                     /\ request[p].source = "api" => script["api"]

\* Without a race one upload at most has looked for the parser, and what it missed is missing.
Upserting ==
    ~raced => /\ \A p, o \in Processes :
                   At(p, "parser", "found") /\ At(o, "parser", "found") => p = o
              /\ \A p \in Processes :
                   At(p, "parser", "found") /\ request[p].row = NoRow => Named = {}

\* Who writes properties alone has no rival; who has read them has the settled ones right.
Fresh ==
    \A p \in Processes :
        Writing(p) => /\ request[p].alone => \A o \in Processes : Writing(o) => o = p
                      /\ \/ request[p].failed
                         \/ \A k \in settled : request[p].seen[k] = properties[k]

IInv == /\ TypeOK /\ Stored /\ Upserting /\ Fresh
        /\ LinkedSourcesExist /\ SyncersHaveScripts /\ ParsersAreUpserted

-----------------------------------------------------------------------------
(* Requests.                                                               *)

\* A request that does not write properties, has looked for the parser just now if at all,
\* and has stored its script.
Good(p, r) ==
    /\ r \in Request /\ r.step # "read"
    /\ r.op = "parser" /\ r.step = "found" => FindParser(p)
    /\ r.op = "upload" /\ r.step = "stored" => r.source \in Kinds /\ (r.source = "api" => script'["api"])

Quiet(p) == /\ \E r \in Request : Good(p, r) /\ request' = [request EXCEPT ![p] = r]
            /\ made' \in 0..MaxRequests

LEMMA IdleIsGood == ASSUME NEW p \in Processes PROVE Good(p, Idle)
<1>1. Idle \in Request
  BY RequestsAssumption DEF Idle, Request, Nothing, NoRow
<1> QED
  BY <1>1 DEF Good, Idle

LEMMA FinishQuiet ==
    ASSUME NEW p \in Processes, TypeOK, Finish(p), UNCHANGED made
    PROVE  Quiet(p)
<1>1. Good(p, Idle) /\ Idle \in Request
  BY IdleIsGood DEF Good
<1> QED
  BY <1>1 DEF Finish, Quiet, TypeOK

LEMMA BeginQuiet ==
    ASSUME NEW p \in Processes, TypeOK, NEW r, Good(p, r), Begin(p, r)
    PROVE  Quiet(p)
<1>1. made + 1 \in 0..MaxRequests
  BY RequestsAssumption DEF Begin, TypeOK
<1> DEFINE s == [r EXCEPT !.number = made + 1]
<1>2. s \in Request
  BY <1>1 DEF Good, Request
<1>3. Good(p, s)
  BY <1>2 DEF Good, Request
<1>4. request' = [request EXCEPT ![p] = s] /\ made' = made + 1
  BY DEF Begin
<1> HIDE DEF s
<1> QED
  BY <1>1, <1>2, <1>3, <1>4 DEF Quiet

\* A request at a step that says little.
LEMMA MoveQuiet ==
    ASSUME NEW p \in Processes, TypeOK, UNCHANGED made,
           NEW r \in Request, r.step \in {"next", "sync"},
           request' = [request EXCEPT ![p] = r]
    PROVE  Quiet(p)
BY DEF Good, Quiet, TypeOK

LEMMA StartQuiet ==
    ASSUME NEW p \in Processes, TypeOK, Start(p)
    PROVE  Quiet(p)
<1>1. CASE UpdateSensor(p)
  <2>1. PICK parts \in SUBSET (Sources \cup {"location"}) :
          Begin(p, [Idle EXCEPT !.op = "sensor", !.step = "next", !.parts = parts])
    BY <1>1 DEF UpdateSensor
  <2> DEFINE r == [Idle EXCEPT !.op = "sensor", !.step = "next", !.parts = parts]
  <2>2. parts \subseteq Sources \cup Keys
    BY KeysAssumption
  <2>3. r \in Request /\ r.op = "sensor" /\ r.step = "next"
    BY <2>2, IdleIsGood DEF Good, Idle, Request
  <2> HIDE DEF r
  <2>4. Good(p, r)
    BY <2>3 DEF Good
  <2> QED
    BY <2>1, <2>4, BeginQuiet DEF r
<1>2. CASE UpdateLinked(p)
  <2>1. PICK k \in Keys : Begin(p, [Idle EXCEPT !.op = "sensor", !.step = "next", !.parts = {k}])
    BY <1>2 DEF UpdateLinked
  <2> DEFINE r == [Idle EXCEPT !.op = "sensor", !.step = "next", !.parts = {k}]
  <2>2. r \in Request /\ r.op = "sensor" /\ r.step = "next"
    BY IdleIsGood DEF Good, Idle, Request
  <2> HIDE DEF r
  <2>3. Good(p, r)
    BY <2>2 DEF Good
  <2> QED
    BY <2>1, <2>3, BeginQuiet DEF r
<1>3. CASE ConfigureSource(p)
  <2>1. PICK s \in Sources : Begin(p, [Idle EXCEPT !.op = "sensor", !.step = "next", !.parts = {s}])
    BY <1>3 DEF ConfigureSource
  <2> DEFINE r == [Idle EXCEPT !.op = "sensor", !.step = "next", !.parts = {s}]
  <2>2. r \in Request /\ r.op = "sensor" /\ r.step = "next"
    BY IdleIsGood DEF Good, Idle, Request
  <2> HIDE DEF r
  <2>3. Good(p, r)
    BY <2>2 DEF Good
  <2> QED
    BY <2>1, <2>3, BeginQuiet DEF r
<1>4. CASE RemoveSource(p)
  <2>1. PICK s \in Sources :
          Begin(p, [Idle EXCEPT !.op = "remove", !.step = "found", !.source = s, !.row = external[s].link])
    BY <1>4 DEF RemoveSource
  <2> DEFINE r == [Idle EXCEPT !.op = "remove", !.step = "found", !.source = s, !.row = external[s].link]
  <2>2. external[s].link \in Rows \cup {NoRow}
    BY DEF TypeOK
  <2>3. r \in Request /\ r.op = "remove"
    BY <2>2, IdleIsGood DEF Good, Idle, Request
  <2> HIDE DEF r
  <2>4. Good(p, r)
    BY <2>3, IdleIsGood DEF Good, r, Idle
  <2> QED
    BY <2>1, <2>4, BeginQuiet DEF r
<1>5. CASE FindParser(p)
  <2> DEFINE f == IF Named = {} THEN NoRow ELSE CHOOSE g \in Named : TRUE
  <2> DEFINE r == [Idle EXCEPT !.op = "parser", !.step = "found", !.row = f]
  <2>1. Begin(p, r)
    BY <1>5 DEF FindParser
  <2>2. f \in Rows \cup {NoRow}
    BY DEF Named
  <2> HIDE DEF f
  <2>3. r \in Request /\ r.op = "parser" /\ r.step = "found"
    BY <2>2, IdleIsGood DEF Good, Idle, Request
  <2> HIDE DEF r
  <2>4. Good(p, r)
    BY <1>5, <2>3 DEF Good
  <2> QED
    BY <2>1, <2>4, BeginQuiet
<1>6. CASE CreateCsvParser(p)
  <2>1. request[p] \in Request /\ request[p].step = "idle" /\ request' = [request EXCEPT ![p] = request[p]]
    BY <1>6 DEF CreateCsvParser, TypeOK, Free
  <2>2. Good(p, request[p])
    BY <2>1 DEF Good
  <2>3. made' \in 0..MaxRequests
    BY <1>6, RequestsAssumption DEF CreateCsvParser, TypeOK
  <2> QED
    BY <2>1, <2>2, <2>3 DEF Quiet
<1>7. CASE CheckParser(p)
  <2>1. PICK f \in Rows : Begin(p, [Idle EXCEPT !.op = "discard", !.step = "found", !.row = f])
    BY <1>7 DEF CheckParser
  <2> DEFINE r == [Idle EXCEPT !.op = "discard", !.step = "found", !.row = f]
  <2>2. r \in Request /\ r.op = "discard" /\ r.step = "found"
    BY IdleIsGood DEF Good, Idle, Request
  <2> HIDE DEF r
  <2>3. Good(p, r)
    BY <2>2 DEF Good
  <2> QED
    BY <2>1, <2>3, BeginQuiet DEF r
<1>8. CASE StoreScript(p)
  <2>1. PICK k \in Kinds :
          /\ Begin(p, [Idle EXCEPT !.op = "upload", !.step = "stored", !.source = k])
          /\ script' = [script EXCEPT ![k] = TRUE]
    BY <1>8 DEF StoreScript
  <2> DEFINE r == [Idle EXCEPT !.op = "upload", !.step = "stored", !.source = k]
  <2>2. r \in Request /\ r.op = "upload" /\ r.step = "stored" /\ r.source = k
    BY IdleIsGood DEF Good, Idle, Request
  <2>3. script'[k]
    BY <2>1 DEF TypeOK
  <2> HIDE DEF r
  <2>4. Good(p, r)
    BY <2>2, <2>3 DEF Good
  <2> QED
    BY <2>1, <2>4, BeginQuiet DEF r
<1>9. CASE FindType(p) \/ CheckType(p) \/ FindDeviceType(p)
  <2>1. PICK o \in {"upload", "drop"}, t \in Kinds :
          Begin(p, [Idle EXCEPT !.op = o, !.step = "found", !.source = t])
    BY <1>9 DEF FindType, CheckType, FindDeviceType, Kinds
  <2> DEFINE r == [Idle EXCEPT !.op = o, !.step = "found", !.source = t]
  <2>2. r \in Request /\ r.op = o /\ r.step = "found"
    BY IdleIsGood DEF Good, Idle, Request
  <2> HIDE DEF r
  <2>3. Good(p, r)
    BY <2>2 DEF Good
  <2> QED
    BY <2>1, <2>3, BeginQuiet DEF r
<1> QED
  BY <1>1, <1>2, <1>3, <1>4, <1>5, <1>6, <1>7, <1>8, <1>9 DEF Start

\* Reading and writing properties apart.
Other(p) ==
    \/ \E s \in Sources : ReadLink(p, s) \/ WriteLink(p, s)
    \/ UnknownType(p) \/ Resync(p) \/ DropLink(p)
    \/ SaveParser(p) \/ LinkParser(p) \/ DeleteParser(p)
    \/ RegisterScript(p) \/ RegisterFails(p) \/ CreateType(p) \/ DeleteType(p) \/ DeleteDeviceType(p)

LEMMA OtherQuiet ==
    ASSUME NEW p \in Processes, TypeOK, Other(p)
    PROVE  Quiet(p)
<1>1. /\ request[p] \in Request
      /\ request[p].source \in Sources \cup Kinds \cup {"none"}
      /\ request[p].row \in Rows \cup {NoRow}
      /\ request[p].parts \in SUBSET (Sources \cup Keys)
  BY DEF TypeOK, Request
<1>2. CASE \E s \in Sources : ReadLink(p, s)
  <2>1. PICK s \in Sources : ReadLink(p, s)
    BY <1>2
  <2> DEFINE r == [request[p] EXCEPT !.step = "found", !.row = external[s].link, !.source = s]
  <2>2. external[s].link \in Rows \cup {NoRow}
    BY DEF TypeOK
  <2>3. r \in Request /\ r.op = "sensor" /\ r.step = "found"
    BY <1>1, <2>1, <2>2 DEF ReadLink, Takes, At, Request
  <2>4. request' = [request EXCEPT ![p] = r] /\ UNCHANGED made
    BY <2>1 DEF ReadLink
  <2> HIDE DEF r
  <2>5. Good(p, r)
    BY <2>3 DEF Good
  <2> QED
    BY <2>3, <2>4, <2>5 DEF Quiet, TypeOK
<1>3. CASE \E s \in Sources : WriteLink(p, s)
  <2>1. PICK s \in Sources : WriteLink(p, s)
    BY <1>3
  <2> DEFINE r == [request[p] EXCEPT !.step = "next", !.row = NoRow, !.source = "none", !.parts = @ \ {s}]
  <2>2. r \in Request /\ r.step \in {"next", "sync"}
    BY <1>1, <2>1 DEF WriteLink, Request
  <2>3. request' = [request EXCEPT ![p] = r] /\ UNCHANGED made
    BY <1>1, <2>1 DEF WriteLink
  <2> HIDE DEF r
  <2> QED
    BY <2>2, <2>3, MoveQuiet
<1>4. CASE UnknownType(p)
  <2> DEFINE r == [request[p] EXCEPT !.parts = @ \ {"api"}]
  <2>2. r \in Request /\ r.step \in {"next", "sync"}
    BY <1>1, <1>4 DEF UnknownType, Takes, At, Request
  <2>3. request' = [request EXCEPT ![p] = r] /\ UNCHANGED made
    BY <1>1, <1>4 DEF UnknownType, Takes, At
  <2> HIDE DEF r
  <2> QED
    BY <2>2, <2>3, MoveQuiet
<1>5. CASE DropLink(p)
  <2> DEFINE r == [request[p] EXCEPT !.step = "sync"]
  <2>2. r \in Request /\ r.step \in {"next", "sync"}
    BY <1>1, <1>5 DEF DropLink, Request
  <2>3. request' = [request EXCEPT ![p] = r] /\ UNCHANGED made
    BY <1>1, <1>5 DEF DropLink
  <2> HIDE DEF r
  <2> QED
    BY <2>2, <2>3, MoveQuiet
<1>6. CASE SaveParser(p)
  <2>1. CASE request[p].row # NoRow
    <3> DEFINE r == [request[p] EXCEPT !.step = "next"]
    <3>1. r \in Request /\ r.step = "next"
      BY <1>1 DEF Request
    <3>2. request' = [request EXCEPT ![p] = r] /\ UNCHANGED made
      BY <1>6, <2>1 DEF SaveParser
    <3> HIDE DEF r
    <3> QED
      BY <3>1, <3>2, MoveQuiet
  <2>2. CASE request[p].row = NoRow
    <3>1. PICK f \in Rows : request' = [request EXCEPT ![p].step = "next", ![p].row = f]
      BY <1>6, <2>2 DEF SaveParser, Unused
    <3> DEFINE r == [request[p] EXCEPT !.step = "next", !.row = f]
    <3>2. r \in Request /\ r.step = "next"
      BY <1>1 DEF Request
    <3>3. request' = [request EXCEPT ![p] = r] /\ UNCHANGED made
      BY <1>6, <3>1 DEF SaveParser
    <3> HIDE DEF r
    <3> QED
      BY <3>2, <3>3, MoveQuiet
  <2> QED
    BY <2>1, <2>2
<1>7. CASE \/ Resync(p) \/ LinkParser(p) \/ DeleteParser(p)
           \/ RegisterScript(p) \/ RegisterFails(p) \/ CreateType(p) \/ DeleteType(p) \/ DeleteDeviceType(p)
  <2>1. Finish(p) /\ UNCHANGED made
    BY <1>7 DEF Resync, LinkParser, DeleteParser, RegisterScript, RegisterFails, CreateType, DeleteType,
                DeleteDeviceType
  <2> QED
    BY <2>1, FinishQuiet
<1> QED
  BY <1>2, <1>3, <1>4, <1>5, <1>6, <1>7 DEF Other

\* Who reads or writes properties has a request of its type afterwards.
LEMMA PropertiesQuietly ==
    ASSUME NEW p \in Processes, NEW k \in Keys, TypeOK, ReadProperties(p, k) \/ WriteProperties(p, k)
    PROVE  request' \in [Processes -> Request] /\ UNCHANGED made
<1>1. \A o \in Processes : request[o] \in Request
  BY DEF TypeOK
<1>2. CASE ReadProperties(p, k)
  <2>1. PICK f \in BOOLEAN :
          request' = [o \in Processes |->
            CASE o = p -> [request[p] EXCEPT !.step = "read", !.failed = f,
                             !.alone = {q \in Processes \ {p} : Writing(q)} = {},
                             !.seen = IF f THEN Nothing ELSE properties]
              [] o # p -> [request[o] EXCEPT !.alone = @ /\ o \notin {q \in Processes \ {p} : Writing(q)}]]
    BY <1>2 DEF ReadProperties
  <2>2. (IF f THEN Nothing ELSE properties) \in [Keys -> 0..MaxRequests]
    BY RequestsAssumption DEF Nothing, TypeOK
  <2> DEFINE a == {q \in Processes \ {p} : Writing(q)} = {}
             seen == IF f THEN Nothing ELSE properties
  <2>3. [request[p] EXCEPT !.step = "read", !.failed = f, !.alone = a, !.seen = seen] \in Request
    <3> HIDE DEF seen
    <3>1. seen \in [Keys -> 0..MaxRequests]
      BY <2>2 DEF seen
    <3>2. a \in BOOLEAN
      OBVIOUS
    <3> HIDE DEF a
    <3> QED
      BY <1>1, <3>1, <3>2 DEF Request
  <2>4. ASSUME NEW o \in Processes
        PROVE  [request[o] EXCEPT !.alone = @ /\ o \notin {q \in Processes \ {p} : Writing(q)}] \in Request
    <3> DEFINE b == request[o].alone /\ o \notin {q \in Processes \ {p} : Writing(q)}
    <3>1. b \in BOOLEAN
      OBVIOUS
    <3> HIDE DEF b
    <3>2. [request[o] EXCEPT !.alone = b] \in Request
      BY <1>1, <3>1 DEF Request
    <3> QED
      BY <3>2 DEF b
  <2> QED
    BY <1>2, <2>1, <2>3, <2>4 DEF ReadProperties
<1>3. CASE WriteProperties(p, k)
  <2> DEFINE r == [Idle EXCEPT !.op = "sensor", !.number = request[p].number,
                               !.step = "next", !.parts = request[p].parts \ {k}]
  <2>1. r \in Request
    BY <1>1, IdleIsGood DEF Good, Idle, Request
  <2>2. request' = [request EXCEPT ![p] = r] /\ UNCHANGED made
    BY <1>3 DEF WriteProperties
  <2> HIDE DEF r
  <2> QED
    BY <2>1, <2>2 DEF TypeOK
<1> QED
  BY <1>2, <1>3

\* The steps, by what they do to the properties.
Step(p) == Start(p) \/ Other(p) \/ Crash(p)

LEMMA StepQuiet ==
    ASSUME NEW p \in Processes, TypeOK, Step(p)
    PROVE  Quiet(p) /\ UNCHANGED <<properties, settled>>
<1>1. Quiet(p)
  <2>1. CASE Crash(p)
    BY <2>1, FinishQuiet DEF Crash
  <2> QED
    BY <2>1, StartQuiet, OtherQuiet DEF Step
<1>2. UNCHANGED <<properties, settled>>
  BY DEF Step, Start, Other, Crash, UpdateSensor, UpdateLinked, ConfigureSource, RemoveSource, FindParser,
         CreateCsvParser, CheckParser, StoreScript, FindType, CheckType, FindDeviceType, ReadLink,
         WriteLink, UnknownType, Resync, DropLink, SaveParser, LinkParser, DeleteParser, RegisterScript,
         RegisterFails, CreateType, DeleteType, DeleteDeviceType
<1> QED
  BY <1>1, <1>2

\* Steps at the properties leave all else as it is.
LEMMA PropertiesApart ==
    ASSUME NEW p \in Processes, NEW k \in Keys, ReadProperties(p, k) \/ WriteProperties(p, k)
    PROVE  UNCHANGED <<external, ingest, parser, store, raced, type, script>>
BY DEF ReadProperties, WriteProperties

-----------------------------------------------------------------------------
(* Types.                                                                  *)

LEMMA ParserTypes ==
    ASSUME NEW p \in Processes, TypeOK, Step(p)
    PROVE  /\ parser' \in [Rows -> {"unused", "named", "csv", "deleted"}]
           /\ store' \in Rows \cup {NoRow}
           /\ raced' \in BOOLEAN
<1>1. request[p].row \in Rows \cup {NoRow}
  BY DEF TypeOK, Request
<1>2. CASE UpdateSensor(p)
  BY <1>2 DEF UpdateSensor, TypeOK
<1>3. CASE FindParser(p)
  BY <1>3 DEF FindParser, TypeOK
<1>4. CASE SaveParser(p)
  BY <1>4 DEF SaveParser, Unused, TypeOK
<1>5. CASE LinkParser(p)
  BY <1>1, <1>5 DEF LinkParser, TypeOK
<1>6. CASE CreateCsvParser(p)
  BY <1>6 DEF CreateCsvParser, Unused, TypeOK
<1>7. CASE DeleteParser(p)
  BY <1>7 DEF DeleteParser, TypeOK
<1>8. CASE UNCHANGED <<parser, store, raced>>
  BY <1>8 DEF TypeOK
<1> QED
  BY <1>2, <1>3, <1>4, <1>5, <1>6, <1>7, <1>8
  DEF Step, Start, Other, Crash, UpdateLinked, ConfigureSource, RemoveSource, CheckParser, StoreScript,
      FindType, CheckType, FindDeviceType, ReadLink, WriteLink, UnknownType, Resync, DropLink,
      RegisterScript, RegisterFails, CreateType, DeleteType, DeleteDeviceType

LEMMA SourceTypes ==
    ASSUME NEW p \in Processes, TypeOK, LinkedSourcesExist, Step(p)
    PROVE  /\ external' \in [Sources -> [rows : SUBSET Rows, link : Rows \cup {NoRow}]]
           /\ ingest' \in {"mqtt", "sftp", "extapi", "extsftp"}
           /\ LinkedSourcesExist'
<1> DEFINE Goal == /\ external' \in [Sources -> [rows : SUBSET Rows, link : Rows \cup {NoRow}]]
                   /\ ingest' \in {"mqtt", "sftp", "extapi", "extsftp"}
                   /\ LinkedSourcesExist'
<1>1. CASE UNCHANGED <<external, ingest>>
  BY <1>1 DEF TypeOK, LinkedSourcesExist
<1>2. CASE UpdateSensor(p)
  BY <1>2 DEF UpdateSensor, TypeOK, LinkedSourcesExist
<1>3. ASSUME NEW s \in Sources, WriteLink(p, s)
      PROVE  Goal
  <2>1. ingest' \in {"mqtt", "sftp", "extapi", "extsftp"}
    BY <1>3 DEF WriteLink, IngestOf
  <2>2. CASE UNCHANGED external
    BY <2>1, <2>2 DEF TypeOK, LinkedSourcesExist
  <2>3. ASSUME NEW n \in Rows,
               external' = [external EXCEPT ![s] = [rows |-> @.rows \cup {n}, link |-> n]]
        PROVE  Goal
    <3>1. external[s].rows \cup {n} \in SUBSET Rows
      BY DEF TypeOK
    <3>2. external' \in [Sources -> [rows : SUBSET Rows, link : Rows \cup {NoRow}]]
      BY <2>3, <3>1 DEF TypeOK
    <3>3. LinkedSourcesExist'
      BY <2>3 DEF TypeOK, LinkedSourcesExist
    <3> QED
      BY <2>1, <3>2, <3>3
  <2> QED
    BY <1>3, <2>2, <2>3 DEF WriteLink
<1>4. CASE DropLink(p)
  <2> DEFINE s == request[p].source
             row == request[p].row
  <2>1. external' = [external EXCEPT ![s] = [rows |-> @.rows \ {row}, link |-> NoRow]] /\ ingest' = "mqtt"
    BY <1>4 DEF DropLink
  <2> HIDE DEF s, row
  <2>2. external' \in [Sources -> [rows : SUBSET Rows, link : Rows \cup {NoRow}]]
    <3>1. ASSUME s \in Sources
          PROVE  [rows |-> external[s].rows \ {row}, link |-> NoRow] \in [rows : SUBSET Rows, link : Rows \cup {NoRow}]
      BY <3>1 DEF TypeOK
    <3> QED
      BY <2>1, <3>1 DEF TypeOK
  <2>3. LinkedSourcesExist'
    BY <2>1 DEF TypeOK, LinkedSourcesExist
  <2> QED
    BY <2>1, <2>2, <2>3
<1> HIDE DEF Goal
<1>5. Goal
  BY <1>1, <1>2, <1>3, <1>4
  DEF Goal, Step, Start, Other, Crash, UpdateLinked, ConfigureSource, RemoveSource, FindParser,
      CreateCsvParser, CheckParser, StoreScript, FindType, CheckType, FindDeviceType, ReadLink,
      UnknownType, Resync, SaveParser, LinkParser, DeleteParser, RegisterScript, RegisterFails,
      CreateType, DeleteType, DeleteDeviceType
<1> QED
  BY <1>5 DEF Goal

LEMMA ScriptsKept ==
    ASSUME NEW p \in Processes, TypeOK, Stored, SyncersHaveScripts, Step(p)
    PROVE  /\ type' \in [Kinds -> {"absent", "bare", "script"}]
           /\ script' \in [Kinds -> BOOLEAN]
           /\ script["api"] => script'["api"]
           /\ SyncersHaveScripts'
<1>1. "api" \in Kinds /\ "device" \in Kinds
  BY DEF Kinds
<1>2. CASE UNCHANGED <<type, script>>
  BY <1>2 DEF TypeOK, SyncersHaveScripts
<1>3. CASE StoreScript(p)
  BY <1>1, <1>3 DEF StoreScript, TypeOK, SyncersHaveScripts
<1>4. CASE RegisterScript(p)
  BY <1>1, <1>4 DEF RegisterScript, TypeOK, SyncersHaveScripts, Stored
<1>5. CASE CreateType(p)
  BY <1>1, <1>5 DEF CreateType, TypeOK, SyncersHaveScripts
<1>6. CASE DeleteType(p)
  BY <1>1, <1>6 DEF DeleteType, TypeOK, SyncersHaveScripts
<1>7. CASE DeleteDeviceType(p)
  BY <1>1, <1>7 DEF DeleteDeviceType, TypeOK, SyncersHaveScripts
<1> QED
  BY <1>2, <1>3, <1>4, <1>5, <1>6, <1>7
  DEF Step, Start, Other, Crash, UpdateSensor, UpdateLinked, ConfigureSource, RemoveSource, FindParser,
      CreateCsvParser, CheckParser, FindType, CheckType, FindDeviceType, ReadLink,
      WriteLink, UnknownType, Resync, DropLink, SaveParser, LinkParser, DeleteParser, RegisterFails

-----------------------------------------------------------------------------
(* Who has read what.                                                      *)

LEMMA StoredKept ==
    ASSUME NEW p \in Processes, TypeOK, Stored, Quiet(p), script["api"] => script'["api"]
    PROVE  Stored'
<1>1. PICK r \in Request : Good(p, r) /\ request' = [request EXCEPT ![p] = r]
  BY DEF Quiet
<1>2. request'[p] = r /\ \A o \in Processes : o # p => request'[o] = request[o]
  BY <1>1 DEF TypeOK
<1> QED
  BY <1>1, <1>2 DEF Good, Stored, At

LEMMA FreshKept ==
    ASSUME NEW p \in Processes, TypeOK, Fresh, Quiet(p), UNCHANGED <<properties, settled>>
    PROVE  Fresh'
<1>1. PICK r \in Request : Good(p, r) /\ request' = [request EXCEPT ![p] = r]
  BY DEF Quiet
<1>2. request'[p] = r /\ \A o \in Processes : o # p => request'[o] = request[o]
  BY <1>1 DEF TypeOK
<1>3. ~Writing(p)' /\ \A o \in Processes : o # p => (Writing(o)' <=> Writing(o))
  BY <1>1, <1>2 DEF Good, Writing
<1> QED
  BY <1>2, <1>3 DEF Fresh

\* Who begins to read marks the others that have read, and is marked by them.
LEMMA ReadFresh ==
    ASSUME NEW p \in Processes, NEW k \in Keys, TypeOK, Fresh, ReadProperties(p, k)
    PROVE  Fresh'
<1>1. PICK f \in BOOLEAN :
        request' = [o \in Processes |->
          CASE o = p -> [request[p] EXCEPT !.step = "read", !.failed = f,
                           !.alone = {q \in Processes \ {p} : Writing(q)} = {},
                           !.seen = IF f THEN Nothing ELSE properties]
            [] o # p -> [request[o] EXCEPT !.alone = @ /\ o \notin {q \in Processes \ {p} : Writing(q)}]]
  BY DEF ReadProperties
<1>2. \A o \in Processes : request[o] \in Request
  BY DEF TypeOK
<1>3. /\ request'[p].failed = f
      /\ request'[p].alone = ({q \in Processes \ {p} : Writing(q)} = {})
      /\ ~f => request'[p].seen = properties
  BY <1>1, <1>2 DEF Request
<1>4. ASSUME NEW o \in Processes, o # p
      PROVE  /\ request'[o].op = request[o].op /\ request'[o].step = request[o].step
             /\ request'[o].failed = request[o].failed /\ request'[o].seen = request[o].seen
             /\ request'[o].alone = (request[o].alone /\ o \notin {q \in Processes \ {p} : Writing(q)})
  <2>1. request'[o] = [request[o] EXCEPT !.alone = @ /\ o \notin {q \in Processes \ {p} : Writing(q)}]
    BY <1>1, <1>4
  <2> QED
    BY <1>2, <2>1 DEF Request
<1>5. UNCHANGED <<properties, settled>>
  BY DEF ReadProperties
<1>6. \A o \in Processes : o # p => (Writing(o)' <=> Writing(o))
  BY <1>4 DEF Writing
<1>7. settled \subseteq Keys
  BY DEF TypeOK
<1>8. ASSUME NEW o \in Processes, Writing(o)', o # p
      PROVE  /\ ~request'[o].alone
             /\ request'[o].failed \/ \A j \in settled' : request'[o].seen[j] = properties'[j]
  <2>1. Writing(o)
    BY <1>6, <1>8
  <2>2. request'[o].alone = FALSE
    BY <1>4, <1>8, <2>1
  <2>3. request[o].failed \/ \A j \in settled : request[o].seen[j] = properties[j]
    BY <2>1 DEF Fresh
  <2>4. request'[o].failed = request[o].failed /\ request'[o].seen = request[o].seen
    BY <1>4, <1>8
  <2> QED
    BY <1>5, <2>2, <2>3, <2>4
<1>9. /\ request'[p].alone => \A o \in Processes : Writing(o)' => o = p
      /\ request'[p].failed \/ \A j \in settled' : request'[p].seen[j] = properties'[j]
  BY <1>3, <1>5, <1>6
<1> QED
  BY <1>8, <1>9 DEF Fresh

\* What a request writes is what it has read, but for its own key; and who has read is right
\* about what stays settled.
LEMMA WriteFresh ==
    ASSUME NEW p \in Processes, NEW k \in Keys, TypeOK, Fresh, WriteProperties(p, k)
    PROVE  /\ Fresh'
           /\ properties' \in [Keys -> 0..MaxRequests] /\ settled' \subseteq Keys
           /\ \A j \in settled : properties'[j] # properties[j] => j = k \/ request[p].failed
<1> DEFINE r == request[p]
<1>1. r \in Request /\ Writing(p) /\ settled \subseteq Keys
  BY DEF TypeOK, WriteProperties
<1>2. properties' = [r.seen EXCEPT ![k] = r.number]
  BY DEF WriteProperties, Merged
<1>3. r.seen \in [Keys -> 0..MaxRequests] /\ r.number \in 0..MaxRequests
  BY <1>1 DEF Request
<1>4. properties' \in [Keys -> 0..MaxRequests]
  BY <1>2, <1>3
<1>5. \A j \in Keys : j # k => properties'[j] = r.seen[j]
  BY <1>2, <1>3
<1>6. settled' \subseteq (IF r.failed THEN {} ELSE settled \ {k}) \cup (IF r.alone THEN {k} ELSE {})
  BY DEF WriteProperties
<1>7. \A j \in settled : ~r.failed => r.seen[j] = properties[j]
  BY <1>1 DEF Fresh
<1>8. /\ ~Writing(p)'
      /\ \A o \in Processes : o # p => request'[o] = request[o]
  BY DEF WriteProperties, Writing, TypeOK
<1>9. ASSUME NEW o \in Processes, Writing(o)'
      PROVE  /\ request'[o].alone => \A q \in Processes : Writing(q)' => q = o
             /\ request'[o].failed \/ \A j \in settled' : request'[o].seen[j] = properties'[j]
  <2>1. o # p /\ request'[o] = request[o] /\ Writing(o)
    BY <1>8, <1>9 DEF Writing
  <2>2. ~request[o].alone /\ ~r.alone
    BY <1>1, <2>1 DEF Fresh
  <2>3. ASSUME NEW j \in settled', ~request[o].failed
        PROVE  request[o].seen[j] = properties'[j]
    <3>1. ~r.failed /\ j \in settled /\ j # k
      BY <1>6, <2>2, <2>3
    <3>2. properties'[j] = properties[j]
      BY <1>1, <1>5, <1>7, <3>1
    <3> QED
      BY <2>1, <2>3, <3>1, <3>2 DEF Fresh
  <2> QED
    BY <2>1, <2>2, <2>3
<1>10. settled' \subseteq Keys
  BY <1>1, <1>6
<1>11. ASSUME NEW j \in settled, properties'[j] # properties[j], j # k
       PROVE  r.failed
  BY <1>1, <1>5, <1>7, <1>11
<1> HIDE DEF r
<1> QED
  BY <1>4, <1>9, <1>10, <1>11 DEF Fresh, r

\* Neither reads nor writes concern uploads or parsers.
LEMMA PropertiesUpserting ==
    ASSUME NEW p \in Processes, NEW k \in Keys, TypeOK, Stored, Upserting,
           ReadProperties(p, k) \/ WriteProperties(p, k)
    PROVE  Stored' /\ Upserting'
<1>1. UNCHANGED <<parser, raced, script>>
  BY PropertiesApart
<1>2. ASSUME NEW o \in Processes
      PROVE  \/ request'[o].step \in {"read", "next"}
             \/ /\ request'[o].op = request[o].op /\ request'[o].step = request[o].step
                /\ request'[o].row = request[o].row /\ request'[o].source = request[o].source
  <2>1. \A q \in Processes : request[q] \in Request
    BY DEF TypeOK
  <2>2. CASE WriteProperties(p, k)
    BY <2>2 DEF WriteProperties, TypeOK
  <2>3. CASE ReadProperties(p, k)
    <3>1. request'[p].step = "read"
      BY <2>1, <2>3 DEF ReadProperties, Request
    <3> DEFINE b == request[o].alone /\ o \notin {q \in Processes \ {p} : Writing(q)}
    <3>2. o # p => request'[o] = [request[o] EXCEPT !.alone = b]
      BY <2>3 DEF ReadProperties
    <3> HIDE DEF b
    <3> QED
      BY <2>1, <3>1, <3>2 DEF Request
  <2> QED
    BY <2>2, <2>3
<1>3. Named' = Named
  BY <1>1 DEF Named
<1> QED
  BY <1>1, <1>2, <1>3 DEF Stored, Upserting, At

-----------------------------------------------------------------------------
(* Parsers.                                                                *)

\* Only an upload adds a parser under the name.
LEMMA NamesElsewhere ==
    ASSUME NEW p \in Processes, TypeOK, Step(p), ~FindParser(p), ~SaveParser(p)
    PROVE  raced' = raced /\ Named' \subseteq Named
<1>1. raced' = raced
  BY DEF Step, Start, Other, Crash, UpdateSensor, UpdateLinked, ConfigureSource, RemoveSource,
         CreateCsvParser, CheckParser, StoreScript, FindType, CheckType, FindDeviceType, ReadLink,
         WriteLink, UnknownType, Resync, DropLink, LinkParser, DeleteParser, RegisterScript,
         RegisterFails, CreateType, DeleteType, DeleteDeviceType
<1>2. CASE CreateCsvParser(p)
  BY <1>1, <1>2 DEF CreateCsvParser, Named, TypeOK
<1>3. CASE DeleteParser(p)
  BY <1>1, <1>3 DEF DeleteParser, Named, TypeOK
<1>4. CASE UNCHANGED parser
  BY <1>1, <1>4 DEF Named
<1> QED
  BY <1>2, <1>3, <1>4
  DEF Step, Start, Other, Crash, UpdateSensor, UpdateLinked, ConfigureSource, RemoveSource,
      CheckParser, StoreScript, FindType, CheckType, FindDeviceType, ReadLink,
      WriteLink, UnknownType, Resync, DropLink, LinkParser, RegisterScript,
      RegisterFails, CreateType, DeleteType, DeleteDeviceType

LEMMA UpsertingKept ==
    ASSUME NEW p \in Processes, TypeOK, Upserting, ParsersAreUpserted, Step(p)
    PROVE  Upserting' /\ ParsersAreUpserted'
<1>1. PICK r \in Request : Good(p, r) /\ request' = [request EXCEPT ![p] = r]
  BY StepQuiet DEF Quiet
<1>2. request'[p] = r /\ \A o \in Processes : o # p => request'[o] = request[o]
  BY <1>1 DEF TypeOK
<1>3. \A o \in Processes : o # p => (At(o, "parser", "found")' <=> At(o, "parser", "found"))
  BY <1>2 DEF At
<1>4. CASE FindParser(p)
  <2>1. raced' = (raced \/ \E o \in Processes : At(o, "parser", "found")) /\ UNCHANGED parser
    BY <1>4 DEF FindParser
  <2>2. Named' = Named
    BY <2>1 DEF Named
  <2>3. Named # {} => request'[p].row # NoRow
    <3>1. Begin(p, [Idle EXCEPT !.op = "parser", !.step = "found",
                                !.row = IF Named = {} THEN NoRow ELSE CHOOSE f \in Named : TRUE])
      BY <1>4 DEF FindParser
    <3>2. request'[p].row = IF Named = {} THEN NoRow ELSE CHOOSE f \in Named : TRUE
      BY <3>1 DEF Begin, Idle, TypeOK
    <3>3. Named # {} => (CHOOSE f \in Named : TRUE) \in Named
      OBVIOUS
    <3>4. NoRow \notin Named
      BY DEF Named, Rows, NoRow
    <3> QED
      BY <3>2, <3>3, <3>4
  <2>4. ~raced' => ~raced /\ \A o \in Processes : At(o, "parser", "found")' => o = p
    BY <1>3, <2>1
  <2> QED
    BY <2>2, <2>3, <2>4 DEF Upserting, ParsersAreUpserted
<1>5. CASE SaveParser(p)
  <2>1. raced' = raced /\ At(p, "parser", "found")
    BY <1>5 DEF SaveParser
  <2>2. ~At(p, "parser", "found")'
    <3>1. CASE request[p].row # NoRow
      <4>1. request' = [request EXCEPT ![p].step = "next"]
        BY <1>5, <3>1 DEF SaveParser
      <4> QED
        BY <4>1 DEF TypeOK, At
    <3>2. CASE request[p].row = NoRow
      <4>1. PICK f \in Unused : request' = [request EXCEPT ![p].step = "next", ![p].row = f]
        BY <1>5, <3>2 DEF SaveParser
      <4>2. request'[p].step = "next"
        BY <4>1 DEF TypeOK, Request
      <4> QED
        BY <4>2 DEF At
    <3> QED
      BY <3>1, <3>2
  <2>3. ~raced => \A o \in Processes : ~At(o, "parser", "found")'
    BY <1>3, <2>1, <2>2 DEF Upserting
  <2>4. ASSUME ~raced
        PROVE  \A f, g \in Named' : f = g
    <3>1. CASE request[p].row # NoRow
      BY <1>5, <2>4, <3>1 DEF SaveParser, Named, ParsersAreUpserted
    <3>2. CASE request[p].row = NoRow
      <4>1. Named = {}
        BY <2>1, <2>4, <3>2 DEF Upserting
      <4>2. PICK f \in Rows : parser' = [parser EXCEPT ![f] = "named"]
        BY <1>5, <3>2 DEF SaveParser, Unused
      <4>3. Named' \subseteq {f}
        BY <4>1, <4>2 DEF Named, TypeOK
      <4> QED
        BY <4>3
    <3> QED
      BY <3>1, <3>2
  <2> QED
    BY <2>1, <2>3, <2>4 DEF Upserting, ParsersAreUpserted
<1>6. CASE ~FindParser(p) /\ ~SaveParser(p)
  <2>1. raced' = raced /\ Named' \subseteq Named
    BY <1>6, NamesElsewhere
  <2>2. ~At(p, "parser", "found")'
    BY <1>1, <1>2, <1>6 DEF Good, At
  <2>3. ASSUME NEW o \in Processes, At(o, "parser", "found")'
        PROVE  At(o, "parser", "found") /\ request'[o].row = request[o].row
    BY <1>2, <1>3, <2>2, <2>3
  <2> QED
    BY <2>1, <2>3 DEF Upserting, ParsersAreUpserted
<1> QED
  BY <1>4, <1>5, <1>6

-----------------------------------------------------------------------------
(* The theorems.                                                           *)

LEMMA InitHolds == Init => IInv
<1> SUFFICES ASSUME Init PROVE IInv
  OBVIOUS
<1>1. Idle \in Request
  BY RequestsAssumption DEF Idle, Request, Nothing, NoRow
<1>2. \A p \in Processes : request[p] = Idle /\ Idle.op = "none"
  BY DEF Init, Idle
<1>3. TypeOK
  <2>1. properties \in [Keys -> 0..MaxRequests] /\ made \in 0..MaxRequests /\ settled \subseteq Keys
    BY RequestsAssumption DEF Init, Nothing
  <2>2. external \in [Sources -> [rows : SUBSET Rows, link : Rows \cup {NoRow}]]
    BY DEF Init
  <2>3. parser \in [Rows -> {"unused", "named", "csv", "deleted"}] /\ store \in Rows \cup {NoRow}
    BY DEF Init
  <2>4. /\ ingest \in {"mqtt", "sftp", "extapi", "extsftp"} /\ raced \in BOOLEAN
        /\ type \in [Kinds -> {"absent", "bare", "script"}] /\ script \in [Kinds -> BOOLEAN]
    BY DEF Init
  <2>5. request \in [Processes -> Request]
    BY <1>1 DEF Init
  <2> QED
    BY <2>1, <2>2, <2>3, <2>4, <2>5 DEF TypeOK
<1>4. Stored /\ Upserting /\ Fresh
  BY <1>2 DEF Stored, Upserting, Fresh, At, Writing
<1>5. Named = {}
  BY DEF Init, Named
<1>6. LinkedSourcesExist
  BY DEF Init, LinkedSourcesExist, NoRow
<1>7. SyncersHaveScripts
  BY DEF Init, SyncersHaveScripts, Kinds
<1> QED
  BY <1>3, <1>4, <1>5, <1>6, <1>7 DEF IInv, ParsersAreUpserted

\* Every step is one of a process: at the properties, or another.
LEMMA Steps ==
    ASSUME Next
    PROVE  \E p \in Processes : Step(p) \/ \E k \in Keys : ReadProperties(p, k) \/ WriteProperties(p, k)
BY DEF Next, Continue, Step, Other

LEMMA StepHolds == IInv /\ [Next]_vars => IInv'
<1> SUFFICES ASSUME IInv, [Next]_vars PROVE IInv'
  OBVIOUS
<1>1. /\ TypeOK /\ Stored /\ Upserting /\ Fresh
      /\ LinkedSourcesExist /\ SyncersHaveScripts /\ ParsersAreUpserted
  BY DEF IInv
<1>2. ASSUME NEW p \in Processes, Step(p)
      PROVE  IInv'
  <2>1. Quiet(p) /\ UNCHANGED <<properties, settled>>
    BY <1>1, <1>2, StepQuiet
  <2>2. request' \in [Processes -> Request] /\ made' \in 0..MaxRequests
    BY <1>1, <2>1 DEF Quiet, TypeOK
  <2>3. /\ parser' \in [Rows -> {"unused", "named", "csv", "deleted"}]
        /\ store' \in Rows \cup {NoRow}
        /\ raced' \in BOOLEAN
    BY <1>1, <1>2, ParserTypes
  <2>4. /\ external' \in [Sources -> [rows : SUBSET Rows, link : Rows \cup {NoRow}]]
        /\ ingest' \in {"mqtt", "sftp", "extapi", "extsftp"}
        /\ LinkedSourcesExist'
    BY <1>1, <1>2, SourceTypes
  <2>5. /\ type' \in [Kinds -> {"absent", "bare", "script"}]
        /\ script' \in [Kinds -> BOOLEAN]
        /\ script["api"] => script'["api"]
        /\ SyncersHaveScripts'
    BY <1>1, <1>2, ScriptsKept
  <2>6. TypeOK'
    BY <1>1, <2>1, <2>2, <2>3, <2>4, <2>5 DEF TypeOK
  <2>7. Stored' /\ Fresh'
    BY <1>1, <2>1, <2>5, StoredKept, FreshKept
  <2>8. Upserting' /\ ParsersAreUpserted'
    BY <1>1, <1>2, UpsertingKept
  <2> QED
    BY <2>4, <2>5, <2>6, <2>7, <2>8 DEF IInv
<1>3. ASSUME NEW p \in Processes, NEW k \in Keys, ReadProperties(p, k) \/ WriteProperties(p, k)
      PROVE  IInv'
  <2>1. UNCHANGED <<external, ingest, parser, store, raced, type, script>>
    BY <1>3, PropertiesApart
  <2>2. request' \in [Processes -> Request] /\ UNCHANGED made
    BY <1>1, <1>3, PropertiesQuietly
  <2>3. Fresh' /\ properties' \in [Keys -> 0..MaxRequests] /\ settled' \subseteq Keys
    <3>1. CASE ReadProperties(p, k)
      BY <1>1, <3>1, ReadFresh DEF ReadProperties, TypeOK
    <3>2. CASE WriteProperties(p, k)
      BY <1>1, <3>2, WriteFresh
    <3> QED
      BY <1>3, <3>1, <3>2
  <2>4. TypeOK'
    BY <1>1, <2>1, <2>2, <2>3 DEF TypeOK
  <2>5. Stored' /\ Upserting'
    BY <1>1, <1>3, PropertiesUpserting
  <2>6. LinkedSourcesExist' /\ SyncersHaveScripts' /\ ParsersAreUpserted'
    BY <1>1, <2>1 DEF LinkedSourcesExist, SyncersHaveScripts, ParsersAreUpserted, Named
  <2> QED
    BY <2>3, <2>4, <2>5, <2>6 DEF IInv
<1>4. CASE UNCHANGED vars
  BY <1>1, <1>4 DEF vars, IInv, TypeOK, Stored, Upserting, Fresh, At, Writing, LinkedSourcesExist,
                    SyncersHaveScripts, ParsersAreUpserted, Named
<1> QED
  BY <1>2, <1>3, <1>4, Steps

LEMMA Inductive == Spec => []IInv
BY InitHolds, StepHolds, PTL DEF Spec

\* Every variable stays within its type, whatever the requests and wherever they stop.
THEOREM TypesHold == Spec => []TypeOK
<1>1. IInv => TypeOK
  BY DEF IInv
<1> QED
  BY <1>1, Inductive, PTL

\* The source that a thing links to has its row, though configurations and removals go by
\* a link that they read before (update_thing_external_api, remove_thing_external_api).
THEOREM LinksHaveRows == Spec => []LinkedSourcesExist
<1>1. IInv => LinkedSourcesExist
  BY DEF IInv
<1> QED
  BY <1>1, Inductive, PTL

\* A registered syncer has its script: upload_custom_syncer stores it first, and nothing
\* removes it.
THEOREM SyncersScripted == Spec => []SyncersHaveScripts
<1>1. IInv => SyncersHaveScripts
  BY DEF IInv
<1> QED
  BY <1>1, Inductive, PTL

\* A name makes one parser as long as no two uploads run side by side (create_parser).
THEOREM NamesMakeOneParser == Spec => []ParsersAreUpserted
<1>1. IInv => ParsersAreUpserted
  BY DEF IInv
<1> QED
  BY <1>1, Inductive, PTL

\* What a request wrote into the properties with no writer beside it stays until that key is
\* changed, or until one whose reading failed writes over all of them
\* (update_thing_properties and its callers).
THEOREM ChangesStay == Spec => UndisturbedChangesStay
<1> DEFINE Stays ==
      \A k \in Keys :
         k \in settled /\ properties'[k] # properties[k] =>
            \E p \in Processes : /\ Writing(p) /\ request'[p].step = "next"
                                 /\ k \in request[p].parts \/ request[p].failed
<1>1. IInv /\ [Next]_vars => [Stays]_vars
  <2> SUFFICES ASSUME IInv, Next, NEW k \in Keys, k \in settled, properties'[k] # properties[k]
               PROVE  \E p \in Processes : /\ Writing(p) /\ request'[p].step = "next"
                                           /\ k \in request[p].parts \/ request[p].failed
    OBVIOUS
  <2>1. TypeOK /\ Fresh
    BY DEF IInv
  <2>2. PICK p \in Processes, j \in Keys : WriteProperties(p, j)
    BY <2>1, Steps, StepQuiet DEF ReadProperties
  <2>3. Writing(p) /\ request'[p].step = "next" /\ j \in request[p].parts
    BY <2>1, <2>2 DEF WriteProperties, TypeOK
  <2>4. k = j \/ request[p].failed
    BY <2>1, <2>2, WriteFresh
  <2> QED
    BY <2>3, <2>4
<1> QED
  BY <1>1, Inductive, PTL DEF Spec, UndisturbedChangesStay

-----------------------------------------------------------------------------
(* SensorActivity: the steps of a task.                                    *)

\* The steps at which a task is about the alert of its sensor.
Alerting(r) == r.step \in {"def", "mkdef", "name", "find", "insert", "resolve"}

\* A task has a sensor from its first step on, and only sweeps find one silent.
Shape(r) ==
    /\ r.step \in {"create", "seen"} => r.kind = "record" /\ r.thing \in Things
    /\ Alerting(r) => r.kind \in {"record", "sweep"} /\ r.thing \in Things
    /\ r.step \in {"mkdef", "status"} => r.kind = "sweep" /\ r.thing \in Things
    /\ r.step = "insert" => r.silent
    /\ r.step = "resolve" => r.found \in AlertIds
    /\ r.kind # "sweep" => ~r.silent

TypedTasks == ActivityTypeOK /\ \A w \in Workers : Shape(work[w])

\* Worker w comes to another well-formed step, or to none.
Turn(w) == \E r \in Task : Shape(r) /\ work' = [work EXCEPT ![w] = r]

LEMMA ConfigTyped ==
    /\ NoConfig \in Config
    /\ \A b \in BOOLEAN : [NoConfig EXCEPT !.exists = TRUE, !.track = b] \in Config
<1>1. DefaultThreshold \in Thresholds
  BY BoundsAssumption DEF DefaultThreshold
<1> QED
  BY <1>1 DEF NoConfig, Config, Sighting

LEMMA NoTaskTyped == NoTask \in Task /\ Shape(NoTask)
<1>1. [t \in Things |-> NoConfig] \in [Things -> Config]
  BY ConfigTyped
<1>2. 0 \in Time
  BY BoundsAssumption DEF Time
<1>3. NoTask \in Task
  BY <1>1, <1>2 DEF NoTask, Task, Sighting
<1> QED
  BY <1>3 DEF NoTask, Shape, Alerting

LEMMA EndTurns == ASSUME NEW w \in Workers, EndTask(w) PROVE Turn(w)
BY NoTaskTyped DEF EndTask, Turn

LEMMA NextThingTurns == ASSUME NEW w \in Workers, TypedTasks, NextThing(w) PROVE Turn(w)
<1> DEFINE loaded == IF work[w].expired THEN [t \in Things |-> NoConfig] ELSE work[w].loaded
           r == [NoTask EXCEPT !.kind = "sweep", !.step = "pick", !.todo = work[w].todo,
                               !.now = work[w].now, !.expired = work[w].expired, !.loaded = loaded]
<1>1. work[w] \in Task
  BY DEF TypedTasks, ActivityTypeOK
<1>2. loaded \in [Things -> Config]
  BY <1>1, ConfigTyped DEF Task
<1>3. work' = [work EXCEPT ![w] = IF work[w].todo = {} THEN NoTask ELSE r]
  BY DEF NextThing, NoTask
<1>4. r \in Task /\ Shape(r)
  <2> HIDE DEF loaded
  <2>1. NoTask \in Task /\ NoTask.silent = FALSE
    BY NoTaskTyped DEF NoTask
  <2>2. r \in Task
    BY <1>1, <1>2, <2>1 DEF Task
  <2>3. r.kind = "sweep" /\ r.step = "pick"
    BY <2>1 DEF Task
  <2>4. Shape(r)
    <3> HIDE DEF r
    <3> QED
      BY <2>3 DEF Shape, Alerting
  <2> QED
    BY <2>2, <2>4
<1> HIDE DEF r
<1> QED
  BY <1>3, <1>4, NoTaskTyped DEF Turn

LEMMA DoneTurns ==
    ASSUME NEW w \in Workers, TypedTasks, NEW b \in BOOLEAN, Alerting(work[w]), AlertDone(w, b)
    PROVE  Turn(w)
<1>1. work[w] \in Task /\ Shape(work[w])
  BY DEF TypedTasks, ActivityTypeOK
<1>2. CASE work[w].kind = "record"
  BY <1>2, EndTurns DEF AlertDone
<1>3. CASE work[w].kind # "record"
  <2> DEFINE e == work[w].expired \/ b
             r == [work[w] EXCEPT !.step = "status", !.found = NoAlert, !.expired = e]
  <2>1. work' = [work EXCEPT ![w] = r]
    BY <1>3 DEF AlertDone
  <2>2. e \in BOOLEAN
    BY <1>1 DEF Task
  <2>3. work[w].thing \in Things /\ work[w].kind = "sweep"
    BY <1>1, <1>3 DEF Shape
  <2>4. r \in Task /\ Shape(r)
    <3> HIDE DEF e
    <3> QED
      BY <1>1, <2>2, <2>3 DEF Task, Shape, Alerting
  <2> HIDE DEF r
  <2> QED
    BY <2>1, <2>4 DEF Turn
<1> QED
  BY <1>2, <1>3

LEMMA BeginSweepTurns == ASSUME NEW w \in Workers, TypedTasks, BeginSweep(w) PROVE Turn(w)
<1> DEFINE todo == {t \in Things : config[t].exists /\ config[t].track}
           loaded == [t \in Things |-> IF t \in todo THEN config[t] ELSE NoConfig]
           r == [NoTask EXCEPT !.kind = "sweep", !.step = "pick", !.todo = todo, !.now = clock,
                               !.loaded = loaded]
<1>1. work' = [work EXCEPT ![w] = r]
  BY DEF BeginSweep
<1>2. loaded \in [Things -> Config] /\ todo \in SUBSET Things /\ clock \in Time
  BY ConfigTyped DEF TypedTasks, ActivityTypeOK
<1> HIDE DEF todo, loaded
<1>3. r \in Task /\ r.kind = "sweep" /\ r.step = "pick"
  BY <1>2, NoTaskTyped DEF Task
<1> HIDE DEF r
<1>4. Shape(r)
  BY <1>3 DEF Shape, Alerting
<1> QED
  BY <1>1, <1>3, <1>4 DEF Turn

LEMMA BeginRecordTurns ==
    ASSUME NEW w \in Workers, NEW t \in Things, TypedTasks, BeginRecord(w, t) PROVE Turn(w)
<1> DEFINE s == IF config[t].exists THEN "seen" ELSE "create"
           r == [NoTask EXCEPT !.kind = "record", !.thing = t, !.step = s]
<1>1. work' = [work EXCEPT ![w] = r]
  BY DEF BeginRecord
<1>2. s \in {"seen", "create"}
  OBVIOUS
<1> HIDE DEF s
<1>3. NoTask \in Task /\ NoTask.silent = FALSE
  BY NoTaskTyped DEF NoTask
<1>4. r \in Task /\ r.kind = "record" /\ r.step = s /\ r.thing = t /\ r.silent = FALSE
  BY <1>2, <1>3 DEF Task
<1> HIDE DEF r
<1>5. Shape(r)
  BY <1>2, <1>4 DEF Shape, Alerting
<1> QED
  BY <1>1, <1>4, <1>5 DEF Turn

\* A worker takes one step of its task: another well-formed step, or none.
Move(w) ==
    \/ BeginSweep(w)
    \/ \E t \in Things : BeginRecord(w, t)
    \/ Advance(w)
    \/ NameUnknown(w)
    \/ Abandon(w)

LEMMA PickThingTurns == ASSUME NEW w \in Workers, TypedTasks, PickThing(w) PROVE Turn(w)
<1>1. PICK t \in work[w].todo :
        LET c == IF work[w].expired THEN config[t] ELSE work[w].loaded[t] IN
        work' = [work EXCEPT ![w].step = "def", ![w].thing = t, ![w].todo = @ \ {t},
                             ![w].loaded[t] = NoConfig,
                             ![w].silent = Silent(c, work[w].now), ![w].last = c.seen]
  BY DEF PickThing
<1> DEFINE c == IF work[w].expired THEN config[t] ELSE work[w].loaded[t]
           q == Silent(c, work[w].now)
           m == [work[w].loaded EXCEPT ![t] = NoConfig]
           r == [work[w] EXCEPT !.step = "def", !.thing = t, !.todo = @ \ {t}, !.loaded = m,
                                !.silent = q, !.last = c.seen]
<1>2. work[w] \in Task /\ work[w].kind = "sweep"
  BY DEF TypedTasks, ActivityTypeOK, PickThing, Doing
<1>3. t \in Things
  BY <1>2 DEF Task
<1>4. c \in Config
  BY <1>2, <1>3 DEF Task, TypedTasks, ActivityTypeOK
<1>5. q \in BOOLEAN
  BY DEF Silent
<1>6. m \in [Things -> Config]
  BY <1>2, <1>3, ConfigTyped DEF Task
<1>7. c.seen \in Sighting
  BY <1>4 DEF Config
<1>8. work' = [work EXCEPT ![w].step = "def", ![w].thing = t, ![w].todo = @ \ {t},
                           ![w].loaded[t] = NoConfig, ![w].silent = q, ![w].last = c.seen]
  BY <1>1
<1> HIDE DEF c, q
<1>9. work' = [work EXCEPT ![w] = r]
  BY <1>8, <1>2 DEF TypedTasks, ActivityTypeOK, Task
<1> HIDE DEF m
<1>10. r \in Task /\ r.kind = "sweep" /\ r.step = "def" /\ r.thing = t
  BY <1>2, <1>3, <1>5, <1>6, <1>7 DEF Task
<1> HIDE DEF r
<1>11. Shape(r)
  BY <1>3, <1>10 DEF Shape, Alerting
<1> QED
  BY <1>9, <1>10, <1>11 DEF Turn

LEMMA CreateConfigTurns == ASSUME NEW w \in Workers, TypedTasks, CreateConfig(w) PROVE Turn(w)
<1> DEFINE r == [work[w] EXCEPT !.step = "seen"]
<1>1. work[w] \in Task /\ Shape(work[w]) /\ work[w].kind = "record" /\ work[w].step = "create"
  BY DEF TypedTasks, ActivityTypeOK, CreateConfig, Doing
<1>2. CASE EndTask(w)
  BY <1>2, EndTurns
<1>3. CASE work' = [work EXCEPT ![w].step = "seen"]
  <2>1. r \in Task /\ work' = [work EXCEPT ![w] = r]
    BY <1>1, <1>3 DEF Task
  <2>2. r.kind = "record" /\ r.thing = work[w].thing /\ r.silent = work[w].silent /\ r.step = "seen"
    BY <1>1 DEF Task
  <2> HIDE DEF r
  <2> QED
    BY <1>1, <2>1, <2>2 DEF TypedTasks, Turn, Shape, Alerting
<1> QED
  BY <1>2, <1>3 DEF CreateConfig

LEMMA RecordSeenTurns == ASSUME NEW w \in Workers, TypedTasks, RecordSeen(w) PROVE Turn(w)
<1> DEFINE r == [work[w] EXCEPT !.step = "def"]
<1>1. work[w] \in Task /\ Shape(work[w]) /\ work[w].kind = "record" /\ work[w].step = "seen"
  BY DEF TypedTasks, ActivityTypeOK, RecordSeen, Doing
<1>2. r \in Task /\ work' = [work EXCEPT ![w] = r]
  BY <1>1 DEF Task, RecordSeen
<1>3. r.kind = "record" /\ r.thing = work[w].thing /\ r.silent = work[w].silent /\ r.step = "def"
  BY <1>1 DEF Task
<1> HIDE DEF r
<1> QED
  BY <1>1, <1>2, <1>3 DEF TypedTasks, Turn, Shape, Alerting

\* The definition that was found, or made, becomes the one of the task.
LEMMA NamedTurns ==
    ASSUME NEW w \in Workers, TypedTasks, work[w].step \in {"def", "mkdef"}, NEW d \in DefIds,
           NEW r, work' = [work EXCEPT ![w] = r],
           \/ r = [work[w] EXCEPT !.step = "name", !.def = d]
           \/ r = [work[w] EXCEPT !.step = "name", !.def = d, !.expired = TRUE]
    PROVE  Turn(w)
<1>1. work[w] \in Task /\ Alerting(work[w])
  BY DEF TypedTasks, ActivityTypeOK, Alerting
<1>2. r \in Task
  <2>1. CASE r = [work[w] EXCEPT !.step = "name", !.def = d]
    BY <1>1, <2>1 DEF Task
  <2>2. CASE r = [work[w] EXCEPT !.step = "name", !.def = d, !.expired = TRUE]
    BY <1>1, <2>2 DEF Task
  <2> QED
    BY <2>1, <2>2
<1>3. /\ r.kind = work[w].kind /\ r.thing = work[w].thing /\ r.silent = work[w].silent
      /\ r.step = "name" /\ Alerting(r)
  BY <1>1 DEF Task, Alerting
<1> QED
  BY <1>1, <1>2, <1>3 DEF TypedTasks, Turn, Shape, Alerting

LEMMA FindDefTurns ==
    ASSUME NEW w \in Workers, TypedTasks, FindDef(w) \/ GetDef(w) PROVE Turn(w)
<1>1. CASE EndTask(w)
  BY <1>1, EndTurns
<1>2. CASE \E d \in NamedDefs : work' = [work EXCEPT ![w].step = "name", ![w].def = d]
  <2>1. PICK d \in NamedDefs : work' = [work EXCEPT ![w].step = "name", ![w].def = d]
    BY <1>2
  <2>2. d \in DefIds /\ work[w].step = "def"
    BY DEF NamedDefs, FindDef, GetDef, Doing
  <2>3. work' = [work EXCEPT ![w] = [work[w] EXCEPT !.step = "name", !.def = d]]
    BY <2>1
  <2> QED
    BY <2>2, <2>3, NamedTurns
<1>3. CASE GetDef(w) /\ work' = [work EXCEPT ![w].step = "mkdef"]
  <2> DEFINE r == [work[w] EXCEPT !.step = "mkdef"]
  <2>1. work[w] \in Task /\ Alerting(work[w]) /\ work[w].kind = "sweep"
    BY <1>3 DEF TypedTasks, ActivityTypeOK, Alerting, GetDef, Doing
  <2>2. r \in Task /\ work' = [work EXCEPT ![w] = r]
    BY <1>3, <2>1 DEF Task
  <2>3. /\ r.kind = work[w].kind /\ r.thing = work[w].thing /\ r.silent = work[w].silent
        /\ r.step = "mkdef" /\ Alerting(r)
    BY <2>1 DEF Task, Alerting
  <2> HIDE DEF r
  <2> QED
    BY <2>1, <2>2, <2>3 DEF TypedTasks, Turn, Shape, Alerting
<1> QED
  BY <1>1, <1>2, <1>3 DEF FindDef, GetDef

LEMMA CreateDefTurns == ASSUME NEW w \in Workers, TypedTasks, CreateDef(w) PROVE Turn(w)
<1>1. CASE EndTask(w)
  BY <1>1, EndTurns
<1>2. CASE \E d \in DefIds :
            work' = [work EXCEPT ![w].step = "name", ![w].def = d, ![w].expired = TRUE]
  <2>1. PICK d \in DefIds :
            work' = [work EXCEPT ![w].step = "name", ![w].def = d, ![w].expired = TRUE]
    BY <1>2
  <2>2. work' = [work EXCEPT ![w] =
                    [work[w] EXCEPT !.step = "name", !.def = d, !.expired = TRUE]]
    BY <2>1
  <2>3. work[w].step = "mkdef"
    BY DEF CreateDef, Doing
  <2> QED
    BY <2>2, <2>3, NamedTurns
<1> QED
  BY <1>1, <1>2 DEF CreateDef

LEMMA GetNameTurns == ASSUME NEW w \in Workers, TypedTasks, GetName(w) PROVE Turn(w)
<1> DEFINE r == [work[w] EXCEPT !.step = "find", !.name = name[work[w].thing]]
<1>1. work[w] \in Task /\ Alerting(work[w]) /\ work[w].thing \in Things
  BY DEF TypedTasks, ActivityTypeOK, Alerting, GetName, Shape
<1>2. name[work[w].thing] \in Names
  BY <1>1 DEF TypedTasks, ActivityTypeOK
<1>3. r \in Task /\ work' = [work EXCEPT ![w] = r]
  BY <1>1, <1>2 DEF Task, GetName
<1>4. /\ r.kind = work[w].kind /\ r.thing = work[w].thing /\ r.silent = work[w].silent
      /\ r.step = "find" /\ Alerting(r)
  BY <1>1 DEF Task, Alerting
<1> HIDE DEF r
<1> QED
  BY <1>1, <1>3, <1>4 DEF TypedTasks, Turn, Shape, Alerting

LEMMA FindAlertTurns == ASSUME NEW w \in Workers, TypedTasks, FindAlert(w) PROVE Turn(w)
<1>1. work[w] \in Task /\ Alerting(work[w])
  BY DEF TypedTasks, ActivityTypeOK, Alerting, FindAlert
<1>2. CASE AlertDone(w, FALSE)
  BY <1>1, <1>2, DoneTurns
<1>3. CASE work[w].silent /\ work' = [work EXCEPT ![w].step = "insert"]
  <2> DEFINE r == [work[w] EXCEPT !.step = "insert"]
  <2>1. r \in Task /\ work' = [work EXCEPT ![w] = r]
    BY <1>1, <1>3 DEF Task
  <2>2. /\ r.kind = work[w].kind /\ r.thing = work[w].thing /\ r.silent = work[w].silent
        /\ r.step = "insert" /\ Alerting(r)
    BY <1>1 DEF Task, Alerting
  <2> HIDE DEF r
  <2> QED
    BY <1>1, <1>3, <2>1, <2>2 DEF TypedTasks, Turn, Shape, Alerting
<1>4. CASE \E a \in Active(work[w].def, work[w].name) :
              work' = [work EXCEPT ![w].step = "resolve", ![w].found = a]
  <2>1. PICK a \in AlertIds : work' = [work EXCEPT ![w].step = "resolve", ![w].found = a]
    BY <1>4 DEF Active
  <2> DEFINE r == [work[w] EXCEPT !.step = "resolve", !.found = a]
  <2>2. r \in Task /\ work' = [work EXCEPT ![w] = r]
    BY <1>1, <2>1 DEF Task
  <2>3. /\ r.kind = work[w].kind /\ r.thing = work[w].thing /\ r.silent = work[w].silent
        /\ r.step = "resolve" /\ r.found = a /\ Alerting(r)
    BY <1>1 DEF Task, Alerting
  <2> HIDE DEF r
  <2> QED
    BY <1>1, <2>2, <2>3 DEF TypedTasks, Turn, Shape, Alerting
<1> QED
  BY <1>2, <1>3, <1>4 DEF FindAlert

LEMMA CommitTurns ==
    ASSUME NEW w \in Workers, TypedTasks, InsertAlert(w) \/ ResolveAlert(w) PROVE Turn(w)
<1>1. Alerting(work[w])
  BY DEF Alerting, InsertAlert, ResolveAlert
<1>2. EndTask(w) \/ AlertDone(w, TRUE)
  BY DEF InsertAlert, ResolveAlert
<1> QED
  BY <1>1, <1>2, EndTurns, DoneTurns

LEMMA MoveTurns == ASSUME TypedTasks, NEW w \in Workers, Move(w) PROVE Turn(w)
<1>1. CASE UpdateStatus(w)
  BY <1>1, NextThingTurns DEF UpdateStatus
<1>2. CASE NameUnknown(w)
  BY <1>2, NextThingTurns, EndTurns DEF NameUnknown
<1>3. CASE Abandon(w)
  BY <1>3, EndTurns DEF Abandon
<1> QED
  BY <1>1, <1>2, <1>3, BeginSweepTurns, BeginRecordTurns, CreateConfigTurns, RecordSeenTurns,
     PickThingTurns, FindDefTurns, CreateDefTurns, GetNameTurns, FindAlertTurns, CommitTurns
     DEF Move, Advance

-----------------------------------------------------------------------------
(* The types.                                                              *)

LEMMA ChangeTyped == ASSUME TypedTasks, Change PROVE changes' \in 0 .. MaxChanges
BY BoundsAssumption DEF TypedTasks, ActivityTypeOK, Change

LEMMA ClosedTyped ==
    ASSUME NEW row \in Alert, NEW st \in {"acknowledged", "resolved", "deleted"}
    PROVE  Closed(row, st) \in Alert
BY DEF Closed, Alert, Sighting

LEMMA FreeIdTyped == FreeIds # {} => NewId \in FreeIds /\ FreeIds \subseteq AlertIds
BY DEF NewId, FreeIds

LEMMA TurnTyped ==
    ASSUME TypedTasks, NEW w \in Workers, Turn(w)
    PROVE  work' \in [Workers -> Task] /\ \A v \in Workers : Shape(work'[v])
BY DEF TypedTasks, ActivityTypeOK, Turn

\* The tables that the steps of a task write keep their types.
LEMMA MoveTypes ==
    ASSUME TypedTasks, NEW w \in Workers, Move(w)
    PROVE  ActivityTypeOK'
<1> USE DEF TypedTasks, ActivityTypeOK
<1>1. work' \in [Workers -> Task]
  BY MoveTurns, TurnTyped
<1>2. work[w] \in Task /\ Shape(work[w])
  OBVIOUS
<1>3. CASE BeginSweep(w)
  BY <1>1, <1>3 DEF BeginSweep
<1>4. CASE \E t \in Things : BeginRecord(w, t)
  <2>1. PICK t \in Things : BeginRecord(w, t)
    BY <1>4
  <2>2. pending' \in [Things -> 0 .. MaxPending]
    <3>1. pending[t] - 1 \in 0 .. MaxPending
      BY <2>1, BoundsAssumption DEF BeginRecord
    <3> QED
      BY <2>1, <3>1 DEF BeginRecord
  <2> QED
    BY <1>1, <2>1, <2>2 DEF BeginRecord
<1>5. CASE CreateConfig(w)
  <2>1. changes' \in 0 .. MaxChanges
    BY <1>5, ChangeTyped DEF CreateConfig
  <2>2. config' \in [Things -> Config]
    <3>1. CASE UNCHANGED config
      BY <3>1
    <3>2. CASE \E b \in BOOLEAN : config' = [config EXCEPT ![work[w].thing] =
                                           [NoConfig EXCEPT !.exists = TRUE, !.track = b]]
      BY <3>2, ConfigTyped
    <3> QED
      BY <1>5, <3>1, <3>2 DEF CreateConfig
  <2> QED
    BY <1>1, <1>5, <2>1, <2>2 DEF CreateConfig
<1>6. CASE RecordSeen(w)
  <2>1. config' \in [Things -> Config]
    BY <1>6 DEF RecordSeen, Config, Sighting
  <2> QED
    BY <1>1, <1>6, <2>1 DEF RecordSeen
<1>7. CASE FindDef(w) \/ PickThing(w) \/ GetDef(w) \/ GetName(w) \/ FindAlert(w)
  BY <1>1, <1>7 DEF FindDef, PickThing, GetDef, GetName, FindAlert
<1>8. CASE CreateDef(w)
  BY <1>1, <1>8 DEF CreateDef
<1>9. CASE InsertAlert(w)
  <2>1. CASE UNCHANGED alert
    BY <1>1, <1>9, <2>1 DEF InsertAlert
  <2>2. CASE FreeIds # {} /\ alert' = [alert EXCEPT ![NewId] =
                [def |-> work[w].def, name |-> work[w].name, last |-> work[w].last,
                 status |-> "active"]]
    <3>1. [def |-> work[w].def, name |-> work[w].name, last |-> work[w].last,
                 status |-> "active"] \in Alert
      BY <1>2 DEF Task, Alert
    <3>2. alert' \in [AlertIds -> Alert]
      BY <2>2, <3>1, FreeIdTyped
    <3> QED
      BY <1>1, <1>9, <3>2 DEF InsertAlert
  <2> QED
    BY <1>9, <2>1, <2>2 DEF InsertAlert
<1>10. CASE ResolveAlert(w)
  <2>1. CASE alert' = [alert EXCEPT ![work[w].found] = Closed(@, "resolved")]
    <3>1. work[w].found \in AlertIds
      BY <1>2, <1>10 DEF ResolveAlert, Shape
    <3>2. Closed(alert[work[w].found], "resolved") \in Alert
      BY <3>1, ClosedTyped
    <3>3. alert' \in [AlertIds -> Alert]
      BY <2>1, <3>2
    <3> QED
      BY <1>1, <1>10, <3>3 DEF ResolveAlert
  <2>2. CASE UNCHANGED alert
    BY <1>1, <1>10, <2>2 DEF ResolveAlert
  <2> QED
    BY <1>10, <2>1, <2>2 DEF ResolveAlert
<1>11. CASE UpdateStatus(w)
  <2>1. changes' \in 0 .. MaxChanges
    BY <1>11, ChangeTyped DEF UpdateStatus
  <2>2. status' \in [Things -> {"active", "inactive"}]
    BY <1>11 DEF UpdateStatus
  <2> QED
    BY <1>1, <1>11, <2>1, <2>2 DEF UpdateStatus
<1>12. CASE NameUnknown(w) \/ Abandon(w)
  BY <1>1, <1>12, ChangeTyped DEF NameUnknown, Abandon
<1> QED
  BY <1>3, <1>4, <1>5, <1>6, <1>7, <1>8, <1>9, <1>10, <1>11, <1>12 DEF Move, Advance

LEMMA EditTypes ==
    ASSUME TypedTasks,
           \/ Tick
           \/ \E t \in Things : DataParsed(t) \/ update_activity_config(t)
                                \/ rename_thing(t) \/ trigger_thing_qaqc(t)
           \/ \E d \in DefIds : edit_alert_definition(d) \/ delete_alert_definition(d)
           \/ \E a \in AlertIds : acknowledge_alert(a)
    PROVE  TypedTasks'
<1>1. UNCHANGED work
  BY DEF Tick, DataParsed, update_activity_config, rename_thing, trigger_thing_qaqc,
         edit_alert_definition, delete_alert_definition, acknowledge_alert
<1>2. ActivityTypeOK'
  <2> USE DEF TypedTasks, ActivityTypeOK
  <2>1. CASE Tick
    BY <2>1, BoundsAssumption DEF Tick, Time
  <2>2. ASSUME NEW t \in Things, DataParsed(t) \/ trigger_thing_qaqc(t) PROVE ActivityTypeOK'
    <3>1. PICK n \in 0 .. 2 : /\ pending[t] + n <= MaxPending
                              /\ pending' = [pending EXCEPT ![t] = @ + n]
      BY <2>2 DEF DataParsed, trigger_thing_qaqc, Deliver
    <3>2. pending[t] + n \in 0 .. MaxPending
      BY <3>1, BoundsAssumption
    <3> QED
      BY <2>2, <3>1, <3>2, ChangeTyped DEF DataParsed, trigger_thing_qaqc
  <2>3. ASSUME NEW t \in Things, update_activity_config(t) PROVE ActivityTypeOK'
    <3>1. PICK b \in BOOLEAN, h \in Thresholds :
             config' = [config EXCEPT ![t] = [@ EXCEPT !.exists = TRUE, !.track = b, !.thr = h]]
      BY <2>3 DEF update_activity_config
    <3>2. [config[t] EXCEPT !.exists = TRUE, !.track = b, !.thr = h] \in Config
      BY DEF Config
    <3>3. config' \in [Things -> Config]
      BY <3>1, <3>2
    <3> QED
      BY <2>3, <3>3, ChangeTyped DEF update_activity_config
  <2>4. ASSUME NEW t \in Things, rename_thing(t) PROVE ActivityTypeOK'
    BY <2>4, ChangeTyped DEF rename_thing
  <2>5. ASSUME NEW d \in DefIds, edit_alert_definition(d) PROVE ActivityTypeOK'
    BY <2>5, ChangeTyped DEF edit_alert_definition
  <2>6. ASSUME NEW d \in DefIds, delete_alert_definition(d) PROVE ActivityTypeOK'
    <3>1. alert' \in [AlertIds -> Alert]
      BY <2>6, ClosedTyped DEF delete_alert_definition
    <3> QED
      BY <2>6, <3>1, ChangeTyped DEF delete_alert_definition
  <2>7. ASSUME NEW a \in AlertIds, acknowledge_alert(a) PROVE ActivityTypeOK'
    <3>1. alert' \in [AlertIds -> Alert]
      BY <2>7, ClosedTyped DEF acknowledge_alert
    <3> QED
      BY <2>7, <3>1, ChangeTyped DEF acknowledge_alert
  <2> QED
    BY <2>1, <2>2, <2>3, <2>4, <2>5, <2>6, <2>7
<1> QED
  BY <1>1, <1>2 DEF TypedTasks

LEMMA ActivityStarts == ActivityInit => TypedTasks
<1> SUFFICES ASSUME ActivityInit PROVE TypedTasks
  OBVIOUS
<1>1. work \in [Workers -> Task] /\ \A w \in Workers : Shape(work[w])
  BY NoTaskTyped DEF ActivityInit
<1>2. name \in [Things -> Names]
  BY ThingsAssumption DEF ActivityInit
<1>3. config \in [Things -> Config]
  BY ConfigTyped DEF ActivityInit
<1>4. alert \in [AlertIds -> Alert]
  BY DEF ActivityInit, UnusedAlert, Alert, Sighting
<1>5. clock \in Time /\ changes \in 0 .. MaxChanges /\ pending \in [Things -> 0 .. MaxPending]
  BY BoundsAssumption DEF ActivityInit, Time
<1>6. /\ status \in [Things -> {"active", "inactive"}]
      /\ def \in [DefIds -> {"absent", "named", "renamed"}]
  BY DEF ActivityInit
<1> QED
  BY <1>1, <1>2, <1>3, <1>4, <1>5, <1>6 DEF TypedTasks, ActivityTypeOK

LEMMA NextTyped == TypedTasks /\ [ActivityNext]_activityVars => TypedTasks'
<1> SUFFICES ASSUME TypedTasks, [ActivityNext]_activityVars PROVE TypedTasks'
  OBVIOUS
<1>1. CASE UNCHANGED activityVars
  BY <1>1 DEF activityVars, TypedTasks, ActivityTypeOK
<1>2. ASSUME NEW w \in Workers, Move(w) PROVE TypedTasks'
  BY <1>2, MoveTypes, MoveTurns, TurnTyped DEF TypedTasks
<1> QED
  BY <1>1, <1>2, EditTypes DEF ActivityNext, Move

\* Whatever tasks, users and failures do, every table, queue and task stays well
\* formed: a task at a step about an alert has the sensor that the alert is about,
\* and only a sweep that found its sensor silent comes to insert one.
THEOREM ActivityTypesHold == ActivitySpec => []ActivityTypeOK
<1>1. ActivitySpec => []TypedTasks
  BY ActivityStarts, NextTyped, PTL DEF ActivitySpec
<1>2. TypedTasks => ActivityTypeOK
  BY DEF TypedTasks
<1> QED
  BY <1>1, <1>2, PTL

-----------------------------------------------------------------------------
(* The tasks implement the alarm.                                          *)

\* One worker; sensors with names of their own, which they keep; one threshold;
\* and a definition that only tasks make and only its deletion unmakes.
Undisturbed ==
    /\ \A v, w \in Workers : v = w
    /\ \A t, u \in Things : Name0[t] = Name0[u] => t = u
    /\ \A g, h \in Thresholds : g = h
    /\ Edits \cap {"definition", "rename"} = {}

IsUp(a) == alert[a].status = "active"

\* Late(a, n): at time n, what a reports was longer ago than the threshold.
Late(a, n) == alert[a].last = Never \/ \A h \in Thresholds : n - alert[a].last > h

\* The time by which a task judges.
Now(r) == IF r.kind = "sweep" THEN r.now ELSE clock

\* What a task has read still holds, and an alert that is up had a reason by the
\* time of every task.
UpToDate(r) ==
    /\ r.kind = "sweep" =>
          /\ r.now <= clock
          /\ \A t \in r.todo : /\ config[t].exists
                               /\ r.expired \/ r.loaded[t].seen = config[t].seen
    /\ \A a \in AlertIds : IsUp(a) => Late(a, Now(r))

\* What it has concluded about its sensor still holds.
Judged(r) ==
    /\ r.step = "seen" => config[r.thing].exists
    /\ Alerting(r) /\ r.kind = "sweep" =>
          /\ config[r.thing].exists /\ r.last = config[r.thing].seen
          /\ r.silent => Silent(config[r.thing], r.now)
    /\ Alerting(r) /\ ~r.silent =>
          \A a \in AlertIds :
             IsUp(a) /\ alert[a].name = Name0[r.thing] => alert[a].last # config[r.thing].seen

\* What it has looked up is still what there is.
Found(r) ==
    /\ r.step = "mkdef" => NamedDefs = {}
    /\ r.step \in {"name", "find", "insert", "resolve"} =>
          r.def \in DefIds /\ NamedDefs \subseteq {r.def}
    /\ r.step \in {"find", "insert", "resolve"} => r.name = Name0[r.thing]
    /\ r.step = "insert" => \A a \in AlertIds : IsUp(a) => alert[a].name # r.name
    /\ r.step = "resolve" => ~r.silent /\ (IsUp(r.found) => alert[r.found].name = r.name)

Informed(r) == UpToDate(r) /\ Judged(r) /\ Found(r)

\* The tables: a sensor without a config was never seen, one definition has the
\* name, and it has at most one active alert of each sensor.
Orderly ==
    /\ name = Name0
    /\ \A t \in Things : ~config[t].exists => config[t].seen = Never
    /\ \A d \in DefIds : def[d] # "renamed"
    /\ \A d, e \in NamedDefs : d = e
    /\ \A a \in AlertIds : IsUp(a) => alert[a].def \in NamedDefs
    /\ \A a, b \in AlertIds : IsUp(a) /\ IsUp(b) /\ alert[a].name = alert[b].name => a = b

Truthful == Orderly /\ \A w \in Workers : Informed(work[w])

ActivityInv == TypedTasks /\ Truthful

\* The only worker does what it does to its own task; nobody else has one.
LEMMA SoleTurn ==
    ASSUME Undisturbed, TypedTasks, NEW w \in Workers, NEW r, work' = [work EXCEPT ![w] = r],
           Informed(r)'
    PROVE  (\A v \in Workers : Informed(work[v]))'
<1>1. work'[w] = r
  BY DEF TypedTasks, ActivityTypeOK
<1>2. \A v \in Workers : v = w
  BY DEF Undisturbed
<1> QED
  BY <1>1, <1>2

\* Whatever neither reads nor changes what tasks are informed of.
LEMMA SameTables ==
    ASSUME UNCHANGED <<clock, name, config, def, alert>>, Orderly
    PROVE  Orderly' /\ \A r : Informed(r) => Informed(r)'
BY DEF Orderly, Informed, UpToDate, Judged, Found, IsUp, Late, Now, NamedDefs, Silent

\* A task that reads, and changes no table, stays informed.
LEMMA ReadTurn ==
    ASSUME Undisturbed, ActivityInv, UNCHANGED <<clock, name, config, def, alert>>,
           NEW w \in Workers, NEW r, work' = [work EXCEPT ![w] = r], Informed(r)
    PROVE  Truthful'
<1>1. Orderly' /\ Informed(r)'
  BY SameTables DEF ActivityInv, Truthful
<1> QED
  BY <1>1, SoleTurn DEF ActivityInv, Truthful

LEMMA LateByNow ==
    ASSUME ActivityInv, NEW w \in Workers, NEW a \in AlertIds, IsUp(a)
    PROVE  Late(a, clock)
<1>1. Late(a, Now(work[w])) /\ (work[w].kind = "sweep" => work[w].now <= clock)
  BY DEF ActivityInv, Truthful, Informed, UpToDate
<1>2. clock \in Int /\ work[w].now \in Int
  BY BoundsAssumption DEF ActivityInv, TypedTasks, ActivityTypeOK, Task, Time
<1>3. alert[a].last \in Int /\ Thresholds \subseteq Int
  BY BoundsAssumption DEF ActivityInv, TypedTasks, ActivityTypeOK, Alert, Sighting, Time, Never
<1>4. Now(work[w]) \in Int /\ Now(work[w]) <= clock
  BY <1>1, <1>2 DEF Now
<1>5. ASSUME NEW h \in Thresholds, Now(work[w]) - alert[a].last > h
      PROVE  clock - alert[a].last > h
  BY <1>2, <1>3, <1>4, <1>5
<1> QED
  BY <1>1, <1>5 DEF Late

LEMMA EndInformed == ASSUME ActivityInv, NEW w \in Workers PROVE Informed(NoTask)
<1>1. NoTask.kind = "none" /\ NoTask.step = "idle"
  BY DEF NoTask
<1>2. UpToDate(NoTask)
  BY <1>1, LateByNow DEF UpToDate, Now
<1> HIDE DEF NoTask
<1> QED
  BY <1>1, <1>2 DEF Informed, Judged, Found, Alerting

LEMMA EndTruthful ==
    ASSUME Undisturbed, ActivityInv, UNCHANGED <<clock, name, config, def, alert>>,
           NEW w \in Workers, EndTask(w)
    PROVE  Truthful'
BY EndInformed, ReadTurn DEF EndTask

\* A sweep between two sensors.
LEMMA RestInformed ==
    ASSUME NEW r, r.kind = "sweep", r.step \in {"pick", "status"}, UpToDate(r)
    PROVE  Informed(r)
BY DEF Informed, Judged, Found, Alerting

LEMMA NextThingTruthful ==
    ASSUME Undisturbed, ActivityInv, UNCHANGED <<clock, name, config, def, alert>>,
           NEW w \in Workers, work[w].kind = "sweep", NextThing(w)
    PROVE  Truthful'
<1>1. CASE work[w].todo = {}
  <2>1. EndTask(w)
    BY <1>1 DEF NextThing, EndTask
  <2> QED
    BY <2>1, EndTruthful
<1>2. CASE work[w].todo # {}
  <2> DEFINE loaded == IF work[w].expired THEN [t \in Things |-> NoConfig] ELSE work[w].loaded
             r == [NoTask EXCEPT !.kind = "sweep", !.step = "pick", !.todo = work[w].todo,
                                 !.now = work[w].now, !.expired = work[w].expired,
                                 !.loaded = loaded]
  <2>1. work' = [work EXCEPT ![w] = r]
    BY <1>2 DEF NextThing, NoTask
  <2> HIDE DEF loaded
  <2>2. /\ r.kind = "sweep" /\ r.step = "pick" /\ r.todo = work[w].todo /\ r.now = work[w].now
        /\ r.expired = work[w].expired /\ r.loaded = loaded
    BY NoTaskTyped DEF Task
  <2> HIDE DEF r
  <2>3. UpToDate(r)
    BY <2>2 DEF loaded, ActivityInv, Truthful, Informed, UpToDate, Now
  <2> QED
    BY <2>1, <2>2, <2>3, RestInformed, ReadTurn
<1> QED
  BY <1>1, <1>2

\* A task that is done with the alert.
LEMMA DoneInformed ==
    ASSUME ActivityInv, NEW w \in Workers, Alerting(work[w]), NEW b \in BOOLEAN, AlertDone(w, b)
    PROVE  \E r : /\ work' = [work EXCEPT ![w] = r]
                  /\ Informed(r) /\ r.step \in {"idle", "status"}
                  /\ r.kind = "sweep" => work[w].kind = "sweep" /\ r.now = work[w].now
<1>1. CASE work[w].kind = "record"
  <2>1. NoTask.kind = "none" /\ NoTask.step = "idle"
    BY DEF NoTask
  <2> QED
    BY <1>1, <2>1, EndInformed DEF AlertDone, EndTask
<1>2. CASE work[w].kind # "record"
  <2> DEFINE e == work[w].expired \/ b
             r == [work[w] EXCEPT !.step = "status", !.found = NoAlert, !.expired = e]
  <2>1. work' = [work EXCEPT ![w] = r]
    BY <1>2 DEF AlertDone
  <2>2. work[w] \in Task /\ work[w].kind = "sweep"
    BY <1>2 DEF ActivityInv, TypedTasks, ActivityTypeOK, Shape
  <2>3. /\ r.kind = "sweep" /\ r.step = "status" /\ r.todo = work[w].todo
        /\ r.now = work[w].now /\ r.loaded = work[w].loaded /\ r.expired = e
    BY <2>2 DEF Task
  <2> HIDE DEF r
  <2>4. UpToDate(r)
    BY <2>2, <2>3 DEF ActivityInv, Truthful, Informed, UpToDate, Now
  <2> QED
    BY <2>1, <2>2, <2>3, <2>4, RestInformed
<1> QED
  BY <1>1, <1>2

LEMMA BeginTruthful ==
    ASSUME Undisturbed, ActivityInv, NEW w \in Workers,
           BeginSweep(w) \/ \E t \in Things : BeginRecord(w, t)
    PROVE  Truthful'
<1>1. CASE BeginSweep(w)
  <2> DEFINE todo == {t \in Things : config[t].exists /\ config[t].track}
             loaded == [t \in Things |-> IF t \in todo THEN config[t] ELSE NoConfig]
             r == [NoTask EXCEPT !.kind = "sweep", !.step = "pick", !.todo = todo, !.now = clock,
                                 !.loaded = loaded]
  <2>1. work' = [work EXCEPT ![w] = r]
    BY <1>1 DEF BeginSweep
  <2>2. \A t \in todo : config[t].exists /\ loaded[t].seen = config[t].seen
    OBVIOUS
  <2> HIDE DEF todo, loaded
  <2>3. r.kind = "sweep" /\ r.step = "pick" /\ r.todo = todo /\ r.now = clock /\ r.loaded = loaded
    BY NoTaskTyped DEF Task
  <2> HIDE DEF r
  <2>4. UpToDate(r)
    <3>1. clock \in Int
      BY BoundsAssumption DEF ActivityInv, TypedTasks, ActivityTypeOK, Time
    <3> QED
      BY <2>2, <2>3, <3>1, LateByNow DEF UpToDate, Now
  <2> QED
    BY <1>1, <2>1, <2>3, <2>4, RestInformed, ReadTurn DEF BeginSweep
<1>2. ASSUME NEW t \in Things, BeginRecord(w, t) PROVE Truthful'
  <2> DEFINE s == IF config[t].exists THEN "seen" ELSE "create"
             r == [NoTask EXCEPT !.kind = "record", !.thing = t, !.step = s]
  <2>1. work' = [work EXCEPT ![w] = r]
    BY <1>2 DEF BeginRecord
  <2>2. (s = "seen" /\ config[t].exists) \/ s = "create"
    OBVIOUS
  <2> HIDE DEF s
  <2>3. r.kind = "record" /\ r.step = s /\ r.thing = t
    BY NoTaskTyped DEF Task
  <2> HIDE DEF r
  <2>4. Informed(r)
    BY <2>2, <2>3, LateByNow DEF Informed, UpToDate, Judged, Found, Alerting, Now
  <2> QED
    BY <1>2, <2>1, <2>4, ReadTurn DEF BeginRecord
<1> QED
  BY <1>1, <1>2

\* The definition a task has found is the only one.
LEMMA DefInformed ==
    ASSUME ActivityInv, NEW w \in Workers, work[w].step = "def", NEW d \in NamedDefs
    PROVE  Informed([work[w] EXCEPT !.step = "name", !.def = d])
<1> DEFINE r == [work[w] EXCEPT !.step = "name", !.def = d]
<1>1. work[w] \in Task /\ Informed(work[w])
  BY DEF ActivityInv, TypedTasks, ActivityTypeOK, Truthful
<1>2. /\ r.step = "name" /\ r.def = d /\ r.kind = work[w].kind /\ r.thing = work[w].thing
      /\ r.todo = work[w].todo /\ r.loaded = work[w].loaded /\ r.expired = work[w].expired
      /\ r.now = work[w].now /\ r.silent = work[w].silent /\ r.last = work[w].last
  BY <1>1 DEF Task
<1>3. NamedDefs \subseteq {d} /\ d \in DefIds
  BY DEF ActivityInv, Truthful, Orderly, NamedDefs
<1> HIDE DEF r
<1>4. Informed(r)
  BY <1>1, <1>2, <1>3 DEF Informed, UpToDate, Judged, Found, Alerting, Now
<1> QED
  BY <1>4 DEF r

LEMMA FindDefTruthful ==
    ASSUME Undisturbed, ActivityInv, NEW w \in Workers, FindDef(w) \/ GetDef(w) PROVE Truthful'
<1>1. CASE EndTask(w)
  BY <1>1, EndTruthful DEF FindDef, GetDef
<1>2. CASE \E d \in NamedDefs : work' = [work EXCEPT ![w].step = "name", ![w].def = d]
  <2>1. PICK d \in NamedDefs : work' = [work EXCEPT ![w].step = "name", ![w].def = d]
    BY <1>2
  <2>2. work' = [work EXCEPT ![w] = [work[w] EXCEPT !.step = "name", !.def = d]]
    BY <2>1
  <2>3. work[w].step = "def"
    BY DEF FindDef, GetDef, Doing
  <2> QED
    BY <2>2, <2>3, DefInformed, ReadTurn DEF FindDef, GetDef
<1>3. CASE GetDef(w) /\ NamedDefs = {} /\ work' = [work EXCEPT ![w].step = "mkdef"]
  <2> DEFINE r == [work[w] EXCEPT !.step = "mkdef"]
  <2>1. work[w] \in Task /\ Informed(work[w]) /\ work[w].step = "def"
    BY <1>3 DEF ActivityInv, TypedTasks, ActivityTypeOK, Truthful, GetDef, Doing
  <2>2. work' = [work EXCEPT ![w] = r]
    BY <1>3
  <2>3. /\ r.step = "mkdef" /\ r.kind = work[w].kind /\ r.thing = work[w].thing
        /\ r.todo = work[w].todo /\ r.loaded = work[w].loaded /\ r.expired = work[w].expired
        /\ r.now = work[w].now /\ r.silent = work[w].silent /\ r.last = work[w].last
    BY <2>1 DEF Task
  <2> HIDE DEF r
  <2>4. Informed(r)
    BY <1>3, <2>1, <2>3 DEF Informed, UpToDate, Judged, Found, Alerting, Now
  <2> QED
    BY <1>3, <2>2, <2>4, ReadTurn DEF GetDef
<1> QED
  BY <1>1, <1>2, <1>3 DEF FindDef, GetDef

LEMMA GetNameTruthful ==
    ASSUME Undisturbed, ActivityInv, NEW w \in Workers, GetName(w) PROVE Truthful'
<1> DEFINE r == [work[w] EXCEPT !.step = "find", !.name = name[work[w].thing]]
<1>1. work[w] \in Task /\ Informed(work[w]) /\ work[w].step = "name" /\ name = Name0
  BY DEF ActivityInv, TypedTasks, ActivityTypeOK, Truthful, Orderly, GetName
<1>2. work' = [work EXCEPT ![w] = r]
  BY DEF GetName
<1>3. /\ r.step = "find" /\ r.kind = work[w].kind /\ r.thing = work[w].thing
      /\ r.todo = work[w].todo /\ r.loaded = work[w].loaded /\ r.expired = work[w].expired
      /\ r.now = work[w].now /\ r.silent = work[w].silent /\ r.last = work[w].last
      /\ r.def = work[w].def /\ r.name = name[r.thing]
  BY <1>1 DEF Task
<1> HIDE DEF r
<1>4. Informed(r)
  BY <1>1, <1>3 DEF Informed, UpToDate, Judged, Found, Alerting, Now
<1> QED
  BY <1>2, <1>4, ReadTurn DEF GetName

LEMMA FindAlertTruthful ==
    ASSUME Undisturbed, ActivityInv, NEW w \in Workers, FindAlert(w) PROVE Truthful'
<1>1. work[w] \in Task /\ Informed(work[w]) /\ work[w].step = "find" /\ Alerting(work[w])
  BY DEF ActivityInv, TypedTasks, ActivityTypeOK, Truthful, FindAlert, Alerting
<1>2. CASE AlertDone(w, FALSE)
  BY <1>1, <1>2, DoneInformed, ReadTurn DEF FindAlert
<1>3. CASE work[w].silent /\ Active(work[w].def, work[w].name) = {}
           /\ work' = [work EXCEPT ![w].step = "insert"]
  <2> DEFINE r == [work[w] EXCEPT !.step = "insert"]
  <2>1. work' = [work EXCEPT ![w] = r]
    BY <1>3
  <2>2. /\ r.step = "insert" /\ r.kind = work[w].kind /\ r.thing = work[w].thing
        /\ r.todo = work[w].todo /\ r.loaded = work[w].loaded /\ r.expired = work[w].expired
        /\ r.now = work[w].now /\ r.silent = work[w].silent /\ r.last = work[w].last
        /\ r.def = work[w].def /\ r.name = work[w].name
    BY <1>1 DEF Task
  <2> HIDE DEF r
  <2>3. \A a \in AlertIds : IsUp(a) => alert[a].def = r.def
    BY <1>1, <2>2 DEF Informed, Found, ActivityInv, Truthful, Orderly
  <2>4. \A a \in AlertIds : IsUp(a) => alert[a].name # r.name
    BY <1>3, <2>2, <2>3 DEF Active, IsUp
  <2>5. Informed(r)
    BY <1>1, <2>2, <2>4 DEF Informed, UpToDate, Judged, Found, Alerting, Now
  <2> QED
    BY <2>1, <2>5, ReadTurn DEF FindAlert
<1>4. CASE ~work[w].silent /\ \E a \in Active(work[w].def, work[w].name) :
              work' = [work EXCEPT ![w].step = "resolve", ![w].found = a]
  <2>1. PICK a \in Active(work[w].def, work[w].name) :
              work' = [work EXCEPT ![w].step = "resolve", ![w].found = a]
    BY <1>4
  <2> DEFINE r == [work[w] EXCEPT !.step = "resolve", !.found = a]
  <2>2. work' = [work EXCEPT ![w] = r]
    BY <2>1
  <2>3. /\ r.step = "resolve" /\ r.kind = work[w].kind /\ r.thing = work[w].thing
        /\ r.todo = work[w].todo /\ r.loaded = work[w].loaded /\ r.expired = work[w].expired
        /\ r.now = work[w].now /\ r.silent = work[w].silent /\ r.last = work[w].last
        /\ r.def = work[w].def /\ r.name = work[w].name /\ r.found = a
    BY <1>1 DEF Task
  <2> HIDE DEF r
  <2>4. alert[a].name = r.name /\ ~r.silent
    BY <1>4, <2>3 DEF Active
  <2>5. Informed(r)
    BY <1>1, <2>3, <2>4 DEF Informed, UpToDate, Judged, Found, Alerting, Now
  <2> QED
    BY <2>2, <2>5, ReadTurn DEF FindAlert
<1> QED
  BY <1>2, <1>3, <1>4 DEF FindAlert

\* A sweep that judges a sensor by what it has loaded judges it by what there is.
LEMMA PickThingTruthful ==
    ASSUME Undisturbed, ActivityInv, NEW w \in Workers, PickThing(w) PROVE Truthful'
<1>1. PICK t \in work[w].todo :
        LET c == IF work[w].expired THEN config[t] ELSE work[w].loaded[t] IN
        work' = [work EXCEPT ![w].step = "def", ![w].thing = t, ![w].todo = @ \ {t},
                             ![w].loaded[t] = NoConfig,
                             ![w].silent = Silent(c, work[w].now), ![w].last = c.seen]
  BY DEF PickThing
<1> DEFINE c == IF work[w].expired THEN config[t] ELSE work[w].loaded[t]
           q == Silent(c, work[w].now)
           m == [work[w].loaded EXCEPT ![t] = NoConfig]
           r == [work[w] EXCEPT !.step = "def", !.thing = t, !.todo = @ \ {t}, !.loaded = m,
                                !.silent = q, !.last = c.seen]
<1>2. work[w] \in Task /\ work[w].kind = "sweep" /\ Informed(work[w])
  BY DEF ActivityInv, TypedTasks, ActivityTypeOK, Truthful, PickThing, Doing
<1>3. t \in Things
  BY <1>2 DEF Task
<1>4. c \in Config /\ config[t] \in Config
  BY <1>2, <1>3 DEF Task, ActivityInv, TypedTasks, ActivityTypeOK
<1>5. config[t].exists /\ c.seen = config[t].seen
  BY <1>2 DEF Informed, UpToDate
<1>6. c.thr = config[t].thr
  BY <1>4 DEF Config, Undisturbed
<1>7. q <=> Silent(config[t], work[w].now)
  BY <1>5, <1>6 DEF Silent
<1>8. work' = [work EXCEPT ![w].step = "def", ![w].thing = t, ![w].todo = @ \ {t},
                           ![w].loaded[t] = NoConfig, ![w].silent = q, ![w].last = c.seen]
  BY <1>1
<1> HIDE DEF c, q
<1>9. work' = [work EXCEPT ![w] = r]
  BY <1>8, <1>2 DEF ActivityInv, TypedTasks, ActivityTypeOK, Task
<1>10. \A u \in work[w].todo \ {t} : m[u] = work[w].loaded[u]
  BY <1>2 DEF Task
<1> HIDE DEF m
<1>11. /\ r.step = "def" /\ r.kind = "sweep" /\ r.thing = t /\ r.todo = work[w].todo \ {t}
       /\ r.loaded = m /\ r.expired = work[w].expired /\ r.now = work[w].now
       /\ r.silent = q /\ r.last = c.seen
  BY <1>2 DEF Task
<1> HIDE DEF r
<1>12. UpToDate(r)
  BY <1>2, <1>10, <1>11 DEF Informed, UpToDate, Now
<1>13. ASSUME ~q, NEW a \in AlertIds, IsUp(a) PROVE alert[a].last # config[t].seen
  <2>1. Late(a, work[w].now)
    BY <1>2, <1>13 DEF Informed, UpToDate, Now
  <2>2. config[t].seen # Never /\ ~(work[w].now - config[t].seen > config[t].thr)
    BY <1>7, <1>13 DEF Silent
  <2>3. config[t].thr \in Thresholds
    BY <1>4 DEF Config
  <2> QED
    BY <2>1, <2>2, <2>3 DEF Late
<1>14. Judged(r)
  BY <1>5, <1>7, <1>11, <1>13 DEF Judged, Alerting
<1>15. Informed(r)
  BY <1>11, <1>12, <1>14 DEF Informed, Found
<1> QED
  BY <1>9, <1>15, ReadTurn DEF PickThing

LEMMA CreateConfigTruthful ==
    ASSUME Undisturbed, ActivityInv, NEW w \in Workers, CreateConfig(w) PROVE Truthful'
<1>1. CASE EndTask(w) /\ UNCHANGED config
  BY <1>1, EndTruthful DEF CreateConfig
<1>2. CASE /\ ~config[work[w].thing].exists
           /\ \E b \in BOOLEAN : config' = [config EXCEPT ![work[w].thing] =
                                           [NoConfig EXCEPT !.exists = TRUE, !.track = b]]
           /\ work' = [work EXCEPT ![w].step = "seen"]
  <2> DEFINE t == work[w].thing
  <2>0. PICK r : r = [work[w] EXCEPT !.step = "seen"]
    OBVIOUS
  <2>1. work[w] \in Task /\ Informed(work[w]) /\ work[w].kind = "record" /\ t \in Things
    BY DEF ActivityInv, TypedTasks, ActivityTypeOK, Truthful, CreateConfig, Doing, Shape
  <2>2. PICK b \in BOOLEAN : config' = [config EXCEPT ![t] =
                                           [NoConfig EXCEPT !.exists = TRUE, !.track = b]]
    BY <1>2
  <2>3. config'[t].exists /\ \A u \in Things \ {t} : config'[u] = config[u]
    BY <2>1, <2>2 DEF NoConfig, ActivityInv, TypedTasks, ActivityTypeOK
  <2>4. /\ r.kind = "record" /\ r.step = "seen" /\ r.thing = t
        /\ work' = [work EXCEPT ![w] = r]
    BY <1>2, <2>0, <2>1 DEF Task
  <2>5. Informed(r)'
    BY <2>3, <2>4, LateByNow DEF Informed, UpToDate, Judged, Found, Alerting, Now, IsUp, Late,
                                 CreateConfig
  <2>6. Orderly'
    BY <2>1, <2>3 DEF ActivityInv, Truthful, Orderly, IsUp, NamedDefs, CreateConfig
  <2> QED
    BY <2>4, <2>5, <2>6, SoleTurn DEF ActivityInv, Truthful
<1> QED
  BY <1>1, <1>2 DEF CreateConfig

\* A sighting is later than whatever an active alert reports.
LEMMA RecordSeenTruthful ==
    ASSUME Undisturbed, ActivityInv, NEW w \in Workers, RecordSeen(w) PROVE Truthful'
<1> DEFINE t == work[w].thing
<1>0. PICK r : r = [work[w] EXCEPT !.step = "def"]
  OBVIOUS
<1>1. work[w] \in Task /\ Informed(work[w]) /\ work[w].kind = "record" /\ t \in Things
  BY DEF ActivityInv, TypedTasks, ActivityTypeOK, Truthful, RecordSeen, Doing, Shape
<1>2. config[t].exists
  BY <1>1 DEF Informed, Judged, RecordSeen, Doing
<1>3. /\ config'[t].seen = clock /\ config'[t].exists
      /\ \A u \in Things \ {t} : config'[u] = config[u]
  BY <1>1, <1>2 DEF RecordSeen, ActivityInv, TypedTasks, ActivityTypeOK, Config
<1>4. /\ r.kind = "record" /\ r.step = "def" /\ r.thing = t
      /\ work' = [work EXCEPT ![w] = r]
  BY <1>0, <1>1 DEF Task, RecordSeen
<1>5. ASSUME NEW a \in AlertIds, IsUp(a) PROVE alert[a].last # clock
  <2>1. Late(a, clock) /\ clock \in Nat
    BY <1>5, LateByNow, BoundsAssumption DEF ActivityInv, TypedTasks, ActivityTypeOK, Time
  <2>2. \E h \in Thresholds : h \in Nat
    BY BoundsAssumption
  <2> QED
    BY <2>1, <2>2 DEF Late, Never
<1>6. Informed(r)'
  BY <1>3, <1>4, <1>5, LateByNow DEF Informed, UpToDate, Judged, Found, Alerting, Now, IsUp,
                                    Late, RecordSeen
<1>7. Orderly'
  BY <1>1, <1>3 DEF ActivityInv, Truthful, Orderly, IsUp, NamedDefs, RecordSeen
<1> QED
  BY <1>4, <1>6, <1>7, SoleTurn DEF ActivityInv, Truthful

LEMMA CreateDefTruthful ==
    ASSUME Undisturbed, ActivityInv, NEW w \in Workers, CreateDef(w) PROVE Truthful'
<1>1. CASE EndTask(w) /\ UNCHANGED def
  BY <1>1, EndTruthful DEF CreateDef
<1>2. ASSUME NEW d \in DefIds, def[d] = "absent", def' = [def EXCEPT ![d] = "named"],
             work' = [work EXCEPT ![w].step = "name", ![w].def = d, ![w].expired = TRUE]
      PROVE  Truthful'
  <2>0. PICK r : r = [work[w] EXCEPT !.step = "name", !.def = d, !.expired = TRUE]
    OBVIOUS
  <2>1. work[w] \in Task /\ Informed(work[w]) /\ work[w].kind = "sweep" /\ work[w].step = "mkdef"
    BY DEF ActivityInv, TypedTasks, ActivityTypeOK, Truthful, CreateDef, Doing
  <2>2. NamedDefs = {} /\ NamedDefs' = {d}
    BY <1>2, <2>1 DEF Informed, Found, NamedDefs, ActivityInv, TypedTasks, ActivityTypeOK
  <2>3. \A a \in AlertIds : ~IsUp(a)
    BY <2>2 DEF ActivityInv, Truthful, Orderly
  <2>4. \A e \in DefIds : def'[e] # "renamed"
    BY <1>2 DEF ActivityInv, Truthful, Orderly, TypedTasks, ActivityTypeOK
  <2>5. work' = [work EXCEPT ![w] = r]
    BY <1>2, <2>0
  <2>6. /\ r.step = "name" /\ r.kind = "sweep" /\ r.thing = work[w].thing
        /\ r.todo = work[w].todo /\ r.expired /\ r.now = work[w].now
        /\ r.silent = work[w].silent /\ r.last = work[w].last /\ r.def = d
    BY <2>0, <2>1 DEF Task
  <2>7. UNCHANGED <<clock, name, config, alert>>
    BY DEF CreateDef
  <2>8. Orderly'
    BY <2>2, <2>3, <2>4, <2>7 DEF ActivityInv, Truthful, Orderly, IsUp
  <2>9. Informed(r)'
    BY <2>1, <2>2, <2>3, <2>6, <2>7 DEF Informed, UpToDate, Judged, Found, Alerting, Now, IsUp,
                                        Silent
  <2> QED
    BY <2>5, <2>8, <2>9, SoleTurn DEF ActivityInv, Truthful
<1> QED
  BY <1>1, <1>2 DEF CreateDef

\* Alerts that are closed, and a definition that goes with its own, mislead no task.
LEMMA FewerAlerts ==
    ASSUME Orderly, UNCHANGED <<clock, name, config>>, NamedDefs' \subseteq NamedDefs,
           \A d \in DefIds : def'[d] # "renamed",
           \A a \in AlertIds : alert'[a].status = "active" =>
               IsUp(a) /\ alert'[a] = alert[a] /\ alert[a].def \in NamedDefs'
    PROVE  /\ Orderly'
           /\ \A r : (r.step = "resolve" => r.found \in AlertIds) => (Informed(r) => Informed(r)')
<1>1. Orderly'
  BY DEF Orderly, IsUp
<1>2. ASSUME NEW r, r.step = "resolve" => r.found \in AlertIds, Informed(r) PROVE Informed(r)'
  <2>1. UpToDate(r)'
    BY <1>2 DEF Informed, UpToDate, Now, Late, IsUp
  <2>2. Judged(r)'
    BY <1>2 DEF Informed, Judged, Alerting, IsUp, Silent
  <2>3. Found(r)'
    BY <1>2 DEF Informed, Found, IsUp
  <2> QED
    BY <2>1, <2>2, <2>3 DEF Informed
<1> QED
  BY <1>1, <1>2

LEMMA ResolveAlertTruthful ==
    ASSUME Undisturbed, ActivityInv, NEW w \in Workers, ResolveAlert(w) PROVE Truthful'
<1>1. CASE EndTask(w) /\ UNCHANGED alert
  BY <1>1, EndTruthful DEF ResolveAlert
<1>2. CASE /\ alert' = [alert EXCEPT ![work[w].found] = Closed(@, "resolved")]
           /\ AlertDone(w, TRUE)
  <2>1. Alerting(work[w])
    BY DEF ResolveAlert, Alerting
  <2>2. PICK r : /\ work' = [work EXCEPT ![w] = r]
                 /\ Informed(r) /\ r.step \in {"idle", "status"}
    BY <1>2, <2>1, DoneInformed
  <2>3. ASSUME NEW a \in AlertIds, alert'[a].status = "active"
        PROVE  IsUp(a) /\ alert'[a] = alert[a]
    BY <1>2, <2>3 DEF IsUp, Closed, ActivityInv, TypedTasks, ActivityTypeOK, Alert
  <2>4. NamedDefs' = NamedDefs /\ UNCHANGED <<clock, name, config, def>>
    BY DEF ResolveAlert, NamedDefs
  <2>5. Orderly' /\ Informed(r)'
    BY <2>2, <2>3, <2>4, FewerAlerts DEF ActivityInv, Truthful, Orderly
  <2> QED
    BY <2>2, <2>5, SoleTurn DEF ActivityInv, Truthful
<1> QED
  BY <1>1, <1>2 DEF ResolveAlert

\* What a sweep inserts: the only active alert of its sensor, under the only
\* definition, of a sighting that was too long ago when the sweep began.
LEMMA NewAlert ==
    ASSUME Undisturbed, ActivityInv, NEW w \in Workers, work[w].step = "insert",
           def[work[w].def] # "absent"
    PROVE  /\ work[w].kind = "sweep" /\ work[w].thing \in Things
           /\ config[work[w].thing].exists /\ work[w].last = config[work[w].thing].seen
           /\ Silent(config[work[w].thing], work[w].now)
           /\ work[w].name = Name0[work[w].thing]
           /\ work[w].def \in NamedDefs
           /\ \A a \in AlertIds : IsUp(a) => alert[a].name # work[w].name
<1>1. work[w] \in Task /\ Shape(work[w]) /\ Informed(work[w])
  BY DEF ActivityInv, TypedTasks, ActivityTypeOK, Truthful
<1>2. work[w].silent /\ work[w].kind = "sweep" /\ work[w].thing \in Things /\ Alerting(work[w])
  BY <1>1 DEF Shape, Alerting
<1>3. work[w].def \in DefIds /\ def[work[w].def] # "renamed"
  BY <1>1 DEF Informed, Found, ActivityInv, Truthful, Orderly
<1>4. work[w].def \in NamedDefs
  BY <1>3 DEF NamedDefs, ActivityInv, TypedTasks, ActivityTypeOK
<1> QED
  BY <1>1, <1>2, <1>4 DEF Informed, Judged, Found

LEMMA InsertAlertTruthful ==
    ASSUME Undisturbed, ActivityInv, NEW w \in Workers, InsertAlert(w) PROVE Truthful'
<1>1. CASE EndTask(w) /\ UNCHANGED alert
  BY <1>1, EndTruthful DEF InsertAlert
<1>2. CASE /\ def[work[w].def] # "absent" /\ FreeIds # {} /\ AlertDone(w, TRUE)
           /\ alert' = [alert EXCEPT ![NewId] =
                [def |-> work[w].def, name |-> work[w].name, last |-> work[w].last,
                 status |-> "active"]]
  <2> DEFINE c == config[work[w].thing]
  <2>1. Alerting(work[w]) /\ work[w].step = "insert" /\ work[w] \in Task
    BY DEF InsertAlert, Alerting, ActivityInv, TypedTasks, ActivityTypeOK
  <2>2. PICK r : /\ work' = [work EXCEPT ![w] = r]
                 /\ Informed(r) /\ r.step \in {"idle", "status"}
                 /\ r.kind = "sweep" => work[w].kind = "sweep" /\ r.now = work[w].now
    BY <1>2, <2>1, DoneInformed
  <2>3. PICK b \in AlertIds : b = NewId
    BY <1>2, FreeIdTyped
  <2>4. /\ alert'[b].def = work[w].def /\ alert'[b].name = work[w].name
        /\ alert'[b].last = work[w].last /\ alert'[b].status = "active"
        /\ \A a \in AlertIds \ {b} : alert'[a] = alert[a]
    BY <1>2, <2>3 DEF ActivityInv, TypedTasks, ActivityTypeOK
  <2>5. NamedDefs' = NamedDefs /\ UNCHANGED <<clock, name, config, def>>
    BY DEF InsertAlert, NamedDefs
  <2>6. Orderly'
    BY <1>2, <2>1, <2>4, <2>5, NewAlert DEF ActivityInv, Truthful, Orderly, IsUp
  <2>7. work[w].last = Never \/ \A h \in Thresholds : work[w].now - work[w].last > h
    <3>1. c.thr \in Thresholds
      BY <1>2, <2>1, NewAlert DEF ActivityInv, TypedTasks, ActivityTypeOK, Config
    <3> QED
      BY <1>2, <2>1, <3>1, NewAlert DEF Silent, Undisturbed
  <2>8. \A n \in {work[w].now, clock} :
           alert'[b].last = Never \/ \A h \in Thresholds : n - alert'[b].last > h
    <3>1. work[w].now \in Int /\ clock \in Int /\ work[w].now <= clock
      BY <1>2, <2>1, NewAlert, BoundsAssumption
      DEF ActivityInv, TypedTasks, ActivityTypeOK, Truthful, Informed, UpToDate, Task, Time
    <3>2. work[w].last \in Int /\ Thresholds \subseteq Int
      BY <2>1, BoundsAssumption DEF Task, Sighting, Time, Never
    <3>3. work[w].last = Never \/ \A h \in Thresholds : clock - work[w].last > h
      BY <2>7, <3>1, <3>2
    <3> QED
      BY <2>4, <2>7, <3>3
  <2>9. UpToDate(r)'
    BY <2>2, <2>4, <2>5, <2>8 DEF Informed, UpToDate, Now, IsUp, Late
  <2>10. Informed(r)'
    BY <2>2, <2>9 DEF Informed, Judged, Found, Alerting
  <2> QED
    BY <2>2, <2>6, <2>10, SoleTurn DEF ActivityInv, Truthful
<1> QED
  BY <1>1, <1>2 DEF InsertAlert

LEMMA MoveTruthful ==
    ASSUME Undisturbed, ActivityInv, NEW w \in Workers, Move(w) PROVE Truthful'
<1>1. Shape(work[w])
  BY DEF ActivityInv, TypedTasks
<1>2. CASE UpdateStatus(w)
  BY <1>1, <1>2, NextThingTruthful DEF UpdateStatus, Shape
<1>3. CASE NameUnknown(w)
  BY <1>1, <1>3, NextThingTruthful, EndTruthful DEF NameUnknown, Shape, Alerting
<1>4. CASE Abandon(w)
  BY <1>4, EndTruthful DEF Abandon
<1> QED
  BY <1>2, <1>3, <1>4, BeginTruthful, CreateConfigTruthful, RecordSeenTruthful, FindDefTruthful,
     PickThingTruthful, CreateDefTruthful, GetNameTruthful, FindAlertTruthful,
     InsertAlertTruthful, ResolveAlertTruthful DEF Move, Advance

LEMMA FoundIsAlert ==
    ASSUME ActivityInv, NEW w \in Workers, work[w].step = "resolve" PROVE work[w].found \in AlertIds
BY DEF ActivityInv, TypedTasks, Shape

LEMMA TickTruthful == ASSUME ActivityInv, Tick PROVE Truthful'
<1>1. Orderly'
  BY DEF ActivityInv, Truthful, Orderly, IsUp, NamedDefs, Tick
<1>2. ASSUME NEW w \in Workers PROVE Informed(work[w])'
  <2>1. PICK r : r = work[w] /\ r = work'[w]
    BY DEF Tick
  <2>2. Informed(r) /\ r \in Task
    BY <2>1 DEF ActivityInv, Truthful, TypedTasks, ActivityTypeOK
  <2>3. clock \in Int /\ clock' = clock + 1 /\ r.now \in Int
    BY <2>2, BoundsAssumption DEF ActivityInv, TypedTasks, ActivityTypeOK, Tick, Task, Time
  <2>4. ASSUME NEW a \in AlertIds, Late(a, clock)
        PROVE  alert[a].last = Never \/ \A h \in Thresholds : clock' - alert[a].last > h
    <3>1. alert[a].last \in Int /\ Thresholds \subseteq Int
      BY BoundsAssumption DEF ActivityInv, TypedTasks, ActivityTypeOK, Alert, Sighting, Time, Never
    <3>2. ASSUME NEW h \in Thresholds, clock - alert[a].last > h
          PROVE  clock' - alert[a].last > h
      BY <2>3, <3>1, <3>2
    <3> QED
      BY <2>4, <3>2 DEF Late
  <2>5. UpToDate(r)'
    BY <2>2, <2>3, <2>4 DEF Informed, UpToDate, Now, IsUp, Late, Tick
  <2>6. Judged(r)' /\ Found(r)'
    BY <2>2 DEF Informed, Judged, Found, Alerting, IsUp, Silent, NamedDefs, Tick
  <2> QED
    BY <2>1, <2>5, <2>6 DEF Informed
<1> QED
  BY <1>1, <1>2 DEF Truthful

LEMMA ConfigEditTruthful ==
    ASSUME Undisturbed, ActivityInv, NEW t \in Things, update_activity_config(t) PROVE Truthful'
<1>1. PICK b \in BOOLEAN, h \in Thresholds :
         config' = [config EXCEPT ![t] = [@ EXCEPT !.exists = TRUE, !.track = b, !.thr = h]]
  BY DEF update_activity_config
<1>2. config[t] \in Config
  BY DEF ActivityInv, TypedTasks, ActivityTypeOK
<1>3. h = config[t].thr
  BY <1>2 DEF Config, Undisturbed
<1>4. /\ config'[t].exists /\ config'[t].seen = config[t].seen /\ config'[t].thr = config[t].thr
      /\ \A u \in Things \ {t} : config'[u] = config[u]
  BY <1>1, <1>2, <1>3 DEF ActivityInv, TypedTasks, ActivityTypeOK, Config
<1>5. \A u \in Things : /\ config'[u].seen = config[u].seen /\ config'[u].thr = config[u].thr
                        /\ config[u].exists => config'[u].exists
  BY <1>4
<1>6. UNCHANGED <<clock, name, def, alert, work>>
  BY DEF update_activity_config
<1>7. Orderly'
  BY <1>5, <1>6 DEF ActivityInv, Truthful, Orderly, IsUp, NamedDefs
<1>8. ASSUME NEW w \in Workers PROVE Informed(work[w])'
  <2>1. PICK r : r = work[w] /\ r = work'[w]
    BY <1>6
  <2>2. Informed(r) /\ r \in Task /\ Shape(r)
    BY <2>1 DEF ActivityInv, Truthful, TypedTasks, ActivityTypeOK
  <2>3. UpToDate(r)'
    <3>1. r.todo \subseteq Things
      BY <2>2 DEF Task
    <3> QED
      BY <1>5, <1>6, <2>2, <3>1 DEF Informed, UpToDate, Now, IsUp, Late
  <2>4. Judged(r)'
    <3>1. Alerting(r) \/ r.step = "seen" => r.thing \in Things
      BY <2>2 DEF Shape
    <3> QED
      BY <1>5, <1>6, <2>2, <3>1 DEF Informed, Judged, Alerting, IsUp, Silent
  <2>5. Found(r)'
    BY <1>6, <2>2 DEF Informed, Found, IsUp, NamedDefs
  <2> QED
    BY <2>1, <2>3, <2>4, <2>5 DEF Informed
<1> QED
  BY <1>7, <1>8 DEF Truthful

LEMMA ClosingTruthful ==
    ASSUME ActivityInv,
           \/ \E d \in DefIds : delete_alert_definition(d)
           \/ \E a \in AlertIds : acknowledge_alert(a)
    PROVE  Truthful'
<1>1. UNCHANGED <<clock, name, config, work>>
  BY DEF delete_alert_definition, acknowledge_alert
<1>2. /\ NamedDefs' \subseteq NamedDefs
      /\ \A d \in DefIds : def'[d] # "renamed"
      /\ \A a \in AlertIds : alert'[a].status = "active" =>
             IsUp(a) /\ alert'[a] = alert[a] /\ alert[a].def \in NamedDefs'
  <2>1. ASSUME NEW d \in DefIds, delete_alert_definition(d)
        PROVE  /\ NamedDefs' = NamedDefs \ {d}
               /\ \A e \in DefIds : def'[e] # "renamed"
               /\ \A a \in AlertIds : alert'[a].status = "active" =>
                    IsUp(a) /\ alert'[a] = alert[a] /\ alert[a].def # d
    BY <2>1 DEF delete_alert_definition, NamedDefs, IsUp, Closed, ActivityInv, Truthful, Orderly,
                TypedTasks, ActivityTypeOK, Alert
  <2>2. ASSUME NEW b \in AlertIds, acknowledge_alert(b)
        PROVE  /\ NamedDefs' = NamedDefs /\ UNCHANGED def
               /\ \A a \in AlertIds : alert'[a].status = "active" => IsUp(a) /\ alert'[a] = alert[a]
    BY <2>2 DEF acknowledge_alert, NamedDefs, IsUp, Closed, ActivityInv, TypedTasks,
                ActivityTypeOK, Alert
  <2> QED
    BY <2>1, <2>2 DEF ActivityInv, Truthful, Orderly
<1>3. Orderly'
  BY <1>1, <1>2, FewerAlerts DEF ActivityInv, Truthful
<1>4. ASSUME NEW w \in Workers PROVE Informed(work[w])'
  <2>1. PICK r : r = work[w] /\ r = work'[w]
    BY <1>1
  <2>2. Informed(r) /\ (r.step = "resolve" => r.found \in AlertIds)
    BY <2>1, FoundIsAlert DEF ActivityInv, Truthful
  <2>3. Informed(r)'
    BY <1>1, <1>2, <2>2, FewerAlerts DEF ActivityInv, Truthful
  <2> QED
    BY <2>1, <2>3
<1> QED
  BY <1>3, <1>4 DEF Truthful

LEMMA UntouchedTruthful ==
    ASSUME ActivityInv, UNCHANGED <<clock, name, config, def, alert, work>> PROVE Truthful'
<1>1. Orderly' /\ \A r : Informed(r) => Informed(r)'
  BY SameTables DEF ActivityInv, Truthful
<1>2. ASSUME NEW w \in Workers PROVE Informed(work[w])'
  <2>1. PICK r : r = work[w] /\ r = work'[w]
    OBVIOUS
  <2> QED
    BY <1>1, <2>1 DEF ActivityInv, Truthful
<1> QED
  BY <1>1, <1>2 DEF Truthful

LEMMA ActivityInductive == Undisturbed /\ ActivityInv /\ [ActivityNext]_activityVars => ActivityInv'
<1> SUFFICES ASSUME Undisturbed, ActivityInv, [ActivityNext]_activityVars PROVE ActivityInv'
  OBVIOUS
<1>1. SUFFICES Truthful'
  BY NextTyped DEF ActivityInv
<1>2. CASE UNCHANGED activityVars
  BY <1>2, UntouchedTruthful DEF activityVars
<1>3. CASE \E w \in Workers : Move(w)
  BY <1>3, MoveTruthful
<1>4. CASE \E t \in Things : DataParsed(t) \/ trigger_thing_qaqc(t)
  BY <1>4, UntouchedTruthful DEF DataParsed, trigger_thing_qaqc
<1>5. ~(\E t \in Things : rename_thing(t)) /\ ~(\E d \in DefIds : edit_alert_definition(d))
  BY DEF Undisturbed, rename_thing, edit_alert_definition
<1> QED
  BY <1>2, <1>3, <1>4, <1>5, TickTruthful, ConfigEditTruthful, ClosingTruthful
  DEF ActivityNext, Move

LEMMA ActivityInvStarts == ActivityInit => ActivityInv
<1> SUFFICES ASSUME ActivityInit PROVE ActivityInv
  OBVIOUS
<1>1. TypedTasks
  BY ActivityStarts
<1>2. \A a \in AlertIds : ~IsUp(a)
  BY DEF ActivityInit, IsUp, UnusedAlert
<1>3. NamedDefs = {} /\ \A d \in DefIds : def[d] # "renamed"
  BY DEF ActivityInit, NamedDefs
<1>4. Orderly
  BY <1>2, <1>3 DEF ActivityInit, Orderly, NoConfig
<1>5. Informed(NoTask)
  BY <1>2 DEF Informed, UpToDate, Judged, Found, Alerting, NoTask
<1> QED
  BY <1>1, <1>4, <1>5 DEF ActivityInv, Truthful, ActivityInit

\* With one worker, whatever messages, failures and requests come in between, what a
\* task of monitoring_service.py has read and concluded still holds when it acts on
\* it, and no active alert reports a sighting that is within the threshold.
THEOREM TasksStayInformed == ASSUME Undisturbed PROVE ActivitySpec => []ActivityInv
<1>1. ActivityInv /\ [ActivityNext]_activityVars => ActivityInv'
  BY ActivityInductive
<1> QED
  BY <1>1, ActivityInvStarts, PTL DEF ActivitySpec

\* What the tables say of the alarm of t, in the terms of the invariant.
Raised(t) == \E a \in AlertIds : IsUp(a) /\ alert[a].name = Name0[t]
Reporting(t) ==
    \E a \in AlertIds : IsUp(a) /\ alert[a].name = Name0[t] /\ alert[a].last = config[t].seen
AlarmOf(t) == IF ~Raised(t) THEN "off" ELSE IF Reporting(t) THEN "on" ELSE "stale"
QuietNow(t) == config[t].exists /\ Silent(config[t], clock)

LEMMA UpAlerts ==
    ActivityInv => \A t \in Things : Up(t) = {a \in AlertIds : IsUp(a) /\ alert[a].name = Name0[t]}
BY DEF ActivityInv, Truthful, Orderly, Up, Active, NamedDefs, IsUp

LEMMA AlarmMeans == ActivityInv => SensorAlarm = [t \in Things |-> AlarmOf(t)]
<1> SUFFICES ASSUME ActivityInv, NEW t \in Things PROVE SensorAlarm[t] = AlarmOf(t)
  BY DEF SensorAlarm
<1> QED
  BY UpAlerts DEF SensorAlarm, AlarmOf, Raised, Reporting

LEMMA QuietMeans == SensorQuiet = [t \in Things |-> QuietNow(t)]
BY DEF SensorQuiet, QuietNow

LEMMA MeansLater ==
    ASSUME ActivityInv, ActivityInv'
    PROVE  /\ SensorAlarm = [t \in Things |-> AlarmOf(t)]
           /\ SensorAlarm' = [t \in Things |-> AlarmOf(t)']
           /\ SensorQuiet' = [t \in Things |-> QuietNow(t)']
<1>1. SensorAlarm = [t \in Things |-> AlarmOf(t)]
  BY AlarmMeans
<1>2. (SensorAlarm = [t \in Things |-> AlarmOf(t)])'
  BY AlarmMeans, PTL
<1>3. (SensorQuiet = [t \in Things |-> QuietNow(t)])'
  BY QuietMeans, PTL
<1> QED
  BY <1>1, <1>2, <1>3

\* Nothing happens to the alarms, and no sensor is less quiet than before.
LEMMA Waits ==
    ASSUME ActivityInv, ActivityInv', UNCHANGED changes,
           \A t \in Things : AlarmOf(t)' = AlarmOf(t) /\ (QuietNow(t) => QuietNow(t)')
    PROVE  Alarms!Next
<1> DEFINE T == {t \in Things : QuietNow(t)'}
<1>1. SensorAlarm' = SensorAlarm
  BY MeansLater
<1>2. SensorQuiet' = [t \in Things |-> t \in T \/ SensorQuiet[t]]
  <2>1. \A t \in Things : (t \in T \/ SensorQuiet[t]) <=> QuietNow(t)'
    BY QuietMeans
  <2>2. \A t \in Things : SensorQuiet'[t] = (t \in T \/ SensorQuiet[t])
    BY <2>1, MeansLater DEF QuietNow, Silent
  <2> QED
    BY <2>2, MeansLater
<1>3. Alarms!Wait(T)
  BY <1>1, <1>2 DEF Alarms!Wait, Alarms!FallQuiet
<1> QED
  BY <1>3 DEF Alarms!Next

\* A request, or a failure that counts as one: alarms go off, none comes on.
LEMMA Requests ==
    ASSUME ActivityInv, ActivityInv', Change,
           \A t \in Things : /\ AlarmOf(t)' \in {AlarmOf(t), "off"}
                             /\ QuietNow(t) => QuietNow(t)'
    PROVE  Alarms!Next
<1> DEFINE T == {t \in Things : AlarmOf(t)' = "off"}
           Q == {t \in Things : QuietNow(t)'}
<1>1. SensorAlarm' = [t \in Things |-> IF t \in T THEN "off" ELSE SensorAlarm[t]]
  BY MeansLater
<1>2. SensorQuiet' = [t \in Things |-> t \in Q \/ SensorQuiet[t]]
  <2>1. \A t \in Things : (t \in Q \/ SensorQuiet[t]) <=> QuietNow(t)'
    BY QuietMeans
  <2>2. \A t \in Things : SensorQuiet'[t] = (t \in Q \/ SensorQuiet[t])
    BY <2>1, MeansLater DEF QuietNow, Silent
  <2> QED
    BY <2>2, MeansLater
<1>3. Alarms!Request(T, Q)
  BY <1>1, <1>2 DEF Alarms!Request, Alarms!FallQuiet, Change
<1> QED
  BY <1>3 DEF Alarms!Next

LEMMA ConfigNumbers ==
    ASSUME ActivityInv, NEW t \in Things
    PROVE  clock \in Nat /\ config[t].seen \in Int /\ config[t].thr \in Nat
<1>1. clock \in Time /\ config[t] \in Config
  BY DEF ActivityInv, TypedTasks, ActivityTypeOK
<1>2. Time \subseteq Nat /\ Sighting \subseteq Int
  BY BoundsAssumption DEF Time, Sighting, Never
<1> QED
  BY <1>1, <1>2, BoundsAssumption DEF Config

\* Steps that leave the alerts and the sightings alone.
LEMMA Unalarming ==
    ASSUME ActivityInv, UNCHANGED alert, clock' = clock \/ Tick,
           \A t \in Things : /\ config'[t].seen = config[t].seen
                             /\ config[t].exists =>
                                   config'[t].exists /\ config'[t].thr = config[t].thr
    PROVE  \A t \in Things : AlarmOf(t)' = AlarmOf(t) /\ (QuietNow(t) => QuietNow(t)')
<1> TAKE t \in Things
<1>1. AlarmOf(t)' = AlarmOf(t)
  BY DEF AlarmOf, Raised, Reporting, IsUp
<1>2. ASSUME QuietNow(t) PROVE QuietNow(t)'
  <2>1. /\ config[t].exists /\ config'[t].exists /\ config'[t].thr = config[t].thr
        /\ config'[t].seen = config[t].seen /\ Silent(config[t], clock)
    BY <1>2 DEF QuietNow
  <2>2. clock \in Int /\ config[t].seen \in Int /\ config[t].thr \in Int
    BY ConfigNumbers
  <2>3. clock' = clock \/ clock' = clock + 1
    BY DEF Tick
  <2>4. clock - config[t].seen > config[t].thr => clock' - config[t].seen > config[t].thr
    BY <2>2, <2>3
  <2> QED
    BY <2>1, <2>4 DEF QuietNow, Silent
<1> QED
  BY <1>1, <1>2

LEMMA ReadingWaits ==
    ASSUME ActivityInv, ActivityInv', UNCHANGED <<clock, config, alert>>,
           UNCHANGED changes \/ Change
    PROVE  Alarms!Next
BY Unalarming, Waits, Requests

\* A record task makes the config of a sensor that was never seen.
LEMMA CreateConfigAlarm ==
    ASSUME ActivityInv, ActivityInv', NEW w \in Workers, CreateConfig(w) PROVE Alarms!Next
<1>1. CASE UNCHANGED config
  BY <1>1, ReadingWaits DEF CreateConfig
<1>2. ASSUME NEW b \in BOOLEAN, ~config[work[w].thing].exists, UNCHANGED changes,
             config' = [config EXCEPT ![work[w].thing] =
                          [NoConfig EXCEPT !.exists = TRUE, !.track = b]]
      PROVE  Alarms!Next
  <2> DEFINE t == work[w].thing
  <2>1. t \in Things
    BY DEF ActivityInv, TypedTasks, Shape, CreateConfig, Doing
  <2>2. config[t].seen = Never
    BY <1>2, <2>1 DEF ActivityInv, Truthful, Orderly
  <2>3. /\ config'[t].seen = Never
        /\ \A u \in Things \ {t} : config'[u] = config[u]
    BY <1>2, <2>1 DEF NoConfig, ActivityInv, TypedTasks, ActivityTypeOK
  <2>4. \A u \in Things :
           /\ config'[u].seen = config[u].seen
           /\ config[u].exists => config'[u].exists /\ config'[u].thr = config[u].thr
    BY <1>2, <2>2, <2>3
  <2>5. UNCHANGED <<clock, alert>>
    BY DEF CreateConfig
  <2>6. \A u \in Things : AlarmOf(u)' = AlarmOf(u) /\ (QuietNow(u) => QuietNow(u)')
    BY <2>4, <2>5, Unalarming
  <2> QED
    BY <1>2, <2>6, Waits
<1> QED
  BY <1>1, <1>2 DEF CreateConfig

\* A sighting ends the silence, and what an active alert reports is old by now.
LEMMA RecordSeenAlarm ==
    ASSUME ActivityInv, ActivityInv', NEW w \in Workers, RecordSeen(w) PROVE Alarms!Next
<1>1. PICK t \in Things : t = work[w].thing
  BY DEF ActivityInv, TypedTasks, Shape, RecordSeen, Doing
<1>2. /\ config'[t].seen = clock /\ config'[t].thr = config[t].thr
      /\ \A u \in Things \ {t} : config'[u] = config[u]
  BY <1>1 DEF RecordSeen, ActivityInv, TypedTasks, ActivityTypeOK, Config
<1>3. ASSUME NEW a \in AlertIds, IsUp(a) PROVE alert[a].last # clock
  <2>1. Late(a, clock) /\ clock \in Nat
    BY <1>3, LateByNow, BoundsAssumption DEF ActivityInv, TypedTasks, ActivityTypeOK, Time
  <2>2. \E h \in Thresholds : h \in Nat
    BY BoundsAssumption
  <2> QED
    BY <2>1, <2>2 DEF Late, Never
<1>4. \A u \in Things : Raised(u)' <=> Raised(u)
  BY DEF Raised, IsUp, RecordSeen
<1>5. ~Reporting(t)' /\ \A u \in Things \ {t} : Reporting(u)' <=> Reporting(u)
  BY <1>2, <1>3 DEF Reporting, IsUp, RecordSeen
<1>6. SensorAlarm' = [SensorAlarm EXCEPT ![t] = IF @ = "on" THEN "stale" ELSE @]
  BY <1>4, <1>5, MeansLater DEF AlarmOf
<1>7. ~QuietNow(t)' /\ \A u \in Things \ {t} : QuietNow(u)' <=> QuietNow(u)
  <2>1. clock \in Nat /\ config[t].thr \in Nat
    BY ConfigNumbers
  <2>2. ~QuietNow(t)'
    BY <1>2, <2>1 DEF QuietNow, Silent, RecordSeen, Never
  <2> QED
    BY <1>2, <2>2 DEF QuietNow, Silent, RecordSeen
<1>8. SensorQuiet' = [SensorQuiet EXCEPT ![t] = FALSE]
  <2>1. \A u \in Things : QuietNow(u)' = (IF u = t THEN FALSE ELSE QuietNow(u))
    BY <1>7 DEF QuietNow, Silent
  <2> QED
    BY <2>1, MeansLater, QuietMeans
<1>9. Alarms!Sighting(t)
  BY <1>6, <1>8 DEF Alarms!Sighting, RecordSeen
<1> QED
  BY <1>9 DEF Alarms!Next

\* A sweep raises the alarm of a sensor that is silent and has none, and reports
\* its last sighting.
LEMMA InsertAlertAlarm ==
    ASSUME Undisturbed, ActivityInv, ActivityInv', NEW w \in Workers, InsertAlert(w)
    PROVE  Alarms!Next
<1>1. CASE UNCHANGED alert
  BY <1>1, ReadingWaits DEF InsertAlert
<1>2. CASE /\ def[work[w].def] # "absent" /\ FreeIds # {}
           /\ alert' = [alert EXCEPT ![NewId] =
                [def |-> work[w].def, name |-> work[w].name, last |-> work[w].last,
                 status |-> "active"]]
  <2>1. work[w].step = "insert"
    BY DEF InsertAlert
  <2>2. PICK t \in Things : t = work[w].thing
    BY <1>2, <2>1, NewAlert
  <2>3. PICK b \in FreeIds : b = NewId
    BY <1>2, FreeIdTyped
  <2>4. b \in AlertIds /\ ~IsUp(b)
    BY <2>3 DEF FreeIds, IsUp
  <2>5. /\ alert'[b].name = Name0[t] /\ alert'[b].last = config[t].seen
        /\ alert'[b].status = "active" /\ \A a \in AlertIds \ {b} : alert'[a] = alert[a]
    BY <1>2, <2>1, <2>2, <2>3, <2>4, NewAlert DEF ActivityInv, TypedTasks, ActivityTypeOK
  <2>6. UNCHANGED <<clock, config, changes>>
    BY DEF InsertAlert
  <2>7. ~Raised(t)
    BY <1>2, <2>1, <2>2, NewAlert DEF Raised
  <2>8. Raised(t)' /\ Reporting(t)'
    BY <2>4, <2>5, <2>6 DEF Raised, Reporting, IsUp
  <2>9. ASSUME NEW u \in Things \ {t} PROVE AlarmOf(u)' = AlarmOf(u)
    <3>1. Name0[u] # Name0[t]
      BY DEF Undisturbed
    <3>2. (Raised(u)' <=> Raised(u)) /\ (Reporting(u)' <=> Reporting(u))
      BY <2>4, <2>5, <2>6, <3>1 DEF Raised, Reporting, IsUp
    <3> QED
      BY <3>2 DEF AlarmOf
  <2>10. QuietNow(t)
    <3>1. Silent(config[t], work[w].now) /\ config[t].exists /\ work[w].kind = "sweep"
      BY <1>2, <2>1, <2>2, NewAlert
    <3>2. work[w].now <= clock
      BY <3>1 DEF ActivityInv, Truthful, Informed, UpToDate
    <3>3. work[w].now \in Int
      BY BoundsAssumption DEF ActivityInv, TypedTasks, ActivityTypeOK, Task, Time
    <3> QED
      BY <3>1, <3>2, <3>3, ConfigNumbers DEF QuietNow, Silent
  <2>11. SensorAlarm[t] = "off" /\ SensorAlarm' = [SensorAlarm EXCEPT ![t] = "on"]
    BY <2>7, <2>8, <2>9, MeansLater DEF AlarmOf
  <2>12. UNCHANGED SensorQuiet
    BY <2>6 DEF SensorQuiet, Silent
  <2>13. Alarms!Raise(t)
    BY <2>6, <2>10, <2>11, <2>12, QuietMeans DEF Alarms!Raise
  <2> QED
    BY <2>13 DEF Alarms!Next
<1> QED
  BY <1>1, <1>2 DEF InsertAlert

\* A task that is not about a silent sensor takes away the one alert of its
\* sensor, which reports an older sighting, or one that is not up any more.
LEMMA ResolveAlertAlarm ==
    ASSUME Undisturbed, ActivityInv, ActivityInv', NEW w \in Workers, ResolveAlert(w)
    PROVE  Alarms!Next
<1>1. CASE UNCHANGED alert
  BY <1>1, ReadingWaits DEF ResolveAlert
<1>2. CASE alert' = [alert EXCEPT ![work[w].found] = Closed(@, "resolved")]
  <2>1. work[w].step = "resolve" /\ Alerting(work[w]) /\ Informed(work[w]) /\ Shape(work[w])
    BY DEF ResolveAlert, Alerting, ActivityInv, Truthful, TypedTasks
  <2>2. PICK t \in Things : t = work[w].thing
    BY <2>1 DEF Shape
  <2>3. PICK b \in AlertIds : b = work[w].found
    BY <2>1 DEF Shape
  <2>4. alert'[b].status = "resolved" /\ \A a \in AlertIds \ {b} : alert'[a] = alert[a]
    BY <1>2, <2>3 DEF Closed, ActivityInv, TypedTasks, ActivityTypeOK, Alert
  <2>5. UNCHANGED <<clock, config, changes>>
    BY DEF ResolveAlert
  <2>6. CASE ~IsUp(b)
    <3>1. \A u \in Things : (Raised(u)' <=> Raised(u)) /\ (Reporting(u)' <=> Reporting(u))
      BY <2>4, <2>5, <2>6 DEF Raised, Reporting, IsUp
    <3>2. \A u \in Things : AlarmOf(u)' = AlarmOf(u) /\ (QuietNow(u) => QuietNow(u)')
      BY <2>5, <3>1 DEF AlarmOf, QuietNow, Silent
    <3> QED
      BY <2>5, <3>2, Waits
  <2>7. CASE IsUp(b)
    <3>1. alert[b].name = Name0[t] /\ ~work[w].silent
      BY <2>1, <2>2, <2>3, <2>7 DEF Informed, Found
    <3>2. \A a \in AlertIds : IsUp(a) /\ alert[a].name = Name0[t] => a = b
      BY <2>7, <3>1 DEF ActivityInv, Truthful, Orderly
    <3>3. Raised(t) /\ ~Reporting(t)
      BY <2>1, <2>2, <2>7, <3>1 DEF Informed, Judged, Raised, Reporting
    <3>4. ~Raised(t)'
      BY <2>4, <3>2 DEF Raised, IsUp
    <3>5. ASSUME NEW u \in Things \ {t} PROVE AlarmOf(u)' = AlarmOf(u)
      <4>1. Name0[u] # Name0[t]
        BY DEF Undisturbed
      <4>2. (Raised(u)' <=> Raised(u)) /\ (Reporting(u)' <=> Reporting(u))
        BY <2>4, <2>5, <3>1, <4>1 DEF Raised, Reporting, IsUp
      <4> QED
        BY <4>2 DEF AlarmOf
    <3>6. SensorAlarm[t] = "stale" /\ SensorAlarm' = [SensorAlarm EXCEPT ![t] = "off"]
      BY <3>3, <3>4, <3>5, MeansLater DEF AlarmOf
    <3>7. UNCHANGED SensorQuiet
      BY <2>5 DEF SensorQuiet, Silent
    <3>8. Alarms!Clear(t)
      BY <2>5, <3>6, <3>7 DEF Alarms!Clear
    <3> QED
      BY <3>8 DEF Alarms!Next
  <2> QED
    BY <2>6, <2>7
<1> QED
  BY <1>1, <1>2 DEF ResolveAlert

LEMMA MoveAlarm ==
    ASSUME Undisturbed, ActivityInv, ActivityInv', NEW w \in Workers, Move(w) PROVE Alarms!Next
<1>1. CASE \/ BeginSweep(w) \/ (\E t \in Things : BeginRecord(w, t)) \/ FindDef(w) \/ PickThing(w)
           \/ GetDef(w) \/ CreateDef(w) \/ GetName(w) \/ FindAlert(w) \/ UpdateStatus(w)
           \/ NameUnknown(w) \/ Abandon(w)
  <2>1. UNCHANGED <<clock, config, alert>> /\ (UNCHANGED changes \/ Change)
    BY <1>1 DEF BeginSweep, BeginRecord, FindDef, PickThing, GetDef, CreateDef, GetName,
                FindAlert, UpdateStatus, NameUnknown, Abandon
  <2> QED
    BY <2>1, ReadingWaits
<1> QED
  BY <1>1, CreateConfigAlarm, RecordSeenAlarm, InsertAlertAlarm, ResolveAlertAlarm
  DEF Move, Advance

LEMMA ConfigEditAlarm ==
    ASSUME Undisturbed, ActivityInv, ActivityInv', NEW t \in Things, update_activity_config(t)
    PROVE  Alarms!Next
<1>1. PICK b \in BOOLEAN, h \in Thresholds :
         config' = [config EXCEPT ![t] = [@ EXCEPT !.exists = TRUE, !.track = b, !.thr = h]]
  BY DEF update_activity_config
<1>2. config[t] \in Config
  BY DEF ActivityInv, TypedTasks, ActivityTypeOK
<1>3. h = config[t].thr
  BY <1>2 DEF Config, Undisturbed
<1>4. /\ config'[t].exists /\ config'[t].seen = config[t].seen /\ config'[t].thr = config[t].thr
      /\ \A u \in Things \ {t} : config'[u] = config[u]
  BY <1>1, <1>2, <1>3 DEF ActivityInv, TypedTasks, ActivityTypeOK, Config
<1>5. \A u \in Things : /\ config'[u].seen = config[u].seen
                        /\ config[u].exists => config'[u].exists /\ config'[u].thr = config[u].thr
  BY <1>4
<1>6. UNCHANGED <<clock, alert>> /\ Change
  BY DEF update_activity_config
<1> QED
  BY <1>5, <1>6, Unalarming, Requests

\* What a user closes is off; every other alarm is as it was.
LEMMA ClosingAlarm ==
    ASSUME Undisturbed, ActivityInv, ActivityInv',
           \/ \E d \in DefIds : delete_alert_definition(d)
           \/ \E a \in AlertIds : acknowledge_alert(a)
    PROVE  Alarms!Next
<1>1. UNCHANGED <<clock, config>> /\ Change
  BY DEF delete_alert_definition, acknowledge_alert
<1>2. ASSUME NEW a \in AlertIds, IsUp(a)'
      PROVE  IsUp(a) /\ alert'[a] = alert[a]
  <2>1. alert[a] \in Alert /\ alert \in [AlertIds -> Alert] /\ alert'[a].status = "active"
    BY <1>2 DEF ActivityInv, TypedTasks, ActivityTypeOK, IsUp
  <2>2. ASSUME NEW d \in DefIds, delete_alert_definition(d) PROVE IsUp(a) /\ alert'[a] = alert[a]
    BY <2>1, <2>2 DEF delete_alert_definition, IsUp, Closed, Alert
  <2>3. ASSUME NEW b \in AlertIds, acknowledge_alert(b) PROVE IsUp(a) /\ alert'[a] = alert[a]
    BY <2>1, <2>3 DEF acknowledge_alert, IsUp, Closed, Alert
  <2> QED
    BY <2>2, <2>3
<1>3. ASSUME NEW t \in Things PROVE AlarmOf(t)' \in {AlarmOf(t), "off"}
  <2>1. CASE ~Raised(t)'
    BY <2>1 DEF AlarmOf
  <2>2. CASE Raised(t)'
    <3>1. PICK a \in AlertIds : IsUp(a)' /\ alert'[a].name = Name0[t]
      BY <2>2 DEF Raised
    <3>2. \A b \in AlertIds : IsUp(b) /\ alert[b].name = Name0[t] => b = a
      BY <1>2, <3>1 DEF ActivityInv, Truthful, Orderly
    <3>3. Raised(t) /\ (Reporting(t)' <=> Reporting(t))
      BY <1>1, <1>2, <3>1, <3>2 DEF Raised, Reporting
    <3> QED
      BY <2>2, <3>3 DEF AlarmOf
  <2> QED
    BY <2>1, <2>2
<1>4. \A t \in Things : QuietNow(t) => QuietNow(t)'
  BY <1>1 DEF QuietNow, Silent
<1> QED
  BY <1>1, <1>3, <1>4, Requests

LEMMA StepsImplement ==
    Undisturbed /\ ActivityInv /\ ActivityInv' /\ [ActivityNext]_activityVars
        => [Alarms!Next]_(Alarms!vars)
<1> SUFFICES ASSUME Undisturbed, ActivityInv, ActivityInv', [ActivityNext]_activityVars
             PROVE  Alarms!Next
  OBVIOUS
<1>1. CASE UNCHANGED activityVars
  BY <1>1, ReadingWaits DEF activityVars
<1>2. CASE Tick
  BY <1>2, Unalarming, Waits DEF Tick
<1>3. CASE \E t \in Things : DataParsed(t) \/ trigger_thing_qaqc(t)
  BY <1>3, ReadingWaits DEF DataParsed, trigger_thing_qaqc
<1>4. ~(\E t \in Things : rename_thing(t)) /\ ~(\E d \in DefIds : edit_alert_definition(d))
  BY DEF Undisturbed, rename_thing, edit_alert_definition
<1> QED
  BY <1>1, <1>2, <1>3, <1>4, MoveAlarm, ConfigEditAlarm, ClosingAlarm DEF ActivityNext, Move

LEMMA StartImplements == ActivityInit => Alarms!Init
<1> SUFFICES ASSUME ActivityInit PROVE Alarms!Init
  OBVIOUS
<1>1. SensorAlarm = [t \in Things |-> "off"]
  BY DEF SensorAlarm, Up, Active, ActivityInit, UnusedAlert
<1>2. SensorQuiet \in [Things -> BOOLEAN]
  BY DEF SensorQuiet, Silent, ActivityInit, NoConfig
<1> QED
  BY <1>1, <1>2 DEF Alarms!Init, ActivityInit

\* Record tasks, sweeps, users' requests and failures implement the alarm that
\* monitoring_service.py promises of each sensor: a sweep raises it only while the
\* sensor is silent and has none, and reports its last sighting; a task takes it
\* away only when the sensor has been seen after what it reports; and nothing else
\* but a request does.  For any number of sensors, alerts, messages and requests.
THEOREM TasksImplementAlarm == ASSUME Undisturbed PROVE ActivitySpec => ImplementsAlarm
<1>1. ActivityInv /\ ActivityInv' /\ [ActivityNext]_activityVars => [Alarms!Next]_(Alarms!vars)
  BY StepsImplement
<1>2. ActivitySpec => []ActivityInv
  BY TasksStayInformed
<1> QED
  BY <1>1, <1>2, StartImplements, PTL DEF ActivitySpec, ImplementsAlarm, Alarms!Spec
=============================================================================
