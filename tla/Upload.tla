------------------------------- MODULE Upload -------------------------------
(***************************************************************************)
(* The upload without BOINC (standalone_trickle_up.cpp), which the client  *)
(* links and, at this commit, calls nowhere.  Each message of the sensors  *)
(* reads the file of ids anew; the table of ids lives as long as the       *)
(* process.  Debug is true: nothing is sent, and the message is written to *)
(* files, if there is a line that would have been sent.                    *)
(***************************************************************************)
EXTENDS Integers, Sequences, SequencesExt, FiniteSets, FiniteSetsExt

CONSTANTS
  Sensor,       \* the names
  Id,           \* natural numbers, the ids that the database gives
  MaxEntries,   \* bounds: of the config, ...
  MaxLines,     \* ... of the sensors of a message,
  MaxMessages   \* and of the messages

UploadAssumption ==
  Id \subseteq Nat /\ MaxEntries \in Nat /\ MaxLines \in Nat /\ MaxMessages \in Nat

unknown_osd_id == -1

\* An entry whose id or name cannot be read, or that is no object.
BadEntry == [name |-> "", id |-> unknown_osd_id]
Entry == [name : Sensor, id : Id]

VARIABLES
  config,              \* the entries of config.json
  DatastreamIndexMap,
  saved,               \* the sensors of the file that was last written ...
  loaded,              \* ... and, as history, the config and `given' at that time
  given,               \* history: the pairs of names and ids in any config read
  messages

vars == <<config, DatastreamIndexMap, saved, loaded, given, messages>>

\* A file that cannot be read, or has no key or no list, is as good as an empty list.
Configs == BoundedSeq(Entry \cup {BadEntry}, MaxEntries)

Init ==
  /\ config \in Configs
  /\ DatastreamIndexMap = <<>> /\ saved = <<>> /\ loaded = [datastreams |-> <<>>, given |-> {}]
  /\ given = {} /\ messages = 0

\* Whoever has the account writes the file by hand.
Edit ==
  /\ messages < MaxMessages /\ config' \in Configs \ {config}
  /\ UNCHANGED <<DatastreamIndexMap, saved, loaded, given, messages>>

----------------------------------------------------------------------------
\* Mutant: the first id of a name is kept (map::insert).
Inserted(map, entry) ==
  [n \in DOMAIN map \cup {entry.name} |-> IF n \in DOMAIN map THEN map[n] ELSE entry.id]

\* DatastreamIndexMap[name] = id.
Assigned(map, entry) ==
  [n \in DOMAIN map \cup {entry.name} |-> IF n = entry.name THEN entry.id ELSE map[n]]

\* The entries in front of the first bad one have been taken when Load gives up;
\* its result is not looked at.
Taken ==
  LET bad == {i \in DOMAIN config : config[i] = BadEntry}
  IN IF bad = {} THEN config ELSE SubSeq(config, 1, Min(bad) - 1)

Load == FoldLeft(Assigned, DatastreamIndexMap, Taken)

\* The sensor of the i-th line; its datapoints are those with that index.
SensorData(name, i) ==
  [name |-> name, datastream_id |-> unknown_osd_id, datapoints |-> i]

change_datastream_id(sensor, map) ==
  IF sensor.name \in DOMAIN map
  THEN [sensor EXCEPT !.datastream_id = map[sensor.name]] ELSE sensor

idIsValid(sensor) == sensor.datastream_id > unknown_osd_id

\* The lines of <sensors>, with the ids of the table; two of one name are an error.
Sensors(names, map) ==
  [i \in DOMAIN names |-> change_datastream_id(SensorData(names[i], i), map)]

\* The sensors and their datapoints in one file, the message as it came in another.
SaveToFile(sensors) ==
  saved' = sensors /\ loaded' = [datastreams |-> config, given |-> given']

\* A message of print_datapoints: each of its sensors has datapoints.  One without a
\* sensor that has an id makes no line for the database, and is dropped, files and all.
send_trickle_up(names) ==
  /\ messages < MaxMessages /\ messages' = messages + 1
  /\ DatastreamIndexMap' = Load
  /\ given' = given \cup {<<e.name, e.id>> : e \in ToSet(Taken)}
  /\ LET sensors == Sensors(names, DatastreamIndexMap')
     IN IF IsInjective(names) /\ \E i \in DOMAIN sensors : idIsValid(sensors[i])
        THEN SaveToFile(sensors)
        ELSE UNCHANGED <<saved, loaded>>
  /\ UNCHANGED config

Next == Edit \/ \E names \in BoundedSeq(Sensor, MaxLines) : send_trickle_up(names)

Spec == Init /\ [][Next]_vars

----------------------------------------------------------------------------
\* The file gives each sensor the last id of its name in the config of that
\* moment, if there was no bad entry in front of it; and one without such an
\* entry an id that was once its own, or none, never that of another name,
\* however the config was edited and wherever a reading of it gave up.
OwnId ==
  \A i \in DOMAIN saved :
    LET s == saved[i]
        named == {j \in DOMAIN loaded.datastreams : loaded.datastreams[j].name = s.name}
    IN /\ idIsValid(s) => <<s.name, s.datastream_id>> \in loaded.given
       /\ BadEntry \notin ToSet(loaded.datastreams) /\ named # {}
            => s.datastream_id = loaded.datastreams[Max(named)].id
       /\ ~idIsValid(s) => \A id \in Id : <<s.name, id>> \notin loaded.given
=============================================================================
