------------------------------ MODULE Sensors ------------------------------
(***************************************************************************)
(* The sensor pipeline of the client: the sensor managers, the datapoints  *)
(* their sensors buffer between two trickles, and what                     *)
(* Sensors::print_datapoints puts into a trickle and removes from memory   *)
(* (sensors/Sensors.cpp, Datapoint.cpp and the managers).                  *)
(*                                                                         *)
(* A measurement is a number: the n-th measurement ever made on a sensor   *)
(* is n, whatever process made it.  0 is the NaN that opens a data series. *)
(* The module has operators only; BoincApp runs them.                      *)
(***************************************************************************)
EXTENDS Integers, Sequences, FiniteSets

CONSTANTS
  Manager,     \* the sensor managers
  ManagerSeq,  \* Sensors.cpp's `managers`, in the order of add_sensor_manager
  Sensor,      \* the sensors, of all managers
  SensorSeq,   \* SensorSeq[m]: the sensors m can have, in the order m lists them
  BoincManager,\* BoincSensorsManager: sensors come and go, errors are cleared
  UpdateFirst, \* managers whose add_sensors updates before it looks at m_error
  MaxTaken     \* bound: measurements per sensor

Elements(seq) == {seq[j] : j \in DOMAIN seq}

\* A loop over seq that passes over what is not in S (SelectSeq, without a recursion):
\* it stops at the places At, and the counter of a place is the number of those
\* before it.
At(seq, S) == {j \in DOMAIN seq : seq[j] \in S}
Counter(places, j) == Cardinality({k \in places : k < j})
Keep(seq, S) ==
  [n \in 1 .. Cardinality(At(seq, S)) |->
     seq[CHOOSE j \in At(seq, S) : Counter(At(seq, S), j) = n - 1]]

ASSUME ManagerAssumption ==
  /\ ManagerSeq \in Seq(Manager)
  /\ Elements(ManagerSeq) = Manager
  /\ \A j, k \in DOMAIN ManagerSeq : ManagerSeq[j] = ManagerSeq[k] => j = k
  /\ SensorSeq \in [Manager -> Seq(Sensor)]
  /\ \A m, n \in Manager :
       m # n => Elements(SensorSeq[m]) \cap Elements(SensorSeq[n]) = {}
  /\ BoincManager \in Manager
  /\ UpdateFirst \subseteq Manager \ {BoincManager}
  /\ MaxTaken \in Nat

VARIABLES
  m_sensors,        \* m_sensors[m]: the sensors manager m has now
  m_datapoints,     \* m_datapoints[s]: buffered, not yet printed
  m_firstDatapoint, \* m_firstDatapoint[s]: the series of s has not begun
  m_error,          \* m_error[m]: manager m is in error
  m_error_reported, \* m_error_reported[m]: and has said so in a trickle
  taken,            \* history: taken[s] measurements were made on s
  sensors,          \* print_datapoints: the sensors collected so far
  errors            \* print_datapoints: the managers whose error was collected

sensorVars == <<m_sensors, m_datapoints, m_firstDatapoint, m_error,
                m_error_reported, taken>>
collectVars == <<sensors, errors>>

Null == 0
Point == Nat

\* What is buffered, and the error flags ...
DataTypeOK ==
  /\ m_datapoints \in [Sensor -> Seq(Point)]
  /\ m_firstDatapoint \in [Sensor -> BOOLEAN]
  /\ m_error \in [Manager -> BOOLEAN]
  /\ m_error_reported \in [Manager -> BOOLEAN]
  /\ taken \in [Sensor -> Nat]

\* ... and the lists of sensors.
ListTypeOK ==
  /\ m_sensors \in [Manager -> Seq(Sensor)]
  /\ sensors \in Seq(Sensor)
  /\ errors \subseteq Manager

----------------------------------------------------------------------------
\* DatapointV::push_back: what one new measurement of s appends.
PushBack(s) ==
  IF m_firstDatapoint[s] THEN <<Null, taken[s] + 1>> ELSE <<taken[s] + 1>>

\* The sensors of S are measured, those of D deleted with what they hold.
Measure(S, D) ==
  /\ taken' = [s \in Sensor |-> IF s \in S THEN taken[s] + 1 ELSE taken[s]]
  /\ m_datapoints' = [s \in Sensor |->
       IF s \in D THEN <<>>
       ELSE IF s \in S THEN m_datapoints[s] \o PushBack(s)
       ELSE m_datapoints[s]]
  /\ m_firstDatapoint' = [s \in Sensor |->
       s \in D \/ (m_firstDatapoint[s] /\ s \notin S)]

Measurable(S) == {s \in S : taken[s] < MaxTaken}

\* update_sensors of a manager with a fixed set of sensors: nothing once in
\* error; otherwise it measures some sensors (none before the period is over)
\* and may run into an error that stays.
UpdateFixed(m) ==
  IF m_error[m] THEN UNCHANGED sensorVars
  ELSE \E S \in SUBSET Measurable(Elements(m_sensors[m])), failed \in BOOLEAN :
         /\ Measure(S, {})
         /\ m_error' = [m_error EXCEPT ![m] = failed]
         /\ UNCHANGED <<m_sensors, m_error_reported>>

\* The sensors a pass of BoincSensorsManager leaves: the known ones that run,
\* then the new ones, in the order of cc_state.results.
ResultSensors(running) ==
  LET known == m_sensors[BoincManager]
      new == running \ Elements(known)
  IN Keep(known, running) \o Keep(SensorSeq[BoincManager], new)

\* A running result is measured once it has made progress.
MeasureResults(running) ==
  \E S \in SUBSET Measurable(running) :
    Measure(S, Elements(SensorSeq[BoincManager]) \ running)

\* _update_sensors of BoincSensorsManager, once its period is over: a failed
\* get_state is an error; otherwise a sensor exists after the pass exactly if
\* its result is running.
UpdateBoinc ==
  LET m == BoincManager
  IN \/ UNCHANGED sensorVars
     \/ /\ ~m_error[m]
        /\ m_error' = [m_error EXCEPT ![m] = TRUE]
        /\ UNCHANGED <<m_sensors, m_datapoints, m_firstDatapoint,
                       m_error_reported, taken>>
     \/ /\ ~m_error[m]
        /\ \E running \in SUBSET Elements(SensorSeq[m]) :
             /\ MeasureResults(running)
             /\ m_sensors' = [m_sensors EXCEPT ![m] = ResultSensors(running)]
        /\ UNCHANGED <<m_error, m_error_reported>>

UpdateSensors(m) == IF m = BoincManager THEN UpdateBoinc ELSE UpdateFixed(m)

\* Memory without managers: before the constructor and after releaseManagers.
NoManagers ==
  /\ m_sensors' = [m \in Manager |-> <<>>]
  /\ m_datapoints' = [s \in Sensor |-> <<>>]
  /\ m_firstDatapoint' = [s \in Sensor |-> TRUE]
  /\ m_error' = [m \in Manager |-> FALSE]
  /\ m_error_reported' = [m \in Manager |-> FALSE]
  /\ sensors' = <<>> /\ errors' = {}
  /\ UNCHANGED taken

\* What a manager's constructor finds: those with a fixed set of sensors all of
\* them, that of the results none before its first update.
SensorsAtStart(m) == IF m = BoincManager THEN <<>> ELSE SensorSeq[m]

\* The constructors of the managers, in a new process; a manager may start in
\* error (no ACPI, no BOINC client, no readable /proc).
NewManagers ==
  /\ m_sensors' = [m \in Manager |-> SensorsAtStart(m)]
  /\ m_error' \in [Manager -> BOOLEAN]
  /\ UNCHANGED <<m_datapoints, m_firstDatapoint, m_error_reported, taken,
                 collectVars>>

----------------------------------------------------------------------------
(***************************************************************************)
(* Sensors::print_datapoints first calls add_sensors of every manager.     *)
(***************************************************************************)

\* Mutant: the return of the error branch is missing.
ReportErrorNoReturn(m) ==
  /\ errors' = IF m_error_reported[m] THEN errors ELSE errors \union {m}
  /\ m_error_reported' = [m_error_reported EXCEPT ![m] = TRUE]
  /\ sensors' = sensors \o m_sensors[m]

\* The error branch of every add_sensors: reported once per process.
ReportError(m) ==
  /\ errors' = IF m_error_reported[m] THEN errors ELSE errors \union {m}
  /\ m_error_reported' = [m_error_reported EXCEPT ![m] = TRUE]
  /\ UNCHANGED sensors

ListSensors(m) ==
  /\ sensors' = sensors \o m_sensors[m]
  /\ UNCHANGED errors

\* BoincSensorsManager clears the error it has looked at and lists nothing.
AddBoinc ==
  LET m == BoincManager
  IN IF m_error[m]
     THEN /\ ReportError(m)
          /\ m_error' = [m_error EXCEPT ![m] = FALSE]
          /\ UNCHANGED <<m_sensors, m_datapoints, m_firstDatapoint, taken>>
     ELSE ListSensors(m) /\ UNCHANGED sensorVars

\* CpuLoadManager: updates, then looks at the error the update may have met.
AddUpdateFirst(m) ==
  IF m_error[m]
  THEN /\ ReportError(m)
       /\ UNCHANGED <<m_sensors, m_datapoints, m_firstDatapoint, m_error, taken>>
  ELSE \E S \in SUBSET Measurable(Elements(m_sensors[m])) :
         \/ /\ Measure(S, {})
            /\ ListSensors(m)
            /\ UNCHANGED <<m_sensors, m_error, m_error_reported>>
         \/ /\ Measure(S, {})
            /\ m_error' = [m_error EXCEPT ![m] = TRUE]
            /\ ReportError(m)
            /\ UNCHANGED m_sensors

\* BoincCpuLoad, UsersCpuLoad and PStates managers: look at the error, then
\* update and list the sensors, even if this update failed.
AddUpdateAfter(m) ==
  IF m_error[m]
  THEN /\ ReportError(m)
       /\ UNCHANGED <<m_sensors, m_datapoints, m_firstDatapoint, m_error, taken>>
  ELSE UpdateFixed(m) /\ ListSensors(m)

AddSensors(m) ==
  \/ m = BoincManager /\ AddBoinc
  \/ m \in UpdateFirst /\ AddUpdateFirst(m)
  \/ m \notin UpdateFirst \union {BoincManager} /\ AddUpdateAfter(m)

----------------------------------------------------------------------------
(***************************************************************************)
(* A trickle: the sensors of its <sensors> list, whose n-th line has index *)
(* n, and data[n], the datapoints of its <datapoints> list that carry      *)
(* index n.                                                                *)
(***************************************************************************)
NonEmpty == Keep(sensors, {s \in Sensor : m_datapoints[s] # <<>>})

\* total_datapoints > 0: the loop assigns, so the last sensor alone decides.
HasDatapoints == sensors # <<>> /\ m_datapoints[sensors[Len(sensors)]] # <<>>

PrintedSensors == IF HasDatapoints THEN NonEmpty ELSE <<>>
PrintedData == [n \in DOMAIN PrintedSensors |-> m_datapoints[PrintedSensors[n]]]

\* Mutant: every sensor is cleared, also those the trickle does not list.
ClearAll == m_datapoints' = [s \in Sensor |-> <<>>]

\* datapoints.clear() on what was printed.
ClearPrinted ==
  m_datapoints' = [s \in Sensor |->
    IF s \in Elements(PrintedSensors) THEN <<>> ELSE m_datapoints[s]]

\* What a reader of the trickle, who looks the indexes up in the <sensors>
\* list, gets for sensor s.
DecodedFor(s) ==
  IF s \in Elements(PrintedSensors)
  THEN PrintedData[CHOOSE n \in DOMAIN PrintedSensors : PrintedSensors[n] = s]
  ELSE <<>>
============================================================================
