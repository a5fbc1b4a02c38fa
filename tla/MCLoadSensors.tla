--------------------------- MODULE MCLoadSensors ---------------------------
(***************************************************************************)
(* The sensors of the loads, those of the CPUs' frequencies, and the       *)
(* upload without BOINC, one of the three in each behaviour: they share    *)
(* the process of the client, and no state.  The others stand still.       *)
(***************************************************************************)
EXTENDS LoadSensors, TLC

CONSTANTS m_ncpus, Table, MaxTime, MaxChanges,
          Sensor, Id, MaxEntries, MaxLines, MaxMessages

VARIABLES
  part,
  time_in_state, spent, base, pstate_time, updated, m_sensors, pstate_error, cpu, build,
  pstate_index, changes, broken,
  config, DatastreamIndexMap, saved, loaded, given, messages

PS == INSTANCE PStates WITH time <- pstate_time, m_error <- pstate_error
U == INSTANCE Upload

ASSUME TablesAssumption ==
  LoadAssumption /\ PS!PStatesAssumption /\ U!UploadAssumption

loadVars == vars
pstateVars ==
  <<time_in_state, spent, base, pstate_time, updated, m_sensors, pstate_error, cpu, build,
    pstate_index, changes, broken>>
uploadVars == <<config, DatastreamIndexMap, saved, loaded, given, messages>>
allVars == <<part, loadVars, pstateVars, uploadVars>>

NoLoads ==
  /\ manager = "cpu" /\ real = 0 /\ offset = 40 /\ idle = 0 /\ logged = FALSE
  /\ proc = <<>> /\ m_error = FALSE
  /\ m_update_time = 0 /\ m_record_time = 0 /\ m_stat = 0 /\ m_stat_history = <<>>
  /\ last = {} /\ trickle = 0 /\ polled = FALSE
  /\ births = 0 /\ logins = 0 /\ clockSet = FALSE
  /\ before = [proc |-> <<>>, idle |-> 0, real |-> 0, time |-> 0,
               jump |-> FALSE, back |-> 0]
NoPStates ==
  /\ time_in_state = [c \in PS!Cpu |-> PS!Unreadable]
  /\ spent = [c \in PS!Cpu |-> [f \in PS!Frequency |-> 0]] /\ base = spent
  /\ pstate_time = 0 /\ updated = 0 /\ m_sensors = <<>> /\ pstate_error = "none"
  /\ cpu = 0 /\ build = FALSE /\ pstate_index = 0 /\ changes = 0 /\ broken = FALSE
NoUpload ==
  /\ config = <<>> /\ DatastreamIndexMap = <<>> /\ saved = <<>>
  /\ loaded = <<>> /\ given = {} /\ messages = 0

AllInit ==
  \/ part = "loads" /\ Init /\ NoPStates /\ NoUpload
  \/ part = "pstates" /\ NoLoads /\ PS!Init /\ NoUpload
  \/ part = "upload" /\ NoLoads /\ NoPStates /\ U!Init

Loads == part = "loads" /\ Next /\ UNCHANGED <<part, pstateVars, uploadVars>>
PStateSensors == part = "pstates" /\ PS!Next /\ UNCHANGED <<part, loadVars, uploadVars>>
Upload == part = "upload" /\ U!Next /\ UNCHANGED <<part, loadVars, pstateVars>>

AllSpec == AllInit /\ [][Loads \/ PStateSensors \/ Upload]_allVars

LoadClockSteps == {-5, 5}
LoadSymmetry == Permutations(Pid)

\* A file without rows, one frequency, two.
MCTables == {<<>>, <<1>>, <<2, 1>>}

\* See PStates and Upload.
TimeOfOwnState == PS!TimeOfOwnState
OwnId == U!OwnId
============================================================================
