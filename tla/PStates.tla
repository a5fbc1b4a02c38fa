------------------------------- MODULE PStates -------------------------------
(***************************************************************************)
(* The sensors of the CPUs' frequencies on Linux (PStates.cpp).  For each  *)
(* CPU the kernel has a file with a row for each frequency and the time    *)
(* the CPU spent at it.  The manager makes a list of sensors from the rows *)
(* of all CPUs in its first pass, and goes through the list and the rows   *)
(* together in each later one.  Another driver, or a CPU that is switched  *)
(* off and on, may change the files and start their counters anew.         *)
(***************************************************************************)
EXTENDS Integers, Sequences, Functions

CONSTANTS
  m_ncpus,
  Table,       \* the lists of frequencies that a file may have
  MaxTime,     \* bound: update periods
  MaxChanges   \* bound: files that change

\* A file lists frequencies; its rows may be none.
PStatesAssumption ==
  /\ m_ncpus \in Nat \ {0} /\ MaxTime \in Nat /\ MaxChanges \in Nat
  /\ \A table \in Table : table \in Seq(Nat)

Cpu == 1 .. m_ncpus
Frequency == UNION {Range(table) : table \in Table}
Unreadable == <<0>>   \* not a frequency

VARIABLES
  time_in_state,  \* the rows of each CPU's file, or Unreadable
  spent,          \* what each CPU spent at each frequency, ever, and ...
  base,           \* ... what it had when its counters were started
  time, updated,  \* in update periods, and when the last pass began
  m_sensors, m_error,
  cpu,            \* the CPU whose file is read; 0 between two passes
  build, pstate_index,
  changes,
  broken          \* a sensor beyond the end of the list was used

vars == <<time_in_state, spent, base, time, updated, m_sensors, m_error, cpu, build,
          pstate_index, changes, broken>>
kernelVars == <<time_in_state, spent, base, time, changes>>

\* The value of the last datapoint: how much a counter gained, and as history how
\* much it should have, if it was not started anew in between (sound).
NoValue == [gained |-> 0, spent |-> 0, sound |-> FALSE]

TypeOK ==
  /\ time_in_state \in [Cpu -> Table \cup {Unreadable}]
  /\ spent \in [Cpu -> [Frequency -> 0 .. MaxTime]]
  /\ base \in [Cpu -> [Frequency -> 0 .. MaxTime]]
  /\ time \in 0 .. MaxTime /\ updated \in -1 .. MaxTime
  /\ \A i \in DOMAIN m_sensors : m_sensors[i].m_cpu \in Cpu
  /\ m_error \in {"none", "unreadable", "changed"}
  /\ cpu \in 0 .. m_ncpus /\ build \in BOOLEAN /\ pstate_index \in 0 .. Len(m_sensors)
  /\ changes \in 0 .. MaxChanges /\ broken \in BOOLEAN

Init ==
  /\ time_in_state \in [Cpu -> Table \cup {Unreadable}]
  /\ spent = [c \in Cpu |-> [f \in Frequency |-> 0]] /\ base = spent
  /\ time = 0 /\ updated = -1
  /\ m_sensors = <<>> /\ m_error = "none"
  /\ cpu = 0 /\ build = FALSE /\ pstate_index = 0
  /\ changes = 0 /\ broken = FALSE

Works == m_error = "none" /\ ~broken

----------------------------------------------------------------------------
\* An update period, in which each CPU is at one of its frequencies.
Tick ==
  /\ Works /\ time < MaxTime /\ cpu = 0 /\ updated = time
  /\ \E at \in [Cpu -> Frequency] :
       /\ \A c \in Cpu : time_in_state[c] \in Table \ {<<>>} => at[c] \in Range(time_in_state[c])
       /\ spent' = [c \in Cpu |-> [spent[c] EXCEPT ![at[c]] = @ + 1]]
  /\ time' = time + 1
  /\ UNCHANGED <<time_in_state, base, updated, m_sensors, m_error, cpu, build,
                 pstate_index, changes, broken>>

\* The file of a CPU comes, goes or changes, with its counters or with new ones.
Change(c) ==
  /\ Works /\ changes < MaxChanges /\ changes' = changes + 1
  /\ \E table \in Table \cup {Unreadable} : time_in_state' = [time_in_state EXCEPT ![c] = table]
  /\ base' \in {base, [base EXCEPT ![c] = spent[c]]}
  /\ UNCHANGED <<spent, time, updated, m_sensors, m_error, cpu, build, pstate_index, broken>>

----------------------------------------------------------------------------
(***************************************************************************)
(* update_sensors.                                                         *)
(***************************************************************************)
Begin ==
  /\ Works /\ cpu = 0 /\ updated < time
  /\ updated' = time /\ cpu' = 1 /\ pstate_index' = 0
  /\ build' = (m_sensors = <<>>)
  /\ UNCHANGED <<kernelVars, m_sensors, m_error, broken>>

steps(f) == spent[cpu][f] - base[cpu][f]

\* A new sensor for the i-th row.  Those of the first and, if there are two, of the
\* last row are collected, that is printed.
PState(i) ==
  LET f == time_in_state[cpu][i]
  IN [m_cpu |-> cpu, m_frequency_index |-> i, m_frequency |-> f,
      m_steps |-> steps(f), m_collect |-> i \in {1, Len(time_in_state[cpu])},
      value |-> NoValue, spent |-> spent[cpu][f], base |-> base[cpu][f]]

Updated(pstate) ==
  LET f == pstate.m_frequency
      own == pstate.m_cpu
  IN [pstate EXCEPT
       !.value = [gained |-> steps(f) - pstate.m_steps,
                  spent |-> spent[own][f] - pstate.spent,
                  sound |-> base[own][f] = pstate.base],
       !.m_steps = steps(f), !.spent = spent[own][f], !.base = base[own][f]]

\* Mutant: the CPU is not compared.
IsOfAnyCpu(pstate, i) ==
  pstate.m_frequency_index = i /\ pstate.m_frequency = time_in_state[cpu][i]

\* A sensor of the list is that of the i-th row.
IsOf(pstate, i) ==
  /\ pstate.m_cpu = cpu
  /\ pstate.m_frequency_index = i /\ pstate.m_frequency = time_in_state[cpu][i]

\* The rows in front of the first one that has no sensor are read, also if the
\* hardware changed.
ReadRows ==
  LET table == time_in_state[cpu]
      Beyond(i) == pstate_index + i > Len(m_sensors)
      Own(i) == ~Beyond(i) /\ IsOf(m_sensors[pstate_index + i], i)
  IN \E read \in 0 .. Len(table) :
       /\ \A i \in 1 .. read : Own(i)
       /\ read < Len(table) => ~Own(read + 1)
       /\ m_sensors' = [j \in DOMAIN m_sensors |->
            IF j \in pstate_index + 1 .. pstate_index + read THEN Updated(m_sensors[j])
            ELSE m_sensors[j]]
       /\ pstate_index' = pstate_index + read
       /\ broken' = (read < Len(table) /\ Beyond(read + 1))
       /\ m_error' = IF read < Len(table) /\ ~Beyond(read + 1) THEN "changed"
                     ELSE m_error

update_sensors ==
  /\ Works /\ cpu # 0 /\ cpu' = IF cpu = m_ncpus THEN 0 ELSE cpu + 1
  /\ \/ /\ time_in_state[cpu] = Unreadable
        /\ m_error' = "unreadable" /\ UNCHANGED <<m_sensors, pstate_index, broken>>
     \/ /\ time_in_state[cpu] # Unreadable /\ build
        /\ m_sensors' = m_sensors \o [i \in 1 .. Len(time_in_state[cpu]) |-> PState(i)]
        /\ UNCHANGED <<pstate_index, m_error, broken>>
     \/ /\ time_in_state[cpu] # Unreadable /\ ~build
        /\ ReadRows
  /\ UNCHANGED <<kernelVars, updated, build>>

Next == Tick \/ Begin \/ update_sensors \/ \E c \in Cpu : Change(c)

Spec == Init /\ [][Next]_vars

----------------------------------------------------------------------------
\* The value of a sensor is what its own CPU spent at its own frequency since the
\* sensor was last read, however the files change, unless the kernel has started
\* the counter anew: rows and sensors never get out of step.
TimeOfOwnState ==
  \A i \in DOMAIN m_sensors :
    LET value == m_sensors[i].value IN value.sound => value.gained = value.spent
=============================================================================
