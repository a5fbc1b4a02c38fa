------------------------------- MODULE TEMPer -------------------------------
(***************************************************************************)
(* The USB thermometers of the client on Unix (TEMPer.cpp), in the loop of *)
(* RaspberryApp: the manager looks for a thermometer, reads it, closes it, *)
(* and looks for it again when the next reading is due; the loop prints    *)
(* what was read.  Devices come and go, and a transfer may fail.           *)
(***************************************************************************)
EXTENDS Integers, FiniteSets, FiniteSetsExt

CONSTANTS
  Device,        \* pairs of a bus and a place at this bus, both numbers
  PrintInterval, \* updates between two prints, 45 s in the code
  UpdatePeriod   \* updates between two readings, 900 s in the code

TEMPerAssumption ==
  /\ Device \subseteq Nat \X Nat
  /\ PrintInterval \in Nat /\ UpdatePeriod \in Nat /\ PrintInterval <= UpdatePeriod

VARIABLES
  plugged,  \* devices
  claimed,  \* devices that a sensor nobody refers to keeps open
  m_temper, \* no sensor, what the memory held, or a sensor
  sincePrint, sinceUpdate,
  broken,   \* the memory was used as a sensor
  missed    \* history: a reading that was due and could have been made was not

vars == <<plugged, claimed, m_temper, sincePrint, sinceUpdate, broken, missed>>

Null == [kind |-> "null", m_datapoints |-> 0]
Junk == [kind |-> "junk", m_datapoints |-> 0]
Temper(n) == [kind |-> "sensor", m_datapoints |-> n]

TypeOK ==
  /\ plugged \subseteq Device /\ claimed \subseteq plugged
  /\ m_temper \in {Null, Junk, Temper(0), Temper(1)}
  /\ sincePrint \in 0 .. PrintInterval /\ sinceUpdate \in 0 .. UpdatePeriod
  /\ broken \in BOOLEAN /\ missed \in BOOLEAN

----------------------------------------------------------------------------
\* find_tempers: on each bus the first device that opens; the last bus wins, and
\* the sensors of the others stay open (close_each_time: there is no last attempt).
Opens(d, bad) == d \in plugged \ (claimed \cup bad)
FirstOfBus(bad) ==
  {d \in Device : Opens(d, bad) /\ \A e \in Device : e[1] = d[1] /\ Opens(e, bad) => d[2] <= e[2]}
Winner(bad) == CHOOSE d \in FirstOfBus(bad) : \A e \in FirstOfBus(bad) : e[1] <= d[1]

\* A sensor that is searched for is open, and read at once; then it is closed.
\* The first reading of a device may fail although it was opened.
find_tempers_and_update(bad, fails) ==
  IF FirstOfBus(bad) = {}
  THEN m_temper' = Null /\ claimed' = claimed
  ELSE /\ m_temper' = Temper(IF fails THEN 0 ELSE 1)
       /\ claimed' = claimed \cup (FirstOfBus(bad) \ {Winner(bad)})

\* A sensor is closed after each reading, so between two updates it always is.
IsClosedAndEmpty == m_temper.kind = "sensor" /\ m_temper.m_datapoints = 0

\* update_sensors.  A closed sensor that still holds a reading is neither read nor
\* replaced.
update_sensors ==
  /\ ~broken /\ sincePrint < PrintInterval /\ sincePrint' = sincePrint + 1
  /\ \/ /\ sinceUpdate < UpdatePeriod
        /\ sinceUpdate' = sinceUpdate + 1
        /\ UNCHANGED <<claimed, m_temper, broken, missed>>
     \/ /\ sinceUpdate = UpdatePeriod /\ m_temper = Junk
        /\ broken' = TRUE
        /\ UNCHANGED <<claimed, m_temper, sinceUpdate, missed>>
     \/ /\ sinceUpdate = UpdatePeriod /\ m_temper # Junk
        /\ sinceUpdate' = 0
        /\ \E bad \in SUBSET Device, fails \in BOOLEAN :
             /\ IF m_temper = Null \/ IsClosedAndEmpty
                THEN find_tempers_and_update(bad, fails)
                ELSE UNCHANGED <<claimed, m_temper>>
             /\ missed' = (missed \/ /\ bad = {} /\ ~fails /\ plugged \ claimed # {}
                                     /\ m_temper'.m_datapoints = m_temper.m_datapoints)
        /\ UNCHANGED broken
  /\ UNCHANGED plugged

\* Mutant: what is printed is kept.
Kept == m_temper

\* print_datapoints: this sensor is the last, so its readings decide whether
\* anything is printed.
Cleared == [m_temper EXCEPT !.m_datapoints = 0]

print_datapoints ==
  /\ ~broken /\ sincePrint = PrintInterval /\ sincePrint' = 0
  /\ m_temper' = Cleared
  /\ UNCHANGED <<plugged, claimed, sinceUpdate, broken, missed>>

\* A handle of a device that is gone claims nothing when another takes its place.
Plug(d) ==
  /\ ~broken /\ d \notin plugged /\ plugged' = plugged \cup {d}
  /\ UNCHANGED <<claimed, m_temper, sincePrint, sinceUpdate, broken, missed>>
Unplug(d) ==
  /\ ~broken /\ d \in plugged /\ plugged' = plugged \ {d} /\ claimed' = claimed \ {d}
  /\ UNCHANGED <<m_temper, sincePrint, sinceUpdate, broken, missed>>

Init ==
  /\ plugged \in SUBSET Device /\ claimed = {}
  /\ m_temper \in {Null, Junk}
  /\ sincePrint = 0 /\ sinceUpdate = UpdatePeriod
  /\ broken = FALSE /\ missed = FALSE

Next ==
  \/ update_sensors
  \/ print_datapoints
  \/ \E d \in Device : Plug(d) \/ Unplug(d)

Spec == Init /\ [][Next]_vars

----------------------------------------------------------------------------
\* A reading that is due is made if no transfer fails and a thermometer is plugged
\* that nobody keeps open: prints are frequent enough that none is held back.
NoReadingMissed == ~missed
============================================================================
