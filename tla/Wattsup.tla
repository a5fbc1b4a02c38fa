------------------------------- MODULE Wattsup -------------------------------
(***************************************************************************)
(* The Watts Up? meter of the client (sensors/Wattsup.cpp): finding the    *)
(* port it is at, the commands that set it up, its measurements, its       *)
(* silence and its return.  There are two versions of the code, one for    *)
(* Windows and one for Linux; `windows' says which one was built.          *)
(*                                                                         *)
(* One step of the sensor is one turn of the loops of its update(): the    *)
(* meter, and whoever pulls its plug, act in between.  Packets are whole   *)
(* here; how they are found in the bytes is in module PacketReader.  A     *)
(* packet may be cut, though: its end comes with a later read.             *)
(***************************************************************************)
EXTENDS Integers, Sequences, SequencesExt, FiniteSetsExt

CONSTANTS
  NumPorts,      \* 10 on Linux, 16 on Windows
  ReplyTimeout,  \* 5 s; also the silence after which the port is closed
  LinuxPeriod,   \* 10 s between two searches
  WindowsPeriod, \* 60 s
  MaxLag,        \* bound: seconds between two calls of update_sensors
  MaxChanges,    \* bound: how often something happens to a port
  NULL

Port == 1 .. NumPorts
Late == ReplyTimeout + 1  \* later than any limit
Longest == Max({LinuxPeriod, WindowsPeriod}) + 1

Packet == {"n", "watts", "other"}  \* a reply; measurements of watts or not
Commands == <<"fields", "memory", "logging">>

\* An open or closed sensor.  waited is the age of a command that waits for its reply,
\* or -1, and silent that of the last read; line is what the meter has sent and
\* was not read.  fresh: it has sent something since; half: a packet was cut.
WattsupSensor ==
  [port : Port, open : BOOLEAN, gone : BOOLEAN,
   m_commands : {Commands, <<"memory", "logging">>, <<"logging">>, <<>>},
   waited : -1 .. Late, silent : 0 .. Late, line : Seq(Packet),
   fresh : BOOLEAN, half : BOOLEAN]

ASSUME WattsupAssumption ==
  /\ NumPorts \in Nat /\ ReplyTimeout \in Nat /\ MaxChanges \in Nat
  /\ LinuxPeriod \in Nat /\ WindowsPeriod \in Nat
  /\ MaxLag \in 1 .. ReplyTimeout
  /\ NULL \notin WattsupSensor

VARIABLES
  windows,
  device,    \* what is at each port: nothing, a device that does not answer
             \* (deaf), or a meter, with its settings
  changes,
  m_wattsup, \* the sensor, or NULL
  points,    \* it has datapoints that were not printed yet
  notWatts,  \* history: a datapoint was not made of watts
  pc,        \* in update_sensors: the sensor's update() goes on
  lag,       \* seconds since update_sensors did something
  searched,  \* seconds since find_wattsups, or FindWattsups, was counted
  broken     \* the queue of commands was used after it was cleared

sensorVars == <<m_wattsup, points, notWatts, pc>>
vars == <<windows, device, changes, sensorVars, lag, searched, broken>>

Device == [kind : {"none", "deaf", "meter"}, fields : {"watts", "other"},
           logs : BOOLEAN]
NoDevice == [kind |-> "none", fields |-> "other", logs |-> FALSE]

TypeOK ==
  /\ windows \in BOOLEAN
  /\ device \in [Port -> Device]
  /\ changes \in 0 .. MaxChanges
  /\ m_wattsup \in WattsupSensor \cup {NULL}
  /\ points \in BOOLEAN /\ notWatts \in BOOLEAN
  /\ pc \in {"idle", "update"}
  /\ lag \in 0 .. MaxLag
  /\ searched \in 0 .. Longest
  /\ broken \in BOOLEAN

Init ==
  /\ windows \in BOOLEAN
  /\ device \in [Port -> {NoDevice, [NoDevice EXCEPT !.kind = "deaf"],
                          [NoDevice EXCEPT !.kind = "meter"]}]
  /\ changes = 0
  /\ m_wattsup = NULL /\ points = FALSE /\ notWatts = FALSE
  /\ pc = "idle" /\ lag = 1 /\ searched = Longest
  /\ broken = FALSE

----------------------------------------------------------------------------
(***************************************************************************)
(* The port of an open sensor.                                             *)
(***************************************************************************)
IsOpen == m_wattsup # NULL /\ m_wattsup.open

\* The meter hears what is written, and is heard.
Connected ==
  IsOpen /\ ~m_wattsup.gone /\ device[m_wattsup.port].kind = "meter"

\* WattsupSensor(): the port is open, the commands wait; nothing was read ever.
NewSensor(p) ==
  [port |-> p, open |-> TRUE, gone |-> FALSE, m_commands |-> Commands,
   waited |-> -1, silent |-> Late, line |-> <<>>, fresh |-> FALSE,
   half |-> FALSE]

\* close(): what was read and what was to be sent is forgotten.
Closed(s) == [s EXCEPT !.open = FALSE, !.gone = FALSE, !.m_commands = <<>>,
                       !.waited = -1, !.silent = Late, !.line = <<>>,
                       !.fresh = FALSE, !.half = FALSE]

\* ... and the meter is told to log by itself.
Close ==
  /\ m_wattsup' = Closed(m_wattsup)
  /\ device' = IF Connected
                 THEN [device EXCEPT ![m_wattsup.port].logs = FALSE] ELSE device
  /\ pc' = "idle"

----------------------------------------------------------------------------
(***************************************************************************)
(* update_sensors: is there a meter?                                       *)
(***************************************************************************)
\* A sensor that is closed is deleted, once its datapoints have been printed.
Lost == m_wattsup # NULL => ~m_wattsup.open /\ ~points

First(p, ports) == \A q \in ports : p <= q

\* The ports at which a device can be opened.
Openable == {p \in Port : device[p].kind # "none"}

\* Linux: whatever is at the first port that opens is taken for the meter.
FindLinux ==
  \/ /\ searched < LinuxPeriod
     /\ m_wattsup' = NULL /\ pc' = "idle"
     /\ UNCHANGED <<device, searched>>
  \/ /\ searched >= LinuxPeriod
     /\ searched' = 0
     /\ \/ Openable = {} /\ m_wattsup' = NULL /\ pc' = "idle"
        \/ \E p \in Openable :
             First(p, Openable) /\ m_wattsup' = NewSensor(p) /\ pc' = "update"
     /\ UNCHANGED device

\* identify(): the logging is stopped; if the next packet is the version, it is a
\* meter.  A measurement of a meter that was logging may come before.
Identified(found) ==
  \A p \in Port :
    /\ p \in found => device[p].kind = "meter"
    /\ device[p].kind = "meter" /\ p \notin found => device[p].logs

\* The ports are tried until a meter is found; the logging of each is stopped.
Tried(found) == {p \in Port : First(p, found)}

\* Windows: the first meter that answers.
FindOnWindows ==
  /\ \E found \in SUBSET Port :
       /\ Identified(found)
       /\ device' = [p \in Port |-> IF p \in Tried(found)
                                      THEN [device[p] EXCEPT !.logs = FALSE]
                                      ELSE device[p]]
       /\ \/ found = {} /\ m_wattsup' = NULL /\ pc' = "idle"
          \/ \E p \in found :
               First(p, found) /\ m_wattsup' = NewSensor(p) /\ pc' = "update"

\* The period is looked at only when there was no sensor at all.
FindWindows ==
  \/ /\ m_wattsup = NULL /\ searched <= WindowsPeriod
     /\ pc' = "idle" /\ UNCHANGED <<device, m_wattsup, searched>>
  \/ /\ m_wattsup = NULL /\ searched > WindowsPeriod
     /\ searched' = 0 /\ FindOnWindows
  \/ /\ m_wattsup # NULL
     /\ FindOnWindows /\ UNCHANGED searched

\* Once a second: look for a meter, or update the sensor.
UpdateSensors ==
  /\ pc = "idle" /\ lag > 0
  /\ lag' = 0
  /\ \/ Lost /\ ~windows /\ FindLinux
     \/ Lost /\ windows /\ FindWindows
     \/ /\ ~Lost
        /\ pc' = IF IsOpen THEN "update" ELSE "idle"
        /\ UNCHANGED <<device, m_wattsup, searched>>
  /\ points' = (points /\ ~Lost)
  /\ UNCHANGED <<notWatts, broken>>

----------------------------------------------------------------------------
(***************************************************************************)
(* WattsupSensor::update().                                                *)
(***************************************************************************)
Command1 == Head(m_wattsup.m_commands)

\* What the meter does with a command; it answers the first one.
Told(command) ==
  [device EXCEPT ![m_wattsup.port] =
     CASE command = "fields" -> [@ EXCEPT !.fields = "watts"]
       [] command = "memory" -> @
       [] command = "logging" -> [@ EXCEPT !.logs = TRUE]]

Answered(s, command) ==
  IF command = "fields" /\ Connected
    THEN [s EXCEPT !.line = Append(@, "n"), !.fresh = TRUE] ELSE s

\* The command is written, and is done with unless it waits for a reply.
Sent(s) == IF Command1 = "fields" THEN [s EXCEPT !.waited = 0]
                               ELSE [s EXCEPT !.m_commands = Tail(@)]

\* On Linux, a failure to write is ignored.
WriteThrows == windows /\ m_wattsup.gone

\* On Windows a write to a port that is gone throws: close() clears the queue, of
\* which the loop goes on to use the front.
SendCommand ==
  /\ m_wattsup.m_commands # <<>> /\ m_wattsup.waited = -1
  /\ \/ /\ WriteThrows
        /\ broken' = TRUE
        /\ UNCHANGED <<device, m_wattsup>>
     \/ /\ ~WriteThrows
        /\ device' = IF Connected THEN Told(Command1) ELSE device
        /\ m_wattsup' = Answered(Sent(m_wattsup), Command1)
        /\ UNCHANGED broken
  /\ UNCHANGED <<points, notWatts, pc>>

ReplyTimedOut ==
  /\ m_wattsup.m_commands # <<>> /\ m_wattsup.waited > ReplyTimeout
  /\ Close
  /\ UNCHANGED <<points, notWatts, broken>>

\* Windows: to ask a port that is gone for bytes throws.
ReadThrows == windows /\ m_wattsup.gone

\* All of the line can be read, or not the end of its last packet; if that packet
\* has been cut before, its end has come now.
Cut == {FALSE} \cup
  {m_wattsup.fresh /\ Len(m_wattsup.line) > (IF m_wattsup.half THEN 1 ELSE 0)}

\* The packets that read() finds.
FoundLinux(cut) == IF cut THEN Front(m_wattsup.line) ELSE m_wattsup.line

\* The Windows version does not look for the rest of a packet of which it has the
\* head: it drops what has come.
FoundWindows(cut) == IF m_wattsup.half THEN <<>> ELSE FoundLinux(cut)

Found(cut) == IF windows THEN FoundWindows(cut) ELSE FoundLinux(cut)

\* Mutant: m_last_read_time is set by every read.
SilenceOver(s) == 0

Silence(s) == IF s.fresh THEN 0 ELSE s.silent

\* What is left after `used' packets were taken, or after there was none to take.
After(s, used, cut) ==
  LET dropped == windows /\ s.half IN
  [s EXCEPT !.silent = Silence(s), !.fresh = cut,
            !.line = IF dropped THEN <<>> ELSE SubSeq(@, used + 1, Len(@)),
            !.half = cut /\ ~dropped /\ used = Len(Found(cut))]

\* Mutant: any packet is taken for the reply.
AnyReply(found) == found # <<>>

IsReply(found) == IsPrefix(<<"n">>, found)

AwaitsReply ==
  m_wattsup.m_commands # <<>> /\ m_wattsup.waited \in 0 .. ReplyTimeout

\* The next packet is the reply, or it is dropped, or there is none yet.
ReadReply ==
  /\ AwaitsReply /\ ~ReadThrows
  /\ \E cut \in Cut :
       LET found == Found(cut) IN
       IF IsReply(found)
         THEN /\ m_wattsup' = [After(m_wattsup, 1, cut) EXCEPT
                                !.m_commands = Tail(@), !.waited = -1]
              /\ UNCHANGED pc
         ELSE /\ m_wattsup' = After(m_wattsup, IF found = <<>> THEN 0 ELSE 1, cut)
              /\ pc' = "idle"
  /\ UNCHANGED <<device, points, notWatts, broken>>

\* All packets are read; the last measurement counts.  Silence closes the port.
ReadData ==
  /\ m_wattsup.m_commands = <<>> /\ ~ReadThrows
  /\ \E cut \in Cut :
       LET found == Found(cut)
           data == {i \in DOMAIN found : found[i] # "n"}
       IN
       /\ points' = (points \/ data # {})
       /\ notWatts' = (notWatts \/ \E i \in data : /\ \A j \in data : j <= i
                                                  /\ found[i] = "other")
       /\ IF Silence(m_wattsup) > ReplyTimeout
            THEN Close
            ELSE /\ m_wattsup' = After(m_wattsup, Len(found), cut)
                 /\ pc' = "idle" /\ UNCHANGED device
  /\ UNCHANGED broken

ReadFails ==
  /\ AwaitsReply \/ m_wattsup.m_commands = <<>>
  /\ ReadThrows
  /\ Close
  /\ UNCHANGED <<points, notWatts, broken>>

Update ==
  /\ pc = "update"
  /\ SendCommand \/ ReplyTimedOut \/ ReadReply \/ ReadData \/ ReadFails
  /\ UNCHANGED lag

\* print_datapoints, between two updates.
PrintDatapoints ==
  /\ pc = "idle" /\ points
  /\ points' = FALSE
  /\ UNCHANGED <<windows, device, changes, m_wattsup, notWatts, pc, lag, searched,
                 broken>>

----------------------------------------------------------------------------
(***************************************************************************)
(* Time and the ports.                                                     *)
(***************************************************************************)
Older(age, limit) == IF age < limit THEN age + 1 ELSE age

\* A meter that logs sends a measurement each second.
Aged(s) ==
  LET old == [s EXCEPT !.silent = Older(@, Late),
                       !.waited = IF @ = -1 THEN @ ELSE Older(@, Late)] IN
  IF Connected /\ device[s.port].logs
    THEN [old EXCEPT !.line = Append(@, device[s.port].fields), !.fresh = TRUE]
    ELSE old

Tick ==
  /\ pc = "idle" /\ lag < MaxLag
  /\ lag' = lag + 1
  /\ searched' = Older(searched, Longest)
  /\ m_wattsup' = IF IsOpen THEN Aged(m_wattsup) ELSE m_wattsup
  /\ UNCHANGED <<windows, device, changes, points, notWatts, pc, broken>>

\* A plug is pulled; an open port goes dead.
Unplug(p) ==
  /\ device[p].kind # "none"
  /\ device' = [device EXCEPT ![p] = NoDevice]
  /\ m_wattsup' = IF IsOpen /\ m_wattsup.port = p
                    THEN [m_wattsup EXCEPT !.gone = TRUE, !.line = <<>>,
                                           !.fresh = FALSE]
                    ELSE m_wattsup

\* A device is connected; a meter may have been set up and may log.
Plug(p) ==
  /\ device[p].kind = "none"
  /\ ~windows => ~(IsOpen /\ m_wattsup.port = p)
  /\ \E d \in Device : d.kind # "none" /\ device' = [device EXCEPT ![p] = d]
  /\ UNCHANGED m_wattsup

\* A meter falls silent, or answers again.
Hush(p) ==
  /\ device[p].kind # "none"
  /\ device' = [device EXCEPT ![p].kind = IF @ = "deaf" THEN "meter" ELSE "deaf"]
  /\ UNCHANGED m_wattsup

Change ==
  /\ changes < MaxChanges /\ changes' = changes + 1
  /\ \E p \in Port : Unplug(p) \/ Plug(p) \/ Hush(p)
  /\ UNCHANGED <<windows, points, notWatts, pc, lag, searched, broken>>

Work ==
  /\ ~broken
  /\ \/ UpdateSensors
     \/ Update /\ UNCHANGED searched
  /\ UNCHANGED <<windows, changes>>

Next == Work \/ PrintDatapoints \/ Tick \/ Change

\* The application calls update_sensors at least each MaxLag seconds, and prints
\* now and then.
Spec == Init /\ [][Next]_vars /\ WF_vars(Work) /\ WF_vars(Tick) /\ SF_vars(PrintDatapoints)

----------------------------------------------------------------------------
(***************************************************************************)
(* What the sensor promises.                                               *)
(***************************************************************************)
\* A datapoint is never made of another field than watts, although the meter may
\* be set up for others, and log, when its port is opened: what it says before it
\* replies to the command that selects the fields is not used.
WattsAreWatts == ~notWatts

\* A sensor's datapoints go with a trickle, or stay: neither silence nor a search
\* loses them.
KeptUntilSent == [][points /\ ~points' => PrintDatapoints]_vars

\* On Windows, a meter is there, and packets are not cut.  On Linux, it is the
\* first device that opens: another one is taken for the meter again and again.
Available ==
  IF windows
    THEN /\ \E p \in Port : device[p].kind = "meter"
         /\ m_wattsup = NULL \/ ~m_wattsup.half
    ELSE Openable # {} /\ device[Min(Openable)].kind = "meter"

\* Whatever happened to the ports, a meter that stays is found and read.
Recovers == <>[](Available /\ ~broken) => []<>points
=============================================================================
