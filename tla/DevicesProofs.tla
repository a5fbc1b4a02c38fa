---------------------------- MODULE DevicesProofs ----------------------------
(***************************************************************************)
(* Proofs about the devices that the client and the server read: the       *)
(* Watts Up? meter (Wattsup, for every number of ports, every timeout and  *)
(* period, and both versions of the code), the packets on its line         *)
(* (PacketReader, as R), the USB thermometers (TEMPer, as T) and the       *)
(* Arduino thermometer (ArduinoTemp, as A).                                *)
(***************************************************************************)
EXTENDS MCDevices, SequenceTheorems, WellFoundedInduction, TLAPS

\* The sensor is updated only while its port is open.
UpdateInv == pc = "update" => IsOpen

\* Once the meter was told to send watts, which its reply shows, it is set up for
\* them, unless it was pulled out; ...
Told1(s) == s.m_commands # Commands \/ \E i \in DOMAIN s.line : s.line[i] = "n"
SetUp(s) ==
  ~s.gone => /\ device[s.port].kind # "none"
             /\ Told1(s) => device[s.port].fields = "watts"

\* ... and other measurements come before the reply.
EarlyOnly(s) ==
  \A j \in DOMAIN s.line :
    s.line[j] = "other" => /\ s.m_commands = Commands
                           /\ \A i \in 1 .. j : s.line[i] # "n"

LineInv == IsOpen => SetUp(m_wattsup) /\ EarlyOnly(m_wattsup)

\* Datapoints are those of a sensor that is there.
PointsInv == points => m_wattsup # NULL

Inv == TypeOK /\ UpdateInv /\ LineInv /\ PointsInv /\ WattsAreWatts

----------------------------------------------------------------------------
(***************************************************************************)
(* Types.                                                                  *)
(***************************************************************************)
\* The limits are in order.
LEMMA Times ==
  /\ Late \in Nat /\ Longest \in Nat /\ 1 \in 0 .. MaxLag
  /\ LinuxPeriod < Longest /\ WindowsPeriod < Longest
<1>1. Max({LinuxPeriod, WindowsPeriod}) \in Nat /\ LinuxPeriod <= Max({LinuxPeriod, WindowsPeriod})
      /\ WindowsPeriod <= Max({LinuxPeriod, WindowsPeriod})
  <2>1. \E x \in {LinuxPeriod, WindowsPeriod} : \A y \in {LinuxPeriod, WindowsPeriod} : x >= y
    BY WattsupAssumption
  <2>2. QED
    BY <2>1, WattsupAssumption DEF Max
<1>2. QED
  BY <1>1, WattsupAssumption DEF Late, Longest

\* An open sensor is a sensor.
LEMMA OpenIs ==
  ASSUME TypeOK, IsOpen
  PROVE  m_wattsup \in WattsupSensor
BY DEF TypeOK, IsOpen

\* What becomes of a sensor.
LEMMA NewIs ==
  ASSUME NEW p \in Port
  PROVE  NewSensor(p) \in WattsupSensor
BY Times, WattsupAssumption DEF NewSensor, WattsupSensor, Late, Commands

\* What close() leaves is a closed sensor.
LEMMA ClosedIs ==
  ASSUME NEW s \in WattsupSensor
  PROVE  Closed(s) \in WattsupSensor /\ ~Closed(s).open
<1>1. -1 \in -1 .. Late /\ Late \in 0 .. Late /\ <<>> \in Seq(Packet)
  BY Times
<1> DEFINE commands == {Commands, <<"memory", "logging">>, <<"logging">>, <<>>}
<1>2. <<>> \in commands
  OBVIOUS
<1>3. WattsupSensor = [port : Port, open : BOOLEAN, gone : BOOLEAN, m_commands : commands,
                       waited : -1 .. Late, silent : 0 .. Late, line : Seq(Packet),
                       fresh : BOOLEAN, half : BOOLEAN]
  BY DEF WattsupSensor
<1> HIDE DEF commands
<1>4. QED
  BY <1>1, <1>2, <1>3 DEF Closed

\* What is left of the line is the end of it.
LEMMA AfterIs ==
  ASSUME TypeOK, IsOpen, NEW cut \in Cut, NEW used \in Nat, used <= Len(Found(cut))
  PROVE  LET s == After(m_wattsup, used, cut) IN
         /\ s \in WattsupSensor
         /\ s.open /\ s.port = m_wattsup.port /\ s.gone = m_wattsup.gone
         /\ s.m_commands = m_wattsup.m_commands
         /\ s.line = <<>> \/ s.line = SubSeq(m_wattsup.line, used + 1, Len(m_wattsup.line))
<1>1. m_wattsup \in WattsupSensor /\ m_wattsup.open
  BY OpenIs DEF IsOpen
<1>2. cut \in BOOLEAN
  BY <1>1 DEF Cut, WattsupSensor
<1> DEFINE line == IF windows /\ m_wattsup.half THEN <<>>
                   ELSE SubSeq(m_wattsup.line, used + 1, Len(m_wattsup.line))
           silent == Silence(m_wattsup)
           half == cut /\ ~(windows /\ m_wattsup.half) /\ used = Len(Found(cut))
<1>3. line \in Seq(Packet)
  BY <1>1 DEF WattsupSensor
<1>4. silent \in 0 .. Late
  BY <1>1, Times DEF Silence, WattsupSensor
<1>5. half \in BOOLEAN
  BY <1>2
<1>6. After(m_wattsup, used, cut) = [m_wattsup EXCEPT !.silent = silent, !.fresh = cut,
                                       !.line = line, !.half = half]
  BY DEF After
<1>7. line = <<>> \/ line = SubSeq(m_wattsup.line, used + 1, Len(m_wattsup.line))
  OBVIOUS
<1> HIDE DEF line, silent, half
<1>8. QED
  BY <1>1, <1>2, <1>3, <1>4, <1>5, <1>6, <1>7 DEF WattsupSensor

\* The packets that are found are the beginning of the line.
LEMMA FoundIs ==
  ASSUME TypeOK, IsOpen, NEW cut \in Cut
  PROVE  /\ Found(cut) \in Seq(Packet)
         /\ Len(Found(cut)) <= Len(m_wattsup.line)
         /\ \A i \in DOMAIN Found(cut) : Found(cut)[i] = m_wattsup.line[i]
         /\ windows /\ m_wattsup.half => Found(cut) = <<>>
<1>1. m_wattsup.line \in Seq(Packet)
  BY OpenIs DEF WattsupSensor
<1>2. cut => Len(m_wattsup.line) > 0
  <2> DEFINE least == IF m_wattsup.half THEN 1 ELSE 0
  <2>1. cut = FALSE \/ (cut <=> m_wattsup.fresh /\ Len(m_wattsup.line) > least)
    BY DEF Cut
  <2>2. least \in {0, 1} /\ Len(m_wattsup.line) \in Nat
    BY <1>1
  <2> HIDE DEF least
  <2>3. QED
    BY <2>1, <2>2
<1>3. CASE cut /\ Found(cut) # <<>>
  <2>1. Found(cut) = SubSeq(m_wattsup.line, 1, Len(m_wattsup.line) - 1)
    <3>1. Found(cut) = Front(m_wattsup.line)
      BY <1>3 DEF Found, FoundWindows, FoundLinux
    <3>2. QED
      BY <3>1 DEF Front
  <2> DEFINE line == m_wattsup.line
             front == SubSeq(line, 1, Len(line) - 1)
  <2>2. Len(line) \in Nat /\ Len(line) > 0 /\ line \in Seq(Packet)
    BY <1>1, <1>2, <1>3
  <2> HIDE DEF line
  <2>3. front \in Seq(Packet) /\ Len(front) = Len(line) - 1 /\ \A i \in 1 .. Len(front) : front[i] = line[i]
    <3>1. \A i \in 1 .. Len(line) - 1 : line[i] \in Packet
      BY <2>2
    <3> DEFINE n == Len(line) - 1
    <3>2. n \in Nat /\ 1 \in Int /\ n \in Int
      BY <2>2
    <3> HIDE DEF n
    <3>3. /\ SubSeq(line, 1, n) \in Seq(Packet)
          /\ Len(SubSeq(line, 1, n)) = IF 1 <= n THEN n - 1 + 1 ELSE 0
          /\ \A i \in 1 .. n - 1 + 1 : SubSeq(line, 1, n)[i] = line[1 + i - 1]
      BY <3>1, <3>2, SubSeqProperties DEF n
    <3>4. Len(SubSeq(line, 1, n)) = n /\ \A i \in 1 .. n : SubSeq(line, 1, n)[i] = line[i]
      BY <3>2, <3>3
    <3>5. QED
      BY <3>3, <3>4 DEF n
  <2>4. ~(windows /\ m_wattsup.half)
    BY <1>3 DEF Found, FoundWindows
  <2> HIDE DEF front
  <2>5. Found(cut) = front
    BY <2>1 DEF front, line
  <2>6. QED
    BY <2>2, <2>3, <2>4, <2>5 DEF line
<1>4. CASE Found(cut) = <<>>
  BY <1>1, <1>4
<1>5. CASE ~cut /\ Found(cut) # <<>>
  <2>1. Found(cut) = m_wattsup.line /\ ~(windows /\ m_wattsup.half)
    BY <1>5 DEF Found, FoundWindows, FoundLinux
  <2>2. QED
    BY <1>1, <2>1
<1>6. QED
  BY <1>3, <1>4, <1>5

\* A reply is found; its command is done with.
LEMMA ReplyIs ==
  ASSUME NEW found \in Seq(Packet)
  PROVE  IsReply(found) <=> 1 <= Len(found) /\ found[1] = "n"
BY DEF IsReply, IsPrefix

\* The first command is done with: what is left is not all of them.
LEMMA PoppedIs ==
  ASSUME NEW s \in WattsupSensor, s.m_commands # <<>>
  PROVE  LET t == [s EXCEPT !.m_commands = Tail(s.m_commands), !.waited = -1] IN
         /\ t \in WattsupSensor /\ t.open = s.open /\ t.port = s.port /\ t.gone = s.gone
         /\ t.line = s.line /\ t.m_commands = Tail(s.m_commands)
         /\ t.m_commands # Commands
<1> DEFINE commands == {Commands, <<"memory", "logging">>, <<"logging">>, <<>>}
           tail == Tail(s.m_commands)
<1>1. tail \in commands /\ tail # Commands
  <2>1. CASE s.m_commands = Commands
    BY <2>1 DEF Commands
  <2>2. CASE s.m_commands = <<"memory", "logging">>
    BY <2>2 DEF Commands
  <2>3. CASE s.m_commands = <<"logging">>
    BY <2>3 DEF Commands
  <2>4. QED
    BY <2>1, <2>2, <2>3 DEF WattsupSensor
<1>2. -1 \in -1 .. Late
  BY Times
<1>3. WattsupSensor = [port : Port, open : BOOLEAN, gone : BOOLEAN, m_commands : commands,
                       waited : -1 .. Late, silent : 0 .. Late, line : Seq(Packet),
                       fresh : BOOLEAN, half : BOOLEAN]
  BY DEF WattsupSensor
<1> HIDE DEF commands, tail
<1>4. QED
  BY <1>1, <1>2, <1>3 DEF tail

\* No sensor is NULL.
LEMMA NullIs == NULL \notin WattsupSensor
BY WattsupAssumption

\* The state of the sensor and of the devices, which the steps of update() change.
SensorTypeOK ==
  /\ device \in [Port -> Device]
  /\ m_wattsup \in WattsupSensor \cup {NULL}
  /\ points \in BOOLEAN /\ notWatts \in BOOLEAN
  /\ pc \in {"idle", "update"}
  /\ broken \in BOOLEAN

\* Closing the port keeps the types.
LEMMA CloseType ==
  ASSUME TypeOK, IsOpen, Close
  PROVE  /\ device' \in [Port -> Device] /\ m_wattsup' \in WattsupSensor
         /\ pc' = "idle" /\ ~IsOpen'
<1>1. m_wattsup \in WattsupSensor /\ m_wattsup.port \in Port /\ device \in [Port -> Device]
  BY OpenIs DEF TypeOK, WattsupSensor
<1>2. m_wattsup' \in WattsupSensor /\ ~m_wattsup'.open
  BY <1>1, ClosedIs DEF Close
<1>3. [device[m_wattsup.port] EXCEPT !.logs = FALSE] \in Device
  BY <1>1 DEF Device
<1>4. device' \in [Port -> Device]
  BY <1>1, <1>3 DEF Close
<1>5. QED
  BY <1>2, <1>4 DEF Close, IsOpen

\* A command is told to the meter: what becomes of it and of the sensor.
LEMMA SendIs ==
  ASSUME TypeOK, IsOpen, SendCommand, ~WriteThrows
  PROVE  /\ device' \in [Port -> Device]
         /\ m_wattsup' \in WattsupSensor
         /\ m_wattsup'.open /\ m_wattsup'.port = m_wattsup.port
         /\ m_wattsup'.gone = m_wattsup.gone
         /\ device'[m_wattsup.port].kind = device[m_wattsup.port].kind
         /\ \/ /\ m_wattsup'.m_commands = m_wattsup.m_commands
               /\ m_wattsup.m_commands = Commands /\ Connected
               /\ m_wattsup'.line = Append(m_wattsup.line, "n")
               /\ device'[m_wattsup.port].fields = "watts"
            \/ /\ m_wattsup'.line = m_wattsup.line
               /\ \/ m_wattsup'.m_commands = m_wattsup.m_commands
                  \/ m_wattsup.m_commands # Commands /\ m_wattsup'.m_commands # Commands
               /\ device'[m_wattsup.port].fields \in {device[m_wattsup.port].fields, "watts"}
<1>1. /\ m_wattsup \in WattsupSensor /\ m_wattsup.port \in Port /\ device \in [Port -> Device]
      /\ m_wattsup.open /\ m_wattsup.line \in Seq(Packet)
  BY OpenIs DEF TypeOK, WattsupSensor, IsOpen
<1> DEFINE queue == m_wattsup.m_commands
           p == m_wattsup.port
<1>2. \/ queue = Commands /\ Command1 = "fields"
      \/ queue = <<"memory", "logging">> /\ Command1 = "memory" /\ Tail(queue) = <<"logging">>
      \/ queue = <<"logging">> /\ Command1 = "logging" /\ Tail(queue) = <<>>
  <2>1. queue \in {Commands, <<"memory", "logging">>, <<"logging">>}
    BY <1>1 DEF SendCommand, WattsupSensor
  <2>2. CASE queue = Commands
    BY <2>2 DEF Commands, Command1
  <2>3. CASE queue = <<"memory", "logging">>
    BY <2>3 DEF Command1
  <2>4. CASE queue = <<"logging">>
    BY <2>4 DEF Command1
  <2>5. QED
    BY <2>1, <2>2, <2>3, <2>4
<1>3. /\ device' = IF Connected THEN Told(Command1) ELSE device
      /\ m_wattsup' = Answered(Sent(m_wattsup), Command1)
  BY DEF SendCommand
<1>4. <<"memory", "logging">> # Commands /\ <<"logging">> # Commands /\ <<>> # Commands
  BY DEF Commands
<1>5. CASE Command1 = "fields"
  <2>1. queue = Commands
    BY <1>2, <1>5
  <2>2. device' = IF Connected THEN [device EXCEPT ![p] = [@ EXCEPT !.fields = "watts"]]
                  ELSE device
    BY <1>3, <1>5 DEF Told
  <2>3. [device[p] EXCEPT !.fields = "watts"] \in Device
    BY <1>1 DEF Device
  <2>4. /\ device' \in [Port -> Device] /\ device'[p].kind = device[p].kind
        /\ device'[p].fields \in {device[p].fields, "watts"}
        /\ Connected => device'[p].fields = "watts"
    BY <1>1, <2>2, <2>3 DEF Device
  <2>5. Sent(m_wattsup) = [m_wattsup EXCEPT !.waited = 0]
    BY <1>5 DEF Sent
  <2>6. 0 \in -1 .. Late
    BY Times
  <2>7. [m_wattsup EXCEPT !.waited = 0] \in WattsupSensor
    BY <1>1, <2>6 DEF WattsupSensor
  <2>8. CASE Connected
    <3> DEFINE s == Sent(m_wattsup)
    <3>1. m_wattsup' = [s EXCEPT !.line = Append(s.line, "n"), !.fresh = TRUE]
      BY <1>3, <1>5, <2>8 DEF Answered
    <3>2. /\ s \in WattsupSensor /\ s.line = m_wattsup.line /\ s.open
          /\ s.port = p /\ s.gone = m_wattsup.gone /\ s.m_commands = queue
      BY <1>1, <2>5, <2>7 DEF WattsupSensor
    <3> HIDE DEF s
    <3>3. Append(s.line, "n") \in Seq(Packet)
      BY <1>1, <3>2 DEF Packet
    <3>4. m_wattsup' \in WattsupSensor /\ m_wattsup'.line = Append(s.line, "n") /\ m_wattsup'.open
          /\ m_wattsup'.port = p /\ m_wattsup'.gone = m_wattsup.gone
          /\ m_wattsup'.m_commands = queue
      BY <3>1, <3>2, <3>3 DEF WattsupSensor
    <3>5. m_wattsup'.line = Append(m_wattsup.line, "n") /\ device'[p].fields = "watts"
      BY <2>4, <2>8, <3>2, <3>4
    <3>6. QED
      BY <2>1, <2>4, <2>8, <3>4, <3>5
  <2>9. CASE ~Connected
    <3> DEFINE s == Sent(m_wattsup)
    <3>1. m_wattsup' = s
      BY <1>3, <1>5, <2>9 DEF Answered
    <3>2. /\ s \in WattsupSensor /\ s.line = m_wattsup.line /\ s.open
          /\ s.port = p /\ s.gone = m_wattsup.gone /\ s.m_commands = queue
      BY <1>1, <2>5, <2>7 DEF WattsupSensor
    <3> HIDE DEF s
    <3>3. /\ m_wattsup' \in WattsupSensor /\ m_wattsup'.line = m_wattsup.line /\ m_wattsup'.open
          /\ m_wattsup'.port = p /\ m_wattsup'.gone = m_wattsup.gone
          /\ m_wattsup'.m_commands = queue
      BY <3>1, <3>2
    <3>4. QED
      BY <2>4, <3>3
  <2>10. QED
    BY <2>8, <2>9
<1>6. CASE Command1 # "fields"
  <2>1. m_wattsup' = [m_wattsup EXCEPT !.m_commands = Tail(queue)]
    BY <1>3, <1>6 DEF Answered, Sent
  <2>2. /\ Tail(queue) \in {Commands, <<"memory", "logging">>, <<"logging">>, <<>>}
        /\ queue # Commands /\ Tail(queue) # Commands
    BY <1>2, <1>4, <1>6
  <2>3. \/ device' = device
        \/ device' = [device EXCEPT ![p] = [@ EXCEPT !.logs = TRUE]]
    BY <1>1, <1>2, <1>3, <1>6 DEF Told
  <2>4. [device[p] EXCEPT !.logs = TRUE] \in Device
    BY <1>1 DEF Device
  <2>5. /\ device' \in [Port -> Device] /\ device'[p].kind = device[p].kind
        /\ device'[p].fields = device[p].fields
    BY <1>1, <2>3, <2>4 DEF Device
  <2>6. QED
    BY <1>1, <2>1, <2>2, <2>5 DEF WattsupSensor
<1>7. QED
  BY <1>5, <1>6

\* Every step of update() keeps the types and leaves the sensor open or idle.
LEMMA UpdateType ==
  ASSUME TypeOK, UpdateInv, Update
  PROVE  SensorTypeOK' /\ UpdateInv' /\ m_wattsup' # NULL
<1>1. IsOpen /\ m_wattsup \in WattsupSensor /\ SensorTypeOK
  BY OpenIs DEF Update, UpdateInv, TypeOK, SensorTypeOK
<1>2. CASE Close /\ points' \in BOOLEAN /\ notWatts' \in BOOLEAN /\ broken' = broken
  BY <1>1, <1>2, CloseType, NullIs DEF SensorTypeOK, UpdateInv
<1>3. CASE SendCommand
  <2>1. CASE WriteThrows
    BY <1>1, <1>3, <2>1 DEF SendCommand, SensorTypeOK, UpdateInv, IsOpen
  <2>2. CASE ~WriteThrows
    BY <1>1, <1>3, <2>2, SendIs, NullIs DEF SendCommand, SensorTypeOK, UpdateInv, IsOpen
  <2>3. QED
    BY <2>1, <2>2
<1>4. CASE ReadReply
  <2>1. PICK cut \in Cut :
          LET found == Found(cut) IN
          IF IsReply(found)
            THEN /\ m_wattsup' = [After(m_wattsup, 1, cut) EXCEPT
                                   !.m_commands = Tail(@), !.waited = -1]
                 /\ UNCHANGED pc
            ELSE /\ m_wattsup' = After(m_wattsup, IF found = <<>> THEN 0 ELSE 1, cut)
                 /\ pc' = "idle"
    BY <1>4 DEF ReadReply
  <2>2. Found(cut) \in Seq(Packet)
    BY <1>1, FoundIs
  <2>3. CASE IsReply(Found(cut))
    <3> DEFINE s == After(m_wattsup, 1, cut)
    <3>1. 1 <= Len(Found(cut))
      BY <2>2, <2>3, ReplyIs
    <3>2. s \in WattsupSensor /\ s.open /\ s.m_commands = m_wattsup.m_commands
      BY <1>1, <3>1, AfterIs
    <3>3. m_wattsup' = [s EXCEPT !.m_commands = Tail(s.m_commands), !.waited = -1] /\ pc' = pc
      BY <2>1, <2>3
    <3> HIDE DEF s
    <3>4. m_wattsup' \in WattsupSensor /\ m_wattsup'.open
      BY <1>4, <3>2, <3>3, PoppedIs DEF ReadReply, AwaitsReply
    <3>5. QED
      BY <1>1, <1>4, <3>3, <3>4, NullIs DEF ReadReply, SensorTypeOK, UpdateInv, IsOpen
  <2>4. CASE ~IsReply(Found(cut))
    <3> DEFINE used == IF Found(cut) = <<>> THEN 0 ELSE 1
    <3>1. used \in Nat /\ used <= Len(Found(cut))
      BY <2>2
    <3>2. m_wattsup' = After(m_wattsup, used, cut) /\ pc' = "idle"
      BY <2>1, <2>4
    <3> HIDE DEF used
    <3>3. m_wattsup' \in WattsupSensor
      BY <1>1, <3>1, <3>2, AfterIs
    <3>4. QED
      BY <1>1, <1>4, <3>2, <3>3, NullIs DEF ReadReply, SensorTypeOK, UpdateInv
  <2>5. QED
    BY <2>3, <2>4
<1>5. CASE ReadData
  <2>1. PICK cut \in Cut :
          LET found == Found(cut)
              data == {i \in DOMAIN found : found[i] # "n"}
          IN
          /\ points' = (points \/ data # {})
          /\ notWatts' = (notWatts \/ \E i \in data : /\ \A j \in data : j <= i
                                                     /\ found[i] = "other")
          /\ IF Silence(m_wattsup) > ReplyTimeout
               THEN Close
               ELSE /\ m_wattsup' = After(m_wattsup, Len(found), cut)
                    /\ pc' = "idle" /\ UNCHANGED device
    BY <1>5 DEF ReadData
  <2>2. points' \in BOOLEAN /\ notWatts' \in BOOLEAN
    BY <2>1
  <2>3. CASE Close
    BY <1>2, <1>5, <2>2, <2>3 DEF ReadData
  <2>4. CASE m_wattsup' = After(m_wattsup, Len(Found(cut)), cut) /\ pc' = "idle" /\ UNCHANGED device
    <3>1. Len(Found(cut)) \in Nat /\ Len(Found(cut)) <= Len(Found(cut))
      BY <1>1, FoundIs
    <3>2. m_wattsup' \in WattsupSensor
      BY <1>1, <2>4, <3>1, AfterIs
    <3>3. QED
      BY <1>1, <1>5, <2>2, <2>4, <3>2, NullIs DEF ReadData, SensorTypeOK, UpdateInv
  <2>5. QED
    BY <2>1, <2>3, <2>4
<1>6. CASE ReplyTimedOut \/ ReadFails
  BY <1>1, <1>2, <1>6 DEF ReplyTimedOut, ReadFails, SensorTypeOK
<1>7. QED
  BY <1>3, <1>4, <1>5, <1>6 DEF Update

\* What update_sensors does: it has no sensor, or a new one at an occupied port, or
\* it keeps the one it had.
NewAt(p) == m_wattsup' = NewSensor(p) /\ device'[p].kind # "none" /\ pc' = "update"
NoneLeft == m_wattsup' = NULL /\ pc' = "idle"
Kept == UNCHANGED <<device, m_wattsup>> /\ pc' = IF IsOpen THEN "update" ELSE "idle"

LEMMA SearchIs ==
  ASSUME TypeOK, UpdateSensors
  PROVE  /\ device' \in [Port -> Device] /\ searched' \in 0 .. Longest /\ lag' = 0
         /\ NoneLeft \/ (\E p \in Port : NewAt(p)) \/ Kept
<1>1. device \in [Port -> Device] /\ searched \in 0 .. Longest /\ 0 \in 0 .. Longest
  BY Times DEF TypeOK
<1>2. CASE FindLinux
  <2>1. device' \in [Port -> Device] /\ searched' \in 0 .. Longest
    BY <1>1, <1>2 DEF FindLinux
  <2>2. NoneLeft \/ \E p \in Port : NewAt(p)
    BY <1>2 DEF FindLinux, Openable, NoneLeft, NewAt
  <2>3. QED
    BY <2>1, <2>2 DEF UpdateSensors
<1>3. CASE FindOnWindows /\ searched' \in 0 .. Longest
  <2>1. PICK found \in SUBSET Port :
          /\ Identified(found)
          /\ device' = [p \in Port |-> IF p \in Tried(found)
                                         THEN [device[p] EXCEPT !.logs = FALSE]
                                         ELSE device[p]]
          /\ \/ found = {} /\ m_wattsup' = NULL /\ pc' = "idle"
             \/ \E p \in found :
                  First(p, found) /\ m_wattsup' = NewSensor(p) /\ pc' = "update"
    BY <1>3 DEF FindOnWindows
  <2>2. \A p \in Port : /\ [device[p] EXCEPT !.logs = FALSE] \in Device
                        /\ [device[p] EXCEPT !.logs = FALSE].kind = device[p].kind
    BY <1>1 DEF Device
  <2>3. device' \in [Port -> Device] /\ \A p \in Port : device'[p].kind = device[p].kind
    BY <1>1, <2>1, <2>2
  <2>4. NoneLeft \/ \E p \in Port : NewAt(p)
    BY <2>1, <2>3 DEF Identified, NoneLeft, NewAt
  <2>5. QED
    BY <1>3, <2>3, <2>4 DEF UpdateSensors
<1>4. CASE FindWindows
  <2>1. searched' \in 0 .. Longest
    BY <1>1, <1>4 DEF FindWindows
  <2>2. CASE FindOnWindows
    BY <1>3, <2>1, <2>2
  <2>3. CASE m_wattsup = NULL /\ pc' = "idle" /\ UNCHANGED <<device, m_wattsup, searched>>
    BY <1>1, <2>1, <2>3 DEF NoneLeft, UpdateSensors
  <2>4. QED
    BY <1>4, <2>2, <2>3 DEF FindWindows
<1>5. CASE UNCHANGED <<device, m_wattsup, searched>> /\ pc' = IF IsOpen THEN "update" ELSE "idle"
  BY <1>1, <1>5 DEF Kept, UpdateSensors
<1>6. QED
  BY <1>2, <1>4, <1>5 DEF UpdateSensors

\* A new sensor has heard nothing.
LEMMA NewLine ==
  ASSUME NEW p \in Port, NewAt(p)
  PROVE  m_wattsup' \in WattsupSensor /\ IsOpen' /\ LineInv'
<1>1. m_wattsup' \in WattsupSensor /\ m_wattsup'.open /\ m_wattsup'.port = p
      /\ m_wattsup'.m_commands = Commands /\ m_wattsup'.line = <<>>
  BY NewIs DEF NewAt, NewSensor
<1>2. IsOpen'
  BY <1>1, NullIs DEF IsOpen
<1>3. QED
  BY <1>1, <1>2 DEF LineInv, SetUp, EarlyOnly, Told1, NewAt

\* update_sensors keeps the invariant.
LEMMA UpdateSensorsKeeps ==
  ASSUME Inv, UpdateSensors, UNCHANGED <<windows, changes>>
  PROVE  TypeOK' /\ UpdateInv' /\ LineInv' /\ PointsInv'
<1>1. TypeOK /\ UpdateInv /\ LineInv
  BY DEF Inv
<1>2. /\ windows' \in BOOLEAN /\ changes' \in 0 .. MaxChanges /\ points' \in BOOLEAN
      /\ notWatts' \in BOOLEAN /\ broken' \in BOOLEAN
      /\ device' \in [Port -> Device] /\ searched' \in 0 .. Longest /\ lag' \in 0 .. MaxLag
  BY <1>1, SearchIs, Times, WattsupAssumption DEF TypeOK, UpdateSensors
<1>3. PointsInv'
  <2>1. points' => Kept /\ points
    BY DEF UpdateSensors, Kept, Lost, Inv, PointsInv
  <2>2. QED
    BY <2>1 DEF Kept, Inv, PointsInv
<1>4. CASE NoneLeft
  BY <1>2, <1>3, <1>4 DEF NoneLeft, TypeOK, UpdateInv, LineInv, IsOpen
<1>5. CASE \E p \in Port : NewAt(p)
  BY <1>2, <1>3, <1>5, NewLine DEF NewAt, TypeOK, UpdateInv
<1>6. CASE Kept
  <2>1. m_wattsup' \in WattsupSensor \cup {NULL} /\ pc' \in {"idle", "update"}
    BY <1>1, <1>6 DEF Kept, TypeOK
  <2>2. UpdateInv' /\ LineInv'
    BY <1>1, <1>6 DEF Kept, UpdateInv, LineInv, IsOpen, SetUp, EarlyOnly, Told1
  <2>3. QED
    BY <1>2, <1>3, <2>1, <2>2 DEF TypeOK
<1>7. QED
  BY <1>1, <1>4, <1>5, <1>6, SearchIs

----------------------------------------------------------------------------
(***************************************************************************)
(* Time and the ports.                                                     *)
(***************************************************************************)
\* A second later a meter that logs has sent a measurement.
LEMMA AgedIs ==
  ASSUME TypeOK, IsOpen
  PROVE  LET s == Aged(m_wattsup) IN
         /\ s \in WattsupSensor
         /\ s.open /\ s.port = m_wattsup.port /\ s.gone = m_wattsup.gone
         /\ s.m_commands = m_wattsup.m_commands
         /\ \/ s.line = m_wattsup.line
            \/ /\ Connected
               /\ s.line = Append(m_wattsup.line, device[m_wattsup.port].fields)
<1> DEFINE silent == Older(m_wattsup.silent, Late)
           pending == IF m_wattsup.waited = -1 THEN m_wattsup.waited
                      ELSE Older(m_wattsup.waited, Late)
           old == [m_wattsup EXCEPT !.silent = silent, !.waited = pending]
           field == device[m_wattsup.port].fields
<1>1. /\ m_wattsup \in WattsupSensor /\ m_wattsup.port \in Port /\ m_wattsup.open
      /\ device \in [Port -> Device]
  BY OpenIs DEF TypeOK, WattsupSensor, IsOpen
<1>2. silent \in 0 .. Late /\ pending \in -1 .. Late
  BY <1>1, Times DEF WattsupSensor, Older
<1>3. field \in Packet
  BY <1>1 DEF Device, Packet
<1> HIDE DEF silent, pending
<1>4. /\ old \in WattsupSensor /\ old.open /\ old.port = m_wattsup.port
      /\ old.gone = m_wattsup.gone /\ old.m_commands = m_wattsup.m_commands
      /\ old.line = m_wattsup.line
  BY <1>1, <1>2 DEF WattsupSensor
<1>5. \/ Aged(m_wattsup) = old
      \/ Connected /\ Aged(m_wattsup) = [old EXCEPT !.line = Append(old.line, field), !.fresh = TRUE]
  BY DEF Aged, silent, pending
<1> HIDE DEF old, field
<1>6. Append(old.line, field) \in Seq(Packet)
  BY <1>3, <1>4 DEF WattsupSensor
<1>7. CASE Aged(m_wattsup) = old
  BY <1>4, <1>7
<1>8. CASE Connected /\ Aged(m_wattsup) = [old EXCEPT !.line = Append(old.line, field), !.fresh = TRUE]
  <2>1. /\ Aged(m_wattsup) \in WattsupSensor /\ Aged(m_wattsup).open
        /\ Aged(m_wattsup).port = old.port /\ Aged(m_wattsup).gone = old.gone
        /\ Aged(m_wattsup).m_commands = old.m_commands
        /\ Aged(m_wattsup).line = Append(old.line, field)
    BY <1>4, <1>6, <1>8 DEF WattsupSensor
  <2>2. QED
    BY <1>4, <1>8, <2>1 DEF field
<1>9. QED
  BY <1>5, <1>7, <1>8

\* A measurement after the command that selects watts is one of watts.
LEMMA AgedLine ==
  ASSUME TypeOK, IsOpen, LineInv, m_wattsup' = Aged(m_wattsup), UNCHANGED device
  PROVE  LineInv'
<1> DEFINE line == m_wattsup.line
           field == device[m_wattsup.port].fields
<1>1. /\ m_wattsup'.port = m_wattsup.port /\ m_wattsup'.gone = m_wattsup.gone
      /\ m_wattsup'.m_commands = m_wattsup.m_commands
      /\ \/ m_wattsup'.line = line
         \/ Connected /\ m_wattsup'.line = Append(line, field)
  BY AgedIs
<1>2. line \in Seq(Packet) /\ m_wattsup.port \in Port
  BY OpenIs DEF WattsupSensor
<1>3. SetUp(m_wattsup) /\ EarlyOnly(m_wattsup)
  BY DEF LineInv
<1>4. CASE m_wattsup'.line = line
  BY <1>1, <1>3, <1>4 DEF LineInv, SetUp, EarlyOnly, Told1
<1>5. CASE Connected /\ m_wattsup'.line = Append(line, field)
  <2>1. field \in {"watts", "other"}
    BY <1>2 DEF TypeOK, Device
  <2> DEFINE longer == Append(line, field)
  <2>2. /\ DOMAIN longer = 1 .. Len(line) + 1 /\ DOMAIN line = 1 .. Len(line)
        /\ longer[Len(line) + 1] = field /\ Len(line) \in Nat
        /\ \A i \in 1 .. Len(line) : longer[i] = line[i]
    BY <1>2
  <2> HIDE DEF longer
  <2>3. Told1(m_wattsup)' => Told1(m_wattsup)
    BY <1>1, <1>5, <2>1, <2>2 DEF Told1, longer
  <2>4. SetUp(m_wattsup)'
    BY <1>1, <1>3, <2>3 DEF SetUp
  <2>5. ASSUME field = "other"
        PROVE  m_wattsup.m_commands = Commands /\ \A i \in DOMAIN line : line[i] # "n"
    <3>1. ~Told1(m_wattsup)
      BY <1>3, <1>5, <2>5 DEF SetUp, Connected
    <3>2. QED
      BY <3>1 DEF Told1
  <2>6. ASSUME NEW j \in DOMAIN longer, longer[j] = "other"
        PROVE  m_wattsup.m_commands = Commands /\ \A i \in 1 .. j : longer[i] # "n"
    <3>1. CASE j \in DOMAIN line
      BY <1>3, <2>2, <2>6, <3>1 DEF EarlyOnly
    <3>2. CASE j = Len(line) + 1
      BY <2>2, <2>5, <2>6, <3>2
    <3>3. QED
      BY <2>2, <3>1, <3>2
  <2>7. EarlyOnly(m_wattsup)'
    BY <1>1, <1>5, <2>6 DEF EarlyOnly, longer
  <2>8. QED
    BY <2>4, <2>7 DEF LineInv
<1>6. QED
  BY <1>1, <1>4, <1>5

\* So does a second that passes.
LEMMA TickKeeps ==
  ASSUME Inv, Tick
  PROVE  TypeOK' /\ UpdateInv' /\ LineInv' /\ PointsInv'
<1>1. TypeOK /\ UpdateInv /\ LineInv /\ PointsInv
  BY DEF Inv
<1>2. lag' \in 0 .. MaxLag /\ searched' \in 0 .. Longest
  BY <1>1, Times, WattsupAssumption DEF Tick, TypeOK, Older
<1>3. CASE IsOpen
  <2>1. m_wattsup' = Aged(m_wattsup)
    BY <1>3 DEF Tick
  <2>2. m_wattsup' \in WattsupSensor /\ LineInv'
    BY <1>1, <1>3, <2>1, AgedIs, AgedLine DEF Tick
  <2>3. QED
    BY <1>1, <1>2, <2>2, NullIs DEF Tick, TypeOK, UpdateInv, PointsInv
<1>4. CASE ~IsOpen
  BY <1>1, <1>2, <1>4 DEF Tick, TypeOK, UpdateInv, LineInv, IsOpen, PointsInv
<1>5. QED
  BY <1>3, <1>4

\* So does whatever happens to a port: a device comes back to the port of an open
\* sensor only after that has gone dead.
LEMMA ChangeKeeps ==
  ASSUME Inv, Change
  PROVE  TypeOK' /\ UpdateInv' /\ LineInv' /\ PointsInv'
<1>1. TypeOK /\ UpdateInv /\ LineInv /\ PointsInv
  BY DEF Inv
<1>2. /\ device \in [Port -> Device] /\ changes \in 0 .. MaxChanges
      /\ m_wattsup \in WattsupSensor \cup {NULL}
      /\ IsOpen => m_wattsup.port \in Port
  BY <1>1, OpenIs DEF TypeOK, WattsupSensor
<1>3. changes' \in 0 .. MaxChanges
  BY <1>2, WattsupAssumption DEF Change
<1>4. PICK p \in Port : Unplug(p) \/ Plug(p) \/ Hush(p)
  BY DEF Change
<1>5. CASE Unplug(p)
  <2>1. device' \in [Port -> Device] /\ \A q \in Port \ {p} : device'[q] = device[q]
    BY <1>2, <1>5 DEF Unplug, NoDevice, Device
  <2>2. CASE IsOpen /\ m_wattsup.port = p
    <3>1. m_wattsup \in WattsupSensor /\ <<>> \in Seq(Packet)
      BY <1>1, <2>2, OpenIs
    <3>2. /\ m_wattsup' \in WattsupSensor /\ m_wattsup'.gone /\ m_wattsup'.line = <<>>
          /\ m_wattsup'.open = m_wattsup.open
      BY <1>5, <2>2, <3>1 DEF Unplug, WattsupSensor
    <3>3. LineInv'
      BY <3>2 DEF LineInv, SetUp, EarlyOnly
    <3>4. IsOpen'
      BY <2>2, <3>2, NullIs DEF IsOpen
    <3>5. QED
      BY <1>1, <1>3, <2>1, <3>2, <3>3, <3>4, NullIs DEF Change, TypeOK, UpdateInv, PointsInv
  <2>3. CASE ~(IsOpen /\ m_wattsup.port = p)
    <3>1. m_wattsup' = m_wattsup
      BY <1>5, <2>3 DEF Unplug
    <3>2. IsOpen => device'[m_wattsup.port] = device[m_wattsup.port]
      BY <1>2, <2>1, <2>3
    <3>3. LineInv' /\ UpdateInv'
      BY <1>1, <3>1, <3>2 DEF Change, UpdateInv, LineInv, IsOpen, SetUp, EarlyOnly, Told1
    <3>4. QED
      BY <1>1, <1>3, <2>1, <3>1, <3>3 DEF Change, TypeOK, PointsInv
  <2>4. QED
    BY <2>2, <2>3
<1>6. CASE Plug(p)
  <2>1. PICK d \in Device : d.kind # "none" /\ device' = [device EXCEPT ![p] = d]
    BY <1>6 DEF Plug
  <2>2. device' \in [Port -> Device] /\ \A q \in Port \ {p} : device'[q] = device[q]
    BY <1>2, <2>1
  <2>3. IsOpen /\ ~m_wattsup.gone => m_wattsup.port # p
    BY <1>1, <1>6 DEF Plug, LineInv, SetUp
  <2>4. LineInv' /\ UpdateInv'
    BY <1>1, <1>2, <1>6, <2>2, <2>3
       DEF Change, Plug, UpdateInv, LineInv, IsOpen, SetUp, EarlyOnly, Told1
  <2>5. QED
    BY <1>1, <1>3, <1>6, <2>2, <2>4 DEF Change, Plug, TypeOK, PointsInv
<1>7. CASE Hush(p)
  <2> DEFINE d == [device[p] EXCEPT !.kind = IF @ = "deaf" THEN "meter" ELSE "deaf"]
  <2>1. d \in Device /\ d.kind # "none" /\ d.fields = device[p].fields
    BY <1>2, <1>7 DEF Hush, Device
  <2>2. device' = [device EXCEPT ![p] = d]
    BY <1>7 DEF Hush
  <2> HIDE DEF d
  <2>3. /\ device' \in [Port -> Device]
        /\ \A q \in Port : /\ device'[q].fields = device[q].fields
                          /\ device[q].kind # "none" => device'[q].kind # "none"
    BY <1>2, <2>1, <2>2
  <2>4. LineInv' /\ UpdateInv'
    BY <1>1, <1>2, <1>7, <2>3
       DEF Change, Hush, UpdateInv, LineInv, IsOpen, SetUp, EarlyOnly, Told1
  <2>5. QED
    BY <1>1, <1>3, <1>7, <2>3, <2>4 DEF Change, Hush, TypeOK, PointsInv
<1>8. QED
  BY <1>4, <1>5, <1>6, <1>7

----------------------------------------------------------------------------
(***************************************************************************)
(* update(): what the line holds.                                          *)
(***************************************************************************)
\* The end of a line keeps what held of the line.
LEMMA AfterKeeps ==
  ASSUME TypeOK, IsOpen, LineInv, NEW cut \in Cut, NEW used \in Nat, used <= Len(Found(cut))
  PROVE  LET s == After(m_wattsup, used, cut) IN
         /\ SetUp(s) /\ EarlyOnly(s)
         /\ \A j \in DOMAIN s.line : s.line[j] \in {m_wattsup.line[i] : i \in DOMAIN m_wattsup.line}
<1> DEFINE line == m_wattsup.line
           s == After(m_wattsup, used, cut)
<1>1. /\ line \in Seq(Packet) /\ used <= Len(line)
      /\ SetUp(m_wattsup) /\ EarlyOnly(m_wattsup)
  BY OpenIs, FoundIs DEF WattsupSensor, LineInv
<1>2. /\ s.port = m_wattsup.port /\ s.gone = m_wattsup.gone
      /\ s.m_commands = m_wattsup.m_commands
      /\ s.line = <<>> \/ s.line = SubSeq(line, used + 1, Len(line))
  BY AfterIs
<1> DEFINE rest == SubSeq(line, used + 1, Len(line))
<1>3. \A j \in DOMAIN rest : used + j \in DOMAIN line /\ rest[j] = line[used + j] /\ j \in Nat
  BY <1>1
<1> HIDE DEF line, s, rest
<1>4. \A j \in DOMAIN s.line : used + j \in DOMAIN line /\ s.line[j] = line[used + j] /\ j \in Nat
  <2>1. DOMAIN <<>> = {}
    OBVIOUS
  <2>2. CASE s.line = <<>>
    BY <2>1, <2>2
  <2>3. CASE s.line = rest
    BY <1>3, <2>3
  <2>4. QED
    BY <1>2, <2>2, <2>3 DEF rest
<1>5. SetUp(s)
  BY <1>1, <1>2, <1>4 DEF SetUp, Told1, line
<1>6. ASSUME NEW j \in DOMAIN s.line, s.line[j] = "other"
      PROVE  s.m_commands = Commands /\ \A i \in 1 .. j : s.line[i] # "n"
  <2>1. line[used + j] = "other" /\ used + j \in DOMAIN line
    BY <1>4, <1>6
  <2>2. m_wattsup.m_commands = Commands /\ \A i \in 1 .. used + j : line[i] # "n"
    BY <1>1, <2>1 DEF EarlyOnly, line
  <2>3. \A i \in 1 .. j : i \in DOMAIN s.line
    BY <1>1, <1>2, <1>6 DEF rest
  <2>4. ASSUME NEW i \in 1 .. j
        PROVE  s.line[i] # "n"
    <3>1. s.line[i] = line[used + i] /\ used + i \in 1 .. used + j
      BY <1>4, <1>6, <2>3, <2>4
    <3>2. QED
      BY <2>2, <3>1
  <2>5. QED
    BY <1>2, <2>2, <2>4
<1>7. EarlyOnly(s)
  BY <1>6 DEF EarlyOnly
<1>8. QED
  BY <1>4, <1>5, <1>7 DEF line, s

\* To send a command keeps it: after the first one the line holds its reply.
LEMMA SendKeeps ==
  ASSUME TypeOK, IsOpen, LineInv, SendCommand
  PROVE  LineInv'
<1> DEFINE line == m_wattsup.line
           p == m_wattsup.port
<1>1. line \in Seq(Packet) /\ p \in Port /\ SetUp(m_wattsup) /\ EarlyOnly(m_wattsup)
  BY OpenIs DEF WattsupSensor, LineInv
<1>2. CASE WriteThrows
  BY <1>1, <1>2 DEF SendCommand, LineInv, IsOpen, SetUp, EarlyOnly, Told1
<1>3. CASE ~WriteThrows
  <2>1. /\ m_wattsup'.port = p /\ m_wattsup'.gone = m_wattsup.gone
        /\ device'[p].kind = device[p].kind
    BY <1>3, SendIs
  <2>2. CASE /\ m_wattsup'.m_commands = Commands
             /\ m_wattsup.m_commands = Commands
             /\ m_wattsup'.line = Append(line, "n") /\ device'[p].fields = "watts"
    <3> DEFINE longer == Append(line, "n")
    <3>1. /\ DOMAIN longer = 1 .. Len(line) + 1 /\ DOMAIN line = 1 .. Len(line)
          /\ longer[Len(line) + 1] = "n" /\ Len(line) \in Nat
          /\ \A i \in 1 .. Len(line) : longer[i] = line[i]
      BY <1>1
    <3> HIDE DEF longer
    <3>2. SetUp(m_wattsup)'
      BY <1>1, <2>1, <2>2 DEF SetUp
    <3>3. ASSUME NEW j \in DOMAIN longer, longer[j] = "other"
          PROVE  \A i \in 1 .. j : longer[i] # "n"
      BY <1>1, <3>1, <3>3 DEF EarlyOnly
    <3>4. EarlyOnly(m_wattsup)'
      BY <2>2, <3>3 DEF EarlyOnly, longer
    <3>5. QED
      BY <3>2, <3>4 DEF LineInv
  <2>3. CASE /\ m_wattsup'.line = line
             /\ \/ m_wattsup'.m_commands = m_wattsup.m_commands
                \/ m_wattsup.m_commands # Commands /\ m_wattsup'.m_commands # Commands
             /\ device'[p].fields \in {device[p].fields, "watts"}
    <3>1. Told1(m_wattsup)' <=> Told1(m_wattsup)
      BY <2>3 DEF Told1
    <3>2. SetUp(m_wattsup)'
      BY <1>1, <2>1, <2>3, <3>1 DEF SetUp
    <3>3. EarlyOnly(m_wattsup)'
      BY <1>1, <2>3 DEF EarlyOnly
    <3>4. QED
      BY <3>2, <3>3 DEF LineInv
  <2>4. QED
    BY <1>3, <2>2, <2>3, SendIs
<1>4. QED
  BY <1>2, <1>3

\* The reply is the first packet; so no other measurement is in the line.
LEMMA ReplyKeeps ==
  ASSUME TypeOK, IsOpen, LineInv, ReadReply
  PROVE  LineInv'
<1>1. PICK cut \in Cut :
        LET found == Found(cut) IN
        IF IsReply(found)
          THEN m_wattsup' = [After(m_wattsup, 1, cut) EXCEPT
                              !.m_commands = Tail(@), !.waited = -1]
          ELSE m_wattsup' = After(m_wattsup, IF found = <<>> THEN 0 ELSE 1, cut)
  BY DEF ReadReply
<1>2. device' = device
  BY DEF ReadReply
<1>3. Found(cut) \in Seq(Packet)
  BY FoundIs
<1>4. CASE IsReply(Found(cut))
  <2> DEFINE s == After(m_wattsup, 1, cut)
  <2>1. 1 <= Len(Found(cut)) /\ Found(cut)[1] = "n"
    BY <1>3, <1>4, ReplyIs
  <2>2. 1 \in DOMAIN m_wattsup.line /\ m_wattsup.line[1] = "n"
    BY <1>3, <2>1, FoundIs, OpenIs DEF WattsupSensor
  <2>3. \A j \in DOMAIN m_wattsup.line : m_wattsup.line[j] # "other"
    BY <2>2, OpenIs DEF WattsupSensor, LineInv, EarlyOnly
  <2>4. /\ s \in WattsupSensor /\ s.open /\ s.port = m_wattsup.port
        /\ s.gone = m_wattsup.gone /\ s.m_commands = m_wattsup.m_commands
    BY <2>1, AfterIs
  <2>5. \A j \in DOMAIN s.line : s.line[j] # "other"
    BY <2>1, <2>3, AfterKeeps
  <2>6. m_wattsup' = [s EXCEPT !.m_commands = Tail(s.m_commands), !.waited = -1]
    BY <1>1, <1>4
  <2> HIDE DEF s
  <2>7. /\ m_wattsup'.line = s.line /\ m_wattsup'.port = s.port /\ m_wattsup'.gone = s.gone
    BY <2>4, <2>6, PoppedIs DEF ReadReply, AwaitsReply
  <2>8. SetUp(m_wattsup)'
    BY <1>2, <2>2, <2>4, <2>7 DEF LineInv, SetUp, Told1
  <2>9. EarlyOnly(m_wattsup)'
    BY <2>5, <2>7 DEF EarlyOnly
  <2>10. QED
    BY <2>8, <2>9 DEF LineInv
<1>5. CASE ~IsReply(Found(cut))
  <2> DEFINE used == IF Found(cut) = <<>> THEN 0 ELSE 1
             s == After(m_wattsup, used, cut)
  <2>1. used \in Nat /\ used <= Len(Found(cut))
    BY <1>3
  <2>2. m_wattsup' = s
    BY <1>1, <1>5
  <2> HIDE DEF used
  <2>3. SetUp(s) /\ EarlyOnly(s)
    BY <2>1, AfterKeeps
  <2> HIDE DEF s
  <2>4. QED
    BY <1>2, <2>2, <2>3 DEF LineInv, SetUp, EarlyOnly, Told1
<1>6. QED
  BY <1>4, <1>5

\* A measurement is used once all commands are done with.
LEMMA DataKeeps ==
  ASSUME TypeOK, IsOpen, LineInv, ReadData, WattsAreWatts
  PROVE  LineInv' /\ WattsAreWatts'
<1>1. PICK cut \in Cut :
        LET found == Found(cut)
            data == {i \in DOMAIN found : found[i] # "n"}
        IN
        /\ notWatts' = (notWatts \/ \E i \in data : /\ \A j \in data : j <= i
                                                   /\ found[i] = "other")
        /\ IF Silence(m_wattsup) > ReplyTimeout
             THEN Close
             ELSE /\ m_wattsup' = After(m_wattsup, Len(found), cut)
                  /\ pc' = "idle" /\ UNCHANGED device
  BY DEF ReadData
<1>2. m_wattsup.m_commands # Commands
  BY DEF ReadData, Commands
<1>3. \A j \in DOMAIN m_wattsup.line : m_wattsup.line[j] # "other"
  BY <1>2 DEF LineInv, EarlyOnly
<1>4. \A j \in DOMAIN Found(cut) : Found(cut)[j] # "other"
  <2>1. /\ Found(cut) \in Seq(Packet) /\ m_wattsup.line \in Seq(Packet)
        /\ Len(Found(cut)) <= Len(m_wattsup.line)
    BY FoundIs, OpenIs DEF WattsupSensor
  <2>2. \A i \in DOMAIN Found(cut) : i \in DOMAIN m_wattsup.line
    BY <2>1
  <2>3. QED
    BY <1>3, <2>2, FoundIs
<1>5. WattsAreWatts'
  BY <1>1, <1>4 DEF WattsAreWatts
<1>6. CASE Close
  BY <1>5, <1>6, CloseType DEF LineInv
<1>7. CASE m_wattsup' = After(m_wattsup, Len(Found(cut)), cut) /\ UNCHANGED device
  <2> DEFINE s == After(m_wattsup, Len(Found(cut)), cut)
  <2>1. SetUp(s) /\ EarlyOnly(s)
    BY FoundIs, AfterKeeps
  <2> HIDE DEF s
  <2>2. m_wattsup' = s
    BY <1>7 DEF s
  <2>3. QED
    BY <1>5, <1>7, <2>1, <2>2 DEF LineInv, SetUp, EarlyOnly, Told1
<1>8. QED
  BY <1>1, <1>6, <1>7

\* Every step of update() keeps the invariant.
LEMMA UpdateKeeps ==
  ASSUME Inv, Update, UNCHANGED <<windows, changes, searched>>
  PROVE  Inv'
<1>1. TypeOK /\ UpdateInv /\ LineInv /\ WattsAreWatts /\ IsOpen
  BY DEF Inv, Update, UpdateInv
<1>2. TypeOK' /\ UpdateInv' /\ PointsInv'
  BY <1>1, UpdateType DEF Update, TypeOK, SensorTypeOK, PointsInv
<1>3. CASE SendCommand
  BY <1>1, <1>2, <1>3, SendKeeps DEF SendCommand, WattsAreWatts, Inv
<1>4. CASE ReplyTimedOut \/ ReadFails
  BY <1>1, <1>2, <1>4, CloseType DEF ReplyTimedOut, ReadFails, WattsAreWatts, LineInv, Inv
<1>5. CASE ReadReply
  BY <1>1, <1>2, <1>5, ReplyKeeps DEF ReadReply, WattsAreWatts, Inv
<1>6. CASE ReadData
  BY <1>1, <1>2, <1>6, DataKeeps DEF Inv
<1>7. QED
  BY <1>3, <1>4, <1>5, <1>6 DEF Update

----------------------------------------------------------------------------
(***************************************************************************)
(* The theorems.                                                           *)
(***************************************************************************)
\* The invariant holds at the start, ...
LEMMA InitInv ==
  ASSUME Init
  PROVE  Inv
<1>1. NoDevice \in Device /\ [NoDevice EXCEPT !.kind = "deaf"] \in Device
      /\ [NoDevice EXCEPT !.kind = "meter"] \in Device
  BY DEF NoDevice, Device
<1>2. device \in [Port -> Device]
  BY <1>1 DEF Init
<1>3. 0 \in 0 .. MaxChanges /\ Longest \in 0 .. Longest
  BY Times, WattsupAssumption
<1>4. TypeOK
  BY <1>2, <1>3, Times DEF Init, TypeOK
<1>5. ~IsOpen
  BY DEF Init, IsOpen
<1>6. QED
  BY <1>4, <1>5 DEF Init, Inv, PointsInv, UpdateInv, LineInv, WattsAreWatts

\* ... and every step keeps it.
LEMMA NextInv ==
  ASSUME Inv, [Next]_vars
  PROVE  Inv'
<1>1. CASE UpdateSensors /\ UNCHANGED <<windows, changes>>
  BY <1>1, UpdateSensorsKeeps DEF UpdateSensors, Inv, WattsAreWatts
<1>2. CASE Update /\ UNCHANGED <<windows, changes, searched>>
  BY <1>2, UpdateKeeps
<1>3. CASE PrintDatapoints
  BY <1>3 DEF PrintDatapoints, Inv, TypeOK, PointsInv, UpdateInv, LineInv, IsOpen, SetUp, EarlyOnly, Told1,
              WattsAreWatts
<1>4. CASE Tick
  BY <1>4, TickKeeps DEF Tick, Inv, WattsAreWatts
<1>5. CASE Change
  BY <1>5, ChangeKeeps DEF Change, Inv, WattsAreWatts
<1>6. CASE UNCHANGED vars
  BY <1>6 DEF vars, sensorVars, Inv, TypeOK, PointsInv, UpdateInv, LineInv, IsOpen, SetUp, EarlyOnly, Told1,
              WattsAreWatts
<1>7. QED
  BY <1>1, <1>2, <1>3, <1>4, <1>5, <1>6 DEF Next, Work

\* Every variable keeps its type.
THEOREM TypeCorrect == Spec => []TypeOK
<1>1. Init => Inv
  BY InitInv
<1>2. Inv /\ [Next]_vars => Inv'
  BY NextInv
<1>3. Inv => TypeOK
  BY DEF Inv
<1>4. QED
  BY <1>1, <1>2, <1>3, PTL DEF Spec

\* A datapoint is never made of another field than watts, whatever the meter was
\* set up for before, and whenever it is pulled out, put back or silent.
THEOREM WattsOnly == Spec => []WattsAreWatts
<1>1. Init => Inv
  BY InitInv
<1>2. Inv /\ [Next]_vars => Inv'
  BY NextInv
<1>3. Inv => WattsAreWatts
  BY DEF Inv
<1>4. QED
  BY <1>1, <1>2, <1>3, PTL DEF Spec

\* The datapoints of a sensor are only ever removed by printing them: the deletion
\* of a closed sensor waits for that.
THEOREM PointsKept == Spec => KeptUntilSent
<1>1. PointsInv /\ [Next]_vars => [points /\ ~points' => PrintDatapoints]_vars
  <2> SUFFICES ASSUME PointsInv, Next, points, ~points'
               PROVE  PrintDatapoints
    BY DEF vars, sensorVars
  <2>1. ~UpdateSensors
    BY DEF UpdateSensors, Lost, PointsInv
  <2>2. ~Update
    <3>1. ~SendCommand /\ ~ReplyTimedOut /\ ~ReadReply /\ ~ReadData /\ ~ReadFails
      BY DEF SendCommand, ReplyTimedOut, ReadReply, ReadData, ReadFails
    <3>2. QED
      BY <3>1 DEF Update
  <2>3. ~Tick /\ ~Change
    BY DEF Tick, Change
  <2>4. QED
    BY <2>1, <2>2, <2>3 DEF Next, Work
<1>2. Init => Inv
  BY InitInv
<1>3. Inv /\ [Next]_vars => Inv'
  BY NextInv
<1>4. Inv => PointsInv
  BY DEF Inv
<1>5. QED
  BY <1>1, <1>2, <1>3, <1>4, PTL DEF Spec, KeptUntilSent

----------------------------------------------------------------------------
(***************************************************************************)
(* The packets of the meter's line (PacketReader), for any line, any size  *)
(* of the buffer and any way the reads cut the line.                       *)
(***************************************************************************)
\* The place of the line before the first one in buffer b.
Base(b, r) == r - Len(b)

Window(b, r) ==
  /\ b \in Seq(R!Place) /\ Len(b) <= r /\ Len(b) <= Room
  /\ \A i \in 1 .. Len(b) : b[i] = Base(b, r) + i

\* Nothing begins between the last packet and position pos0 of a buffer.
Clear(base, pos0) ==
  /\ R!EndOf(Len(packets)) \in 0 .. base
  /\ \A q \in R!EndOf(Len(packets)) + 1 .. base + pos0 : sent[q] # "sharp"

\* A packet begins at position pos0 of a buffer and does not end before pos1.
Begun(base, pos0, pos1) ==
  /\ pos0 < pos1
  /\ sent[base + pos0 + 1] = "sharp"
  /\ \A q \in base + pos0 + 2 .. base + pos1 : sent[q] # "semicolon"

SearchInv(base) == \/ buf_pos0 = 0 /\ buf_pos1 = 0
                   \/ Begun(base, buf_pos0, buf_pos1)

PacketInv ==
  /\ R!ReaderAssumption
  /\ R!TypeOK
  /\ Window(buf, received)
  /\ Clear(Base(buf, received), buf_pos0)
  /\ SearchInv(Base(buf, received))
  /\ R!Framed

\* What a call of meter_packet_read starts its searches with: the buffer after
\* the reads.
Searching(b, r) ==
  /\ PacketInv
  /\ r \in 0 .. N /\ received' = r /\ sent' = sent
  /\ Window(b, r)
  /\ Clear(Base(b, r), buf_pos0)
  /\ SearchInv(Base(b, r))
  /\ buf_pos0 <= Len(b) /\ buf_pos1 <= Len(b)

----------------------------------------------------------------------------
\* The reads append the next characters to the window.
LEMMA ReadsExtendWindow ==
  ASSUME PacketInv, NEW k \in 0 .. Room, R!Read(k)
  PROVE  Searching(buf \o [i \in 1 .. k |-> received + i], received + k)
<1> DEFINE new == [i \in 1 .. k |-> received + i]
           b == buf \o new
           r == received + k
<1>1. /\ r \in 0 .. N /\ received' = r /\ sent' = sent /\ Len(b) <= Room
      /\ k \in Nat /\ received \in Nat /\ N \in Nat
  BY DEF R!Read, PacketInv, R!TypeOK, R!ReaderAssumption
<1>2. new \in Seq(R!Place) /\ Len(new) = k
  <2>1. \A i \in 1 .. k : received + i \in R!Place
    BY <1>1 DEF R!Place
  <2>2. new \in [1 .. k -> R!Place]
    BY <2>1
  <2> QED
    BY <1>1, <2>2
<1>3. /\ b \in Seq(R!Place) /\ Len(b) = Len(buf) + k
      /\ \A i \in 1 .. Len(buf) : b[i] = buf[i]
      /\ \A i \in Len(buf) + 1 .. Len(b) : b[i] = new[i - Len(buf)]
  BY <1>2 DEF PacketInv, Window
<1>4. /\ Base(b, r) = Base(buf, received) /\ Len(buf) \in Nat
      /\ Base(buf, received) \in Int
  BY <1>1, <1>3 DEF Base, PacketInv, Window
<1>5. Window(b, r)
  <2>1. Len(b) <= r
    BY <1>1, <1>3, <1>4 DEF PacketInv, Window
  <2>2. ASSUME NEW i \in 1 .. Len(b) PROVE b[i] = Base(b, r) + i
    <3>1. CASE i \in 1 .. Len(buf)
      BY <3>1, <1>3, <1>4 DEF PacketInv, Window
    <3>2. CASE i \in Len(buf) + 1 .. Len(b)
      <4>1. b[i] = new[i - Len(buf)] /\ i - Len(buf) \in 1 .. k
        BY <3>2, <1>1, <1>3, <1>4
      <4>2. b[i] = received + (i - Len(buf))
        BY <4>1
      <4> QED
        BY <4>2, <1>1, <1>4 DEF Base
    <3> QED
      BY <3>1, <3>2, <1>4
  <2> QED
    BY <1>1, <1>3, <2>1, <2>2 DEF Window
<1> HIDE DEF new, b, r
<1>6. Clear(Base(b, r), buf_pos0) /\ SearchInv(Base(b, r))
  BY <1>4 DEF PacketInv
<1>7. buf_pos0 <= Len(b) /\ buf_pos1 <= Len(b)
  <2>1. Len(buf) <= Len(b) /\ Len(b) \in Nat
    BY <1>1, <1>3, <1>4
  <2>2. buf_pos0 <= Len(buf) /\ buf_pos1 <= Len(buf) /\ buf_pos0 \in Nat
        /\ buf_pos1 \in Nat
    BY <1>4 DEF PacketInv, R!TypeOK
  <2> QED
    BY <1>4, <2>1, <2>2
<1>8. Searching(b, r)
  BY <1>1, <1>5, <1>6, <1>7 DEF Searching
<1> QED
  BY <1>8 DEF b, r, new

----------------------------------------------------------------------------
\* Facts about a buffer that every search needs.
LEMMA SearchingTypes ==
  ASSUME NEW b, NEW r, Searching(b, r)
  PROVE  /\ r \in Nat /\ Len(b) \in Nat /\ Base(b, r) \in Nat
         /\ b \in Seq(R!Place) /\ Len(b) <= Room
         /\ \A i \in 1 .. Len(b) : b[i] = Base(b, r) + i
         /\ r = Base(b, r) + Len(b)
         /\ N \in Nat /\ Room \in Nat
         /\ buf_pos0 \in Nat /\ buf_pos1 \in Nat
         /\ packets \in Seq(Seq(R!Place))
<1>1. /\ r \in 0 .. N /\ N \in Nat /\ Room \in Nat
      /\ packets \in Seq(Seq(R!Place))
  BY DEF Searching, PacketInv, R!TypeOK, R!ReaderAssumption
<1>2. /\ b \in Seq(R!Place) /\ Len(b) <= r /\ Len(b) <= Room
      /\ \A i \in 1 .. Len(b) : b[i] = Base(b, r) + i
  BY DEF Searching, Window
<1>3. Len(b) \in Nat
  BY <1>2
<1>4. buf_pos0 \in Nat /\ buf_pos1 \in Nat
  <2>1. Len(buf) \in Nat
    BY DEF Searching, PacketInv, R!TypeOK
  <2> QED
    BY <2>1 DEF Searching, PacketInv, R!TypeOK
<1> QED
  BY <1>1, <1>2, <1>3, <1>4 DEF Base

\* What stays true of the packets and of the line when none is delivered.
LEMMA UnchangedPackets ==
  ASSUME NEW b, NEW r, Searching(b, r), UNCHANGED packets
  PROVE  /\ R!Framed'
         /\ packets' \in Seq(Seq(R!Place))
         /\ sent' \in [R!Place -> R!Char]
         /\ received' = r /\ r \in 0 .. N
         /\ \A base, p : Clear(base, p) => Clear(base, p)'
         /\ \A base, p, q : Begun(base, p, q) => Begun(base, p, q)'
<1>1. sent' = sent /\ received' = r /\ r \in 0 .. N /\ PacketInv
  BY DEF Searching
<1>2. R!Framed'
  BY <1>1 DEF PacketInv, R!Framed, R!IsFrame, R!EndOf
<1>3. packets' \in Seq(Seq(R!Place)) /\ sent' \in [R!Place -> R!Char]
  BY <1>1 DEF PacketInv, R!TypeOK
<1>4. ASSUME NEW base, NEW p, Clear(base, p) PROVE Clear(base, p)'
  BY <1>1, <1>4 DEF Clear, R!EndOf
<1>5. ASSUME NEW base, NEW p, NEW q, Begun(base, p, q) PROVE Begun(base, p, q)'
  BY <1>1, <1>5 DEF Begun
<1> QED
  BY <1>1, <1>2, <1>3, <1>4, <1>5

\* Useless characters are dropped.
LEMMA DiscardInv ==
  ASSUME NEW b, NEW r, Searching(b, r), Clear(Base(b, r), Len(b)), R!Discard
  PROVE  PacketInv'
<1>1. /\ buf' = <<>> /\ buf_pos0' = 0 /\ buf_pos1' = 0 /\ packets' = packets
  BY DEF R!Discard
<1>2. /\ R!Framed' /\ packets' \in Seq(Seq(R!Place)) /\ sent' \in [R!Place -> R!Char]
      /\ received' = r /\ r \in 0 .. N /\ sent' = sent
  BY <1>1, UnchangedPackets DEF Searching
<1>3. r \in Nat /\ r = Base(b, r) + Len(b) /\ N \in Nat /\ Room \in Nat
      /\ Base(b, r) \in Nat /\ Len(b) \in Nat
  BY SearchingTypes
<1>4. Base(buf, received)' = r
  BY <1>1, <1>2, <1>3 DEF Base
<1>5. R!TypeOK'
  BY <1>1, <1>2, <1>3 DEF R!TypeOK
<1>6. Window(buf, received)'
  BY <1>1, <1>2, <1>3 DEF Window
<1>7. Clear(Base(buf, received), buf_pos0)'
  BY <1>1, <1>2, <1>3, <1>4 DEF Clear, R!EndOf
<1>0. R!ReaderAssumption
  BY DEF Searching, PacketInv
<1> QED
  BY <1>0, <1>1, <1>2, <1>5, <1>6, <1>7 DEF PacketInv, SearchInv, R!ReaderAssumption

\* The packet goes on behind the end of the buffer.
LEMMA KeepInv ==
  ASSUME NEW b, NEW r, Searching(b, r), NEW pos0 \in Nat, pos0 < Len(b),
         Clear(Base(b, r), pos0), Begun(Base(b, r), pos0, Len(b)),
         R!KeepSearching(b, pos0)
  PROVE  PacketInv'
<1>1. /\ buf' = b /\ buf_pos0' = pos0 /\ buf_pos1' = Len(b)
      /\ packets' = packets
  BY DEF R!KeepSearching
<1>2. /\ R!Framed' /\ packets' \in Seq(Seq(R!Place)) /\ sent' \in [R!Place -> R!Char]
      /\ received' = r /\ r \in 0 .. N /\ sent' = sent
  BY <1>1, UnchangedPackets DEF Searching
<1>3. /\ Len(b) \in Nat /\ Len(b) <= Room /\ b \in Seq(R!Place)
  BY SearchingTypes
<1>4. Base(buf, received)' = Base(b, r)
  BY <1>1, <1>2 DEF Base
<1>5. R!TypeOK'
  BY <1>1, <1>2, <1>3 DEF R!TypeOK
<1>6. Window(buf, received)'
  BY <1>1, <1>2 DEF Window, Base, Searching
<1>7. Clear(Base(buf, received), buf_pos0)'
  BY <1>1, <1>2, <1>4 DEF Clear, R!EndOf
<1>8. SearchInv(Base(buf, received))'
  BY <1>1, <1>2, <1>4 DEF SearchInv, Begun
<1>0. R!ReaderAssumption
  BY DEF Searching, PacketInv
<1> QED
  BY <1>0, <1>2, <1>5, <1>6, <1>7, <1>8 DEF PacketInv, R!ReaderAssumption

\* What a cut of the buffer holds.
LEMMA CutIs ==
  ASSUME NEW S, NEW b \in Seq(S), NEW from \in 1 .. Len(b) + 1,
         NEW to \in 0 .. Len(b), from <= to + 1
  PROVE  /\ SubSeq(b, from, to) \in Seq(S)
         /\ Len(SubSeq(b, from, to)) = to + 1 - from
         /\ \A i \in 1 .. to + 1 - from :
              /\ SubSeq(b, from, to)[i] = b[from + i - 1]
              /\ from + i - 1 \in 1 .. Len(b)
<1>1. Len(b) \in Nat /\ from \in Int /\ to \in Int
  BY LenProperties
<1>2. \A i \in from .. to : b[i] \in S
  <2>1. \A i \in from .. to : i \in 1 .. Len(b)
    BY <1>1
  <2> QED
    BY <2>1, ElementOfSeq
<1>3. /\ SubSeq(b, from, to) \in Seq(S)
      /\ Len(SubSeq(b, from, to)) = IF from <= to THEN to - from + 1 ELSE 0
      /\ \A i \in 1 .. to - from + 1 : SubSeq(b, from, to)[i] = b[from + i - 1]
  BY <1>1, <1>2, SubSeqProperties
<1>4. to - from + 1 = to + 1 - from
  BY <1>1
<1>5. \A i \in 1 .. to + 1 - from : from + i - 1 \in 1 .. Len(b)
  BY <1>1
<1> QED
  BY <1>1, <1>3, <1>4, <1>5

\* A complete packet is cut out of the buffer.
LEMMA DeliverInv ==
  ASSUME NEW b, NEW r, Searching(b, r),
         NEW pos0 \in Nat, NEW pos1 \in Nat, pos1 < Len(b),
         Clear(Base(b, r), pos0), Begun(Base(b, r), pos0, pos1),
         sent[Base(b, r) + pos1 + 1] = "semicolon",
         R!Deliver(b, pos0, pos1)
  PROVE  PacketInv'
<1> DEFINE p == SubSeq(b, pos0 + 1, pos1 + 1)
           rest == SubSeq(b, pos1 + 2, Len(b))
           base == Base(b, r)
<1>1. /\ packets' = Append(packets, p) /\ buf' = rest
      /\ buf_pos0' = 0 /\ buf_pos1' = 0
  BY DEF R!Deliver
<1>2. /\ r \in Nat /\ Len(b) \in Nat /\ base \in Nat
      /\ Len(b) <= Room /\ r = base + Len(b) /\ N \in Nat /\ Room \in Nat
  BY SearchingTypes
<1>a. packets \in Seq(Seq(R!Place))
  BY SearchingTypes
<1>b. b \in Seq(R!Place)
  BY SearchingTypes
<1>c. \A i \in 1 .. Len(b) : b[i] = base + i
  BY SearchingTypes
<1>3. /\ PacketInv /\ sent' = sent /\ received' = r /\ r \in 0 .. N /\ pos0 < pos1
      /\ sent \in [R!Place -> R!Char]
  BY DEF Searching, Begun, PacketInv, R!TypeOK
<1>4. /\ p \in Seq(R!Place) /\ Len(p) = pos1 + 1 - pos0 /\ Len(p) >= 2
      /\ \A j \in 1 .. Len(p) : p[j] = base + pos0 + j
  <2> HIDE DEF base
  <2>0. pos0 + 1 \in 1 .. Len(b) + 1 /\ pos1 + 1 \in 0 .. Len(b)
    BY <1>2, <1>3
  <2>4. pos0 + 1 <= pos1 + 1 + 1 /\ pos1 + 1 + 1 - (pos0 + 1) = pos1 + 1 - pos0
    BY <1>2, <1>3
  <2>5. /\ p \in Seq(R!Place) /\ Len(p) = pos1 + 1 - pos0
        /\ \A j \in 1 .. Len(p) : /\ p[j] = b[pos0 + 1 + j - 1]
                                 /\ pos0 + 1 + j - 1 \in 1 .. Len(b)
    BY <1>b, <2>0, <2>4, CutIs
  <2>1. p \in Seq(R!Place) /\ Len(p) = pos1 + 1 - pos0
    BY <2>5
  <2>6. \A j \in 1 .. Len(p) : pos0 + 1 + j - 1 = pos0 + j
    BY <1>2, <2>1
  <2>2. \A j \in 1 .. Len(p) : p[j] = b[pos0 + j] /\ pos0 + j \in 1 .. Len(b)
    BY <2>5, <2>6
  <2>3. \A j \in 1 .. Len(p) : p[j] = base + (pos0 + j)
    BY <1>2, <1>c, <2>2
  <2> HIDE DEF p, base
  <2> QED
    BY <1>2, <1>3, <2>1, <2>3
<1>5. /\ rest \in Seq(R!Place) /\ Len(rest) = Len(b) - pos1 - 1
      /\ \A i \in 1 .. Len(rest) : rest[i] = base + pos1 + 1 + i
  <2> HIDE DEF base
  <2>0. /\ pos1 + 2 \in 1 .. Len(b) + 1 /\ Len(b) \in 0 .. Len(b)
        /\ pos1 + 2 <= Len(b) + 1 /\ Len(b) + 1 - (pos1 + 2) = Len(b) - pos1 - 1
    BY <1>2
  <2>4. /\ rest \in Seq(R!Place) /\ Len(rest) = Len(b) - pos1 - 1
        /\ \A i \in 1 .. Len(rest) : /\ rest[i] = b[pos1 + 2 + i - 1]
                                    /\ pos1 + 2 + i - 1 \in 1 .. Len(b)
    BY <1>b, <2>0, CutIs
  <2>1. rest \in Seq(R!Place) /\ Len(rest) = Len(b) - pos1 - 1
    BY <2>4
  <2>5. \A i \in 1 .. Len(rest) : pos1 + 2 + i - 1 = pos1 + 1 + i
    BY <1>2, <2>1
  <2>2. \A i \in 1 .. Len(rest) : /\ rest[i] = b[pos1 + 1 + i]
                                 /\ pos1 + 1 + i \in 1 .. Len(b)
    BY <2>4, <2>5
  <2>3. \A i \in 1 .. Len(rest) : rest[i] = base + (pos1 + 1 + i)
    BY <1>2, <1>c, <2>2
  <2> HIDE DEF rest, base
  <2> QED
    BY <1>2, <2>1, <2>3
<1> HIDE DEF p, rest
<1>l. PICK last \in Nat : last = Len(packets)
  BY <1>a
<1>6. /\ Len(packets') = last + 1 /\ packets' \in Seq(Seq(R!Place))
      /\ packets'[last + 1] = p /\ last \in Nat
      /\ \A i \in 1 .. last : packets'[i] = packets[i]
  BY <1>1, <1>a, <1>4, <1>l
<1>d. /\ R!EndOf(last) \in 0 .. base
      /\ \A q \in R!EndOf(last) + 1 .. base + pos0 : sent[q] # "sharp"
  BY <1>l DEF Clear
<1>e. \A i \in 1 .. last : R!IsFrame(i)
  BY <1>3, <1>l DEF PacketInv, R!Framed
<1>f. last + 1 # 0 /\ last + 1 - 1 = last /\ last \in 0 .. last
  BY <1>6
<1>7. \A i \in 0 .. last : R!EndOf(i)' = R!EndOf(i)
  BY <1>6 DEF R!EndOf
<1>8. R!EndOf(last + 1)' = base + pos1 + 1
  <2>1. p[Len(p)] = base + pos0 + Len(p)
    BY <1>4
  <2>2. R!EndOf(last + 1)' = p[Len(p)]
    BY <1>6, <1>f DEF R!EndOf
  <2> HIDE DEF base
  <2> QED
    BY <1>2, <1>4, <2>1, <2>2
<1>9. R!Framed'
  <2>1. ASSUME NEW i \in 1 .. last PROVE R!IsFrame(i)'
    <3>1. R!IsFrame(i)
      BY <1>e
    <3>2. R!EndOf(i)' = R!EndOf(i) /\ R!EndOf(i - 1)' = R!EndOf(i - 1)
      <4>1. i \in 0 .. last /\ i - 1 \in 0 .. last
        BY <1>6
      <4> QED
        BY <1>7, <4>1
    <3>3. packets'[i] = packets[i]
      BY <1>6
    <3> QED
      BY <1>3, <3>1, <3>2, <3>3 DEF R!IsFrame
  <2>2. R!IsFrame(last + 1)'
    <3>1. R!EndOf(last + 1 - 1)' = R!EndOf(last) /\ R!EndOf(last) \in 0 .. base
      BY <1>7, <1>d, <1>f
    <3>2. p[1] = base + pos0 + 1 /\ p[Len(p)] = base + pos1 + 1
      <4> HIDE DEF base
      <4> QED
        BY <1>2, <1>4
    <3>3. \A j \in 1 .. Len(p) : p[j] = p[1] + j - 1
      <4> HIDE DEF base
      <4> QED
        BY <1>2, <1>4, <3>2
    <3>4. \A q \in R!EndOf(last) + 1 .. base + pos0 : sent[q] # "sharp"
      BY <1>d
    <3>5. /\ sent[base + pos0 + 1] = "sharp" /\ sent[base + pos1 + 1] = "semicolon"
          /\ \A q \in base + pos0 + 2 .. base + pos1 : sent[q] # "semicolon"
      BY DEF Begun
    <3> HIDE DEF base
    <3>6. \A q \in R!EndOf(last) + 1 .. p[1] - 1 : sent[q] # "sharp"
      BY <1>2, <3>1, <3>2, <3>4
    <3>7. \A q \in p[1] + 1 .. base + pos1 + 1 - 1 : sent[q] # "semicolon"
      BY <1>2, <3>2, <3>5
    <3>8. R!EndOf(last) < p[1]
      BY <1>2, <3>1, <3>2
    <3>9. sent[p[1]] = "sharp" /\ sent[p[Len(p)]] = "semicolon"
      BY <3>2, <3>5
    <3>a. /\ sent'[p[1]] = "sharp" /\ sent'[p[Len(p)]] = "semicolon"
          /\ \A q \in R!EndOf(last) + 1 .. p[1] - 1 : sent'[q] # "sharp"
      BY <1>3, <3>6, <3>9
    <3>b. \A q \in p[1] + 1 .. R!EndOf(last + 1)' - 1 : sent'[q] # "semicolon"
      <4>1. PICK e \in Int : e = R!EndOf(last + 1)'
        BY <1>2, <1>8
      <4>2. e = base + pos1 + 1
        BY <1>8, <4>1
      <4>3. \A q \in p[1] + 1 .. e - 1 : sent'[q] # "semicolon"
        <5>1. /\ p[1] \in Int /\ base \in Int
              /\ \A q \in p[1] + 1 .. base + pos1 + 1 - 1 :
                   sent[q] # "semicolon"
          BY <1>2, <3>2, <3>7
        <5>2. \A q \in p[1] + 1 .. e - 1 : sent[q] # "semicolon"
          BY <4>2, <5>1
        <5> QED
          BY <1>3, <5>2, Zenon
      <4> QED
        BY <4>1, <4>3
    <3> QED
      BY <1>4, <1>6, <3>1, <3>3, <3>8, <3>a, <3>b DEF R!IsFrame
  <2>3. \A i \in 1 .. last + 1 : i \in 1 .. last \/ i = last + 1
    BY <1>6
  <2>4. \A i \in 1 .. last + 1 : R!IsFrame(i)'
    BY <2>1, <2>2, <2>3
  <2> QED
    BY <1>6, <2>4 DEF R!Framed
<1> HIDE DEF base
<1>10. Base(buf, received)' = base + pos1 + 1
  BY <1>1, <1>2, <1>3, <1>5 DEF Base
<1>11. R!TypeOK'
  <2>1. Len(rest) <= Room /\ Len(rest) \in Nat
    BY <1>2, <1>5
  <2> QED
    BY <1>1, <1>3, <1>5, <1>6, <2>1 DEF R!TypeOK
<1>12. Window(buf, received)'
  <2>1. Len(rest) <= Room /\ Len(rest) <= r
    BY <1>2, <1>5
  <2> QED
    BY <1>1, <1>3, <1>5, <1>10, <2>1 DEF Window
<1>13. Clear(Base(buf, received), buf_pos0)'
  <2>1. R!EndOf(Len(packets))' = base + pos1 + 1
    BY <1>6, <1>8
  <2>2. base + pos1 + 1 \in 0 .. base + pos1 + 1
    BY <1>2
  <2>3. \A q \in base + pos1 + 1 + 1 .. base + pos1 + 1 + 0 : sent[q] # "sharp"
    BY <1>2
  <2> QED
    BY <1>1, <1>3, <1>10, <2>1, <2>2, <2>3 DEF Clear
<1>0. R!ReaderAssumption
  BY DEF Searching, PacketInv
<1> QED
  BY <1>0, <1>1, <1>9, <1>11, <1>12, <1>13 DEF PacketInv, SearchInv, R!ReaderAssumption

\* The two searches of meter_packet_read.
LEMMA FindEndInv ==
  ASSUME NEW b, NEW r, Searching(b, r),
         NEW pos0 \in Nat, NEW from \in Nat, pos0 < Len(b), from <= Len(b),
         Clear(Base(b, r), pos0), Begun(Base(b, r), pos0, from),
         R!FindEnd(b, pos0, from)
  PROVE  PacketInv'
<1>1. PICK pos1 \in from .. Len(b) :
        /\ R!Finds(b, from, "semicolon", pos1)
        /\ \/ pos1 < Len(b) /\ R!Deliver(b, pos0, pos1)
           \/ pos1 = Len(b) /\ R!KeepSearching(b, pos0)
  BY DEF R!FindEnd
<1>2. /\ Len(b) \in Nat /\ Base(b, r) \in Nat /\ pos1 \in Nat /\ pos0 < from
      /\ pos0 < pos1 /\ from <= pos1 /\ pos1 <= Len(b)
  BY <1>1, SearchingTypes DEF Begun
<1>3. \A i \in 1 .. Len(b) : b[i] = Base(b, r) + i
  BY SearchingTypes
<1>4. Begun(Base(b, r), pos0, pos1)
  <2>1. ASSUME NEW q \in Base(b, r) + pos0 + 2 .. Base(b, r) + pos1
        PROVE  sent[q] # "semicolon"
    <3>1. CASE q <= Base(b, r) + from
      BY <2>1, <3>1, <1>2 DEF Begun
    <3>2. CASE q > Base(b, r) + from
      <4> DEFINE j == q - Base(b, r) - 1
      <4>1. j \in from .. pos1 - 1 /\ j + 1 \in 1 .. Len(b)
            /\ Base(b, r) + (j + 1) = q
        BY <2>1, <3>2, <1>2
      <4> HIDE DEF j
      <4>2. b[j + 1] = q
        BY <1>3, <4>1
      <4> QED
        BY <1>1, <4>1, <4>2 DEF R!Finds
    <3> QED
      BY <3>1, <3>2, <1>2
  <2>2. sent[Base(b, r) + pos0 + 1] = "sharp"
    BY DEF Begun
  <2> QED
    BY <1>2, <2>1, <2>2 DEF Begun
<1>5. CASE pos1 < Len(b) /\ R!Deliver(b, pos0, pos1)
  <2>1. b[pos1 + 1] = Base(b, r) + (pos1 + 1)
    BY <1>2, <1>3, <1>5
  <2>2. sent[b[pos1 + 1]] = "semicolon"
    BY <1>1, <1>5 DEF R!Finds
  <2>3. sent[Base(b, r) + pos1 + 1] = "semicolon"
    BY <1>2, <2>1, <2>2
  <2> QED
    BY <1>2, <1>4, <1>5, <2>3, DeliverInv
<1>6. CASE pos1 = Len(b) /\ R!KeepSearching(b, pos0)
  BY <1>2, <1>4, <1>6, KeepInv
<1> QED
  BY <1>1, <1>5, <1>6

\* The search for '#', from where the last call left off, and for the ';' after it
\* (meter.c:360-410) keep the invariant.
LEMMA FindPacketInv ==
  ASSUME NEW b, NEW r, Searching(b, r), R!FindPacket(b)
  PROVE  PacketInv'
<1>1. PICK pos0 \in buf_pos0 .. Len(b) :
        /\ R!Finds(b, buf_pos0, "sharp", pos0)
        /\ \/ pos0 < Len(b) /\ R!FindEnd(b, pos0, pos0 + 1)
           \/ pos0 = Len(b) /\ R!Discard
  BY DEF R!FindPacket
<1>2. /\ Len(b) \in Nat /\ Base(b, r) \in Nat /\ pos0 \in Nat
      /\ buf_pos0 \in Nat /\ buf_pos0 <= pos0 /\ pos0 <= Len(b)
  BY <1>1, SearchingTypes
<1>3. \A i \in 1 .. Len(b) : b[i] = Base(b, r) + i
  BY SearchingTypes
<1>4. Clear(Base(b, r), pos0)
  <2>1. Clear(Base(b, r), buf_pos0)
    BY DEF Searching
  <2>2. PICK last \in Nat : last = R!EndOf(Len(packets))
    BY <2>1, <1>2 DEF Clear
  <2>3. ASSUME NEW q \in last + 1 .. Base(b, r) + pos0
        PROVE  sent[q] # "sharp"
    <3>1. CASE q <= Base(b, r) + buf_pos0
      BY <2>1, <2>2, <2>3, <3>1, <1>2 DEF Clear
    <3>2. CASE q > Base(b, r) + buf_pos0
      <4> DEFINE j == q - Base(b, r) - 1
      <4>1. j \in buf_pos0 .. pos0 - 1 /\ j + 1 \in 1 .. Len(b)
            /\ Base(b, r) + (j + 1) = q
        <5>1. q \in Nat /\ q <= Base(b, r) + pos0
          BY <2>3, <1>2
        <5> QED
          BY <3>2, <1>2, <5>1
      <4> HIDE DEF j
      <4>2. b[j + 1] = q
        BY <1>3, <4>1
      <4> QED
        BY <1>1, <4>1, <4>2 DEF R!Finds
    <3> QED
      BY <3>1, <3>2, <2>2, <1>2
  <2> QED
    BY <2>1, <2>2, <2>3 DEF Clear
<1>5. CASE pos0 < Len(b) /\ R!FindEnd(b, pos0, pos0 + 1)
  <2>1. b[pos0 + 1] = Base(b, r) + (pos0 + 1)
    BY <1>2, <1>3, <1>5
  <2>2. sent[b[pos0 + 1]] = "sharp"
    BY <1>1, <1>5 DEF R!Finds
  <2>3. sent[Base(b, r) + pos0 + 1] = "sharp"
    BY <1>2, <2>1, <2>2
  <2>4. Begun(Base(b, r), pos0, pos0 + 1)
    BY <1>2, <2>3 DEF Begun
  <2>5. pos0 + 1 \in Nat /\ pos0 + 1 <= Len(b)
    BY <1>2, <1>5
  <2> QED
    BY <1>2, <1>4, <1>5, <2>4, <2>5, FindEndInv
<1>6. CASE pos0 = Len(b) /\ R!Discard
  BY <1>4, <1>6, DiscardInv
<1> QED
  BY <1>1, <1>5, <1>6

----------------------------------------------------------------------------
\* A meter is opened with an empty buffer.
LEMMA PacketInit == R!ReaderAssumption /\ R!Init => PacketInv
<1> SUFFICES ASSUME R!ReaderAssumption, R!Init PROVE PacketInv
  OBVIOUS
<1>1. /\ sent \in [R!Place -> R!Char] /\ received = 0 /\ buf = <<>>
      /\ buf_pos0 = 0 /\ buf_pos1 = 0 /\ packets = <<>>
  BY DEF R!Init
<1>2. R!TypeOK
  BY <1>1 DEF R!TypeOK, R!ReaderAssumption
<1>3. Base(buf, received) = 0 /\ R!EndOf(Len(packets)) = 0
  <2>1. Len(buf) = 0 /\ Len(packets) = 0
    BY <1>1
  <2>2. R!EndOf(0) = 0
    BY DEF R!EndOf
  <2>3. received = 0
    BY <1>1
  <2>4. Base(buf, received) = 0
    BY <2>1, <2>3 DEF Base
  <2> QED
    BY <2>1, <2>2, <2>4, Zenon
<1>4. Window(buf, received)
  BY <1>1 DEF Window, R!ReaderAssumption
<1>5. Clear(Base(buf, received), buf_pos0)
  BY <1>1, <1>3 DEF Clear
<1>6. SearchInv(Base(buf, received)) /\ R!Framed
  BY <1>1 DEF SearchInv, R!Framed
<1> QED
  BY <1>2, <1>4, <1>5, <1>6 DEF PacketInv

\* A call of meter_packet_read keeps the invariant, wherever the reads end.
LEMMA PacketStep == PacketInv /\ [R!Next]_(R!vars) => PacketInv'
<1> SUFFICES ASSUME PacketInv, [R!Next]_(R!vars) PROVE PacketInv'
  OBVIOUS
<1>1. CASE R!Next
  <2>1. PICK k \in 0 .. Room : R!Read(k)
    BY <1>1 DEF R!Next
  <2> DEFINE b == buf \o [i \in 1 .. k |-> received + i]
             r == received + k
  <2>2. Searching(b, r)
    BY <2>1, ReadsExtendWindow
  <2>3. \/ buf_pos1 <= buf_pos0 /\ R!FindPacket(b)
        \/ buf_pos1 > buf_pos0 /\ R!FindEnd(b, buf_pos0, buf_pos1)
    BY <2>1 DEF R!Read
  <2> HIDE DEF b, r
  <2>4. CASE buf_pos1 <= buf_pos0 /\ R!FindPacket(b)
    BY <2>2, <2>4, FindPacketInv
  <2>5. CASE buf_pos1 > buf_pos0 /\ R!FindEnd(b, buf_pos0, buf_pos1)
    <3>1. /\ Clear(Base(b, r), buf_pos0) /\ SearchInv(Base(b, r))
          /\ buf_pos0 <= Len(b) /\ buf_pos1 <= Len(b)
      BY <2>2 DEF Searching
    <3>2. buf_pos0 \in Nat /\ buf_pos1 \in Nat /\ Len(b) \in Nat
      BY <2>2, SearchingTypes
    <3>3. Begun(Base(b, r), buf_pos0, buf_pos1)
      BY <3>1, <3>2, <2>5 DEF SearchInv
    <3>4. buf_pos0 < Len(b)
      BY <3>1, <3>2, <2>5
    <3> QED
      BY <2>2, <2>5, <3>1, <3>2, <3>3, <3>4, FindEndInv
  <2> QED
    BY <2>3, <2>4, <2>5
<1>2. CASE UNCHANGED R!vars
  BY <1>2 DEF R!vars, PacketInv, R!TypeOK, Window, Base, Clear, SearchInv, Begun, R!Framed,
              R!IsFrame, R!EndOf
<1> QED
  BY <1>1, <1>2 DEF R!vars

\* The invariant holds after every call.
THEOREM PacketInvariance == R!Spec => []PacketInv
<1> QED
  BY DevicesAssumption, PacketInit, PacketStep, PTL DEF R!Spec

\* The positions stay inside the buffer and the buffer inside its array.
THEOREM BufferIsSafe == R!Spec => []PositionsInBuffer
<1>1. PacketInv => PositionsInBuffer
  BY DEF PacketInv, PositionsInBuffer
<1> QED
  BY <1>1, PacketInvariance, PTL

\* Every packet delivered is the next packet of the line.
THEOREM PacketsAreFramed == R!Spec => []Framed
<1>1. PacketInv => Framed
  BY DEF PacketInv, Framed
<1> QED
  BY <1>1, PacketInvariance, PTL

----------------------------------------------------------------------------
(***************************************************************************)
(* The USB thermometers (TEMPer), for any number of devices, and any       *)
(* periods of the prints and of the readings.                              *)
(***************************************************************************)
\* A reading that is not printed yet was made after the last print.
ReadingInv == m_temper = T!Temper(1) => sinceUpdate < sincePrint

TemperInv == T!TEMPerAssumption /\ T!TypeOK /\ ReadingInv /\ ~missed

\* A set of numbers has a least one.
LEMMA Least ==
  ASSUME NEW S, S \subseteq Nat, S # {}
  PROVE  \E x \in S : \A y \in S : x <= y
<1>1. \E x \in S : \A y \in S : ~(<<y, x>> \in OpToRel(<, Nat))
  BY WFMin, NatLessThanWellFounded, Zenon
<1>2. \A x, y \in S : ~(<<y, x>> \in OpToRel(<, Nat)) => ~(y < x)
  BY DEF OpToRel
<1>3. \A x, y \in S : ~(y < x) => x <= y
  OBVIOUS
<1>4. QED
  BY <1>1, <1>2, <1>3, Zenon

\* A device that is plugged and that nobody keeps open is found if it opens.
LEMMA OneOpens ==
  ASSUME T!TEMPerAssumption, NEW bad, NEW d \in USBDevice, T!Opens(d, bad)
  PROVE  T!FirstOfBus(bad) # {}
<1> DEFINE places == {e[2] : e \in {e \in USBDevice : T!Opens(e, bad) /\ e[1] = d[1]}}
<1>1. d[2] \in places
  OBVIOUS
<1>2. places \subseteq Nat
  BY DEF T!TEMPerAssumption
<1>3. PICK x \in places : \A y \in places : x <= y
  BY <1>1, <1>2, Least
<1>4. PICK e \in USBDevice : T!Opens(e, bad) /\ e[1] = d[1] /\ e[2] = x
  BY <1>3
<1>5. \A f \in USBDevice : f[1] = e[1] /\ T!Opens(f, bad) => e[2] <= f[2]
  BY <1>3, <1>4
<1>6. QED
  BY <1>4, <1>5 DEF T!FirstOfBus

LEMMA TemperInit == T!TEMPerAssumption /\ T!Init => TemperInv
<1> SUFFICES ASSUME T!TEMPerAssumption, T!Init PROVE TemperInv
  OBVIOUS
<1>1. sincePrint \in 0 .. PrintInterval /\ sinceUpdate \in 0 .. UpdatePeriod
  BY DEF T!TEMPerAssumption, T!Init
<1>2. /\ plugged \subseteq USBDevice /\ claimed \subseteq plugged
      /\ m_temper \in {T!Null, T!Junk, T!Temper(0), T!Temper(1)}
  BY DEF T!Init
<1>3. undefined \in BOOLEAN /\ missed \in BOOLEAN /\ ~missed
  BY DEF T!Init
<1>4. ReadingInv
  BY DEF ReadingInv, T!Init, T!Null, T!Junk, T!Temper
<1>5. QED
  BY <1>1, <1>2, <1>3, <1>4 DEF TemperInv, T!TypeOK

LEMMA KindsDiffer ==
  T!Junk # T!Null /\ T!Temper(1) # T!Null /\ T!Temper(1) # T!Junk /\ T!Temper(0) # T!Temper(1)
BY DEF T!Junk, T!Null, T!Temper

LEMMA TemperStep == TemperInv /\ [T!Next]_(T!vars) => TemperInv'
<1> SUFFICES ASSUME TemperInv, [T!Next]_(T!vars) PROVE TemperInv'
  OBVIOUS
<1> USE DEF T!TypeOK, ReadingInv
<1>1. T!TEMPerAssumption /\ PrintInterval \in Nat /\ UpdatePeriod \in Nat /\ PrintInterval <= UpdatePeriod
  BY DEF TemperInv, T!TEMPerAssumption
<1>2. T!TypeOK /\ ReadingInv /\ ~missed
  BY DEF TemperInv
<1>0. T!TEMPerAssumption'
  BY <1>1 DEF T!TEMPerAssumption
<1>3. CASE T!update_sensors /\ sinceUpdate < UpdatePeriod
  BY <1>0, <1>1, <1>2, <1>3 DEF T!update_sensors, TemperInv
<1>4. CASE T!update_sensors /\ sinceUpdate = UpdatePeriod /\ m_temper = T!Junk
  <2>1. /\ undefined' = TRUE /\ sincePrint' = sincePrint + 1 /\ sincePrint < PrintInterval
        /\ UNCHANGED <<plugged, claimed, m_temper, sinceUpdate, missed>>
    BY <1>1, <1>2, <1>4 DEF T!update_sensors
  <2>2. QED
    BY <1>0, <1>1, <1>2, <1>4, <2>1, KindsDiffer DEF TemperInv
<1>5. CASE T!update_sensors /\ sinceUpdate = UpdatePeriod /\ m_temper # T!Junk
  <2>1. m_temper \in {T!Null, T!Temper(0)}
    BY <1>1, <1>2, <1>5 DEF T!update_sensors
  <2>2. m_temper = T!Null \/ T!IsClosedAndEmpty
    BY <2>1 DEF T!IsClosedAndEmpty, T!Temper
  <2>3. PICK bad \in SUBSET USBDevice, fails \in BOOLEAN :
          /\ T!find_tempers_and_update(bad, fails)
          /\ missed' = (missed \/ /\ bad = {} /\ ~fails /\ plugged \ claimed # {}
                                  /\ m_temper'.m_datapoints = m_temper.m_datapoints)
    BY <1>1, <1>2, <1>5, <2>2 DEF T!update_sensors
  <2>4. /\ sinceUpdate' = 0 /\ sincePrint' = sincePrint + 1 /\ sincePrint < PrintInterval
        /\ UNCHANGED <<plugged, undefined>>
    BY <1>1, <1>2, <1>5 DEF T!update_sensors
  <2>5. m_temper' \in {T!Null, T!Temper(0), T!Temper(1)} /\ claimed' \subseteq plugged
    BY <1>2, <2>3 DEF T!find_tempers_and_update, T!FirstOfBus, T!Opens
  <2>6. ~missed'
    <3>1. SUFFICES ASSUME bad = {}, ~fails, plugged \ claimed # {}
                   PROVE  m_temper'.m_datapoints # m_temper.m_datapoints
      BY <1>2, <2>3
    <3>2. PICK d \in USBDevice : T!Opens(d, bad)
      BY <1>2, <3>1 DEF T!Opens
    <3>3. T!FirstOfBus(bad) # {}
      BY <1>1, <3>2, OneOpens
    <3>4. m_temper' = T!Temper(1)
      BY <2>3, <3>1, <3>3 DEF T!find_tempers_and_update
    <3>5. QED
      BY <2>1, <3>4 DEF T!Null, T!Temper
  <2>7. missed' \in BOOLEAN
    BY <2>3
  <2>8. sincePrint' \in 0 .. PrintInterval /\ sinceUpdate' \in 0 .. UpdatePeriod
        /\ sinceUpdate' < sincePrint'
    BY <1>1, <1>2, <2>4
  <2>9. QED
    BY <1>0, <1>2, <2>4, <2>5, <2>6, <2>7, <2>8 DEF TemperInv
<1>6. CASE T!print_datapoints
  <2>1. m_temper' \in {T!Null, T!Junk, T!Temper(0)}
    BY <1>2, <1>6 DEF T!print_datapoints, T!Cleared, T!Null, T!Junk, T!Temper
  <2>2. QED
    BY <1>0, <1>1, <1>2, <1>6, <2>1, KindsDiffer DEF T!print_datapoints, TemperInv
<1>7. CASE \E d \in USBDevice : T!Plug(d) \/ T!Unplug(d)
  BY <1>0, <1>1, <1>2, <1>7 DEF T!Plug, T!Unplug, TemperInv
<1>8. CASE UNCHANGED T!vars
  BY <1>0, <1>2, <1>8 DEF T!vars, TemperInv
<1>9. QED
  <2>1. T!update_sensors =>
          \/ sinceUpdate < UpdatePeriod
          \/ sinceUpdate = UpdatePeriod /\ m_temper = T!Junk
          \/ sinceUpdate = UpdatePeriod /\ m_temper # T!Junk
    BY DEF T!update_sensors
  <2>2. QED
    BY <2>1, <1>3, <1>4, <1>5, <1>6, <1>7, <1>8 DEF T!Next

\* No reading of a USB thermometer that is due, and could be made, is missed: what was
\* read is printed before the next reading is due.
THEOREM NoneMissed == T!Spec => []NoReadingMissed
<1>1. TemperInv => NoReadingMissed
  BY DEF TemperInv, NoReadingMissed, T!NoReadingMissed
<1>2. QED
  BY DevicesAssumption, <1>1, TemperInit, TemperStep, PTL DEF T!Spec

----------------------------------------------------------------------------
(***************************************************************************)
(* The Arduino thermometer (ArduinoTemp), for any number of ports, any     *)
(* period of the searches, any timeout of two loops of the sketch and      *)
(* more, and one lost character at most.                                   *)
(***************************************************************************)
\* Characters, and the states of the parser.
ArduinoChar == {A!BeginToken, A!EndToken, "A", "f"}
ParserState == {"BeginToken1", "BeginToken2", "EndToken1", "EndToken2", "ValueFound"}
Value(data) == [s |-> "ValueFound", data |-> data]

\* What waits on the line to the client opens no packet.
NothingOpens(line) == \A i \in DOMAIN line : line[i] # A!BeginToken

\* A packet is opened at the beginning of what waits, or was; in one that is open
\* nothing opens another.
OpensFirst ==
  /\ \A i \in DOMAIN up : up[i] = A!BeginToken => i \in {1, 2} /\ m.s \in {"BeginToken1", "BeginToken2"}
  /\ \A i \in DOMAIN up : up[i] = A!BeginToken /\ m.s = "BeginToken2" => i = 1

\* A question as it was written, and with a character lost.
Question(q) == A!Packet(<<q>>) \o <<"0">>
Asked(q) ==
  \/ down = Question(q)
  \/ lost = 1 /\ \E i \in 1 .. 6 : down = A!RemoveAt(Question(q), i)

\* The rest of an answer's data, from the k-th character that waits on, when `data'
\* have been read of it: the answer of a board, or a temperature up to its first '}'.
Rest(q, data, k) ==
  \/ /\ q = "?" /\ data = <<>> /\ Len(up) > k + 1
     /\ up[k] = "A" /\ up[k + 1] = A!EndToken /\ up[k + 2] = A!EndToken
  \/ q = "?" /\ data = <<"A">> /\ Len(up) > k /\ up[k] = A!EndToken /\ up[k + 1] = A!EndToken
  \/ q = "T" /\ data = <<>> /\ Len(up) >= k /\ up[k] = A!EndToken
  \/ q = "T" /\ data = <<>> /\ Len(up) > k + 1 /\ up[k] = "f" /\ up[k + 1] = "f" /\ up[k + 2] = A!EndToken
  \/ q = "T" /\ data = <<"f">> /\ Len(up) > k /\ up[k] = "f" /\ up[k + 1] = A!EndToken
  \/ q = "T" /\ data = <<"f", "f">> /\ Len(up) >= k /\ up[k] = A!EndToken

\* An answer on its way, or what is left of a temperature that cannot be read.
OnItsWay(q) ==
  \/ m = A!NewParser /\ Len(up) > 2 /\ up[1] = A!BeginToken /\ up[2] = A!BeginToken /\ Rest(q, <<>>, 3)
  \/ m.s = "BeginToken2" /\ m.data = <<>> /\ Len(up) > 1 /\ up[1] = A!BeginToken /\ Rest(q, <<>>, 2)
  \/ m.s = "EndToken1" /\ Rest(q, m.data, 1)
  \/ m.s = "EndToken2" /\ q = "?" /\ m.data = <<"A">> /\ Len(up) > 0 /\ up[1] = A!EndToken
  \/ m.s = "EndToken2" /\ q = "T" /\ m.data \in {<<>>, <<"f", "f">>}
  \/ m = A!NewParser /\ q = "T" /\ NothingOpens(up)

ArduinoTypes ==
  /\ plug \in [1 .. Ports -> A!Thing]
  /\ up \in Seq(ArduinoChar) /\ m \in [s : ParserState, data : Seq(ArduinoChar)]
  /\ machine \in {A!NewParser} \cup {Value(d) : d \in {<<>>, <<"?">>, <<"T">>}}
  /\ m_serial \in 0 .. Ports /\ port \in Nat \ {0} /\ sinceFind \in Nat
  /\ waited \in Nat /\ lost \in {0, 1}
  /\ clean \in BOOLEAN /\ dead \in BOOLEAN /\ m_arduino_temp \in BOOLEAN
  /\ at \in {"idle", "search", "identify", "found", "ask", "undefined"}

\* There is one board at most, and what is at an open port was not taken off.
BoardInv ==
  /\ \A p, q \in 1 .. Ports : plug[p] = "arduino" /\ plug[q] = "arduino" => p = q
  /\ m_serial # 0 /\ ~dead => plug[m_serial] # "none"

\* Where an exchange is.
ExchangeInv ==
  /\ A!Waiting =>
       m.s # "ValueFound" /\ m_serial # 0 /\ question = IF at = "identify" THEN "?" ELSE "T"
  /\ at = "found" => m_serial # 0
  /\ ~A!Waiting => down = <<>> /\ machine = A!NewParser /\ NothingOpens(up)
  /\ down # <<>> =>
       /\ A!AtBoard /\ machine = A!NewParser /\ m = A!NewParser /\ waited = 0
       /\ NothingOpens(up) /\ Asked(question)
  /\ A!HasValue(machine) =>
       /\ A!AtBoard /\ down = <<>> /\ up = <<>> /\ m = A!NewParser /\ waited <= 1
       /\ machine.data \in {<<>>, <<question>>}

\* An exchange in which nothing was lost.
CleanInv ==
  clean /\ A!AtBoard /\ A!Waiting =>
    \/ down = Question(question)
    \/ machine = Value(<<question>>)
    \/ down = <<>> /\ machine = A!NewParser /\ OnItsWay(question)

ArduinoInv ==
  ArduinoTypes /\ BoardInv /\ OpensFirst /\ ExchangeInv /\ CleanInv /\ A!RightAnswer
----------------------------------------------------------------------------
(***************************************************************************)
(* The folds of the parser over what the board received: at most the six   *)
(* characters of a question.                                               *)
(***************************************************************************)
\* The fold over the sets of places 1 .. n, from the parser p.
Fed(p, s, n, g) ==
  [x \in SUBSET (1 .. n) |->
     IF x = {} THEN p ELSE A!processChar(g[x \ {A!Max(x)}], s[A!Max(x)])]
FedAll(p, s, n) == CHOOSE g : g = Fed(p, s, n, g)

\* Two of them that agree on the sets up to a place do so up to the next one, a step on.
FedAgree(n, g, h, k) == \A x \in SUBSET (1 .. n) : x \subseteq 1 .. k => g[x] = h[x]

\* The greatest of a set of places.
LEMMA LastPlace ==
  ASSUME NEW n \in Nat, NEW x, x \subseteq 1 .. n, x # {}
  PROVE  A!Max(x) \in x /\ \A y \in x : y <= A!Max(x)
<1> DEFINE D == {d \in Nat : n - d \in x}
<1>1. PICK x0 \in x : TRUE
  OBVIOUS
<1>2. D \subseteq Nat /\ \A y \in x : y \in Int /\ n - y \in D
  OBVIOUS
<1>3. D # {}
  BY <1>1, <1>2
<1>4. PICK d \in D : \A e \in D : d <= e
  BY <1>2, <1>3, Least
<1>5. PICK z \in x : \A y \in x : z >= y
  <2>1. d \in Int /\ n - d \in x /\ \A y \in x : d <= n - y
    BY <1>2, <1>4
  <2>2. \A y \in x : n - d >= y
    BY <1>2, <2>1
  <2>3. QED
    BY <2>1, <2>2
<1>6. A!Max(x) \in x /\ \A y \in x : A!Max(x) >= y
  BY <1>5 DEF A!Max
<1>7. QED
  BY <1>6

\* Agreement goes a place on.
LEMMA FedAgreeMore ==
  ASSUME NEW n \in Nat, NEW p, NEW s, NEW g, NEW h, NEW k \in Nat, FedAgree(n, g, h, k)
  PROVE  FedAgree(n, Fed(p, s, n, g), Fed(p, s, n, h), k + 1)
<1> SUFFICES ASSUME NEW x \in SUBSET (1 .. n), x \subseteq 1 .. (k + 1)
             PROVE  Fed(p, s, n, g)[x] = Fed(p, s, n, h)[x]
  BY DEF FedAgree
<1>1. CASE x = {}
  BY <1>1 DEF Fed
<1>2. CASE x # {}
  <2> DEFINE l == A!Max(x)
  <2>1. l \in x /\ \A y \in x : y <= l
    BY <1>2, LastPlace
  <2> HIDE DEF l
  <2>2. x \ {l} \in SUBSET (1 .. n)
    OBVIOUS
  <2>3. x \ {l} \subseteq 1 .. k
    <3> SUFFICES ASSUME NEW y \in x, y # l PROVE y \in 1 .. k
      OBVIOUS
    <3>1. y \in Int /\ l \in Int /\ y >= 1 /\ l <= k + 1 /\ y <= l
      BY <2>1
    <3>2. QED
      BY <3>1
  <2>4. g[x \ {l}] = h[x \ {l}]
    BY <2>2, <2>3 DEF FedAgree
  <2>5. /\ Fed(p, s, n, g)[x] = A!processChar(g[x \ {l}], s[l])
        /\ Fed(p, s, n, h)[x] = A!processChar(h[x \ {l}], s[l])
    BY <1>2 DEF Fed, l
  <2>6. QED
    BY <2>4, <2>5
<1>3. QED
  BY <1>1, <1>2

\* There is such a fold: six steps from any guess agree with it everywhere.
LEMMA FedExists ==
  ASSUME NEW n \in 0 .. 6, NEW p, NEW s
  PROVE  \E g : g = Fed(p, s, n, g)
<1> DEFINE F(g) == Fed(p, s, n, g)
           g1 == F(p)
           g2 == F(g1)
           g3 == F(g2)
           g4 == F(g3)
           g5 == F(g4)
           g6 == F(g5)
           g7 == F(g6)
           g8 == F(g7)
<1>0. n \in Nat
  OBVIOUS
<1>1. FedAgree(n, g1, g2, 0)
  BY DEF FedAgree, Fed
<1>2. \A g, h : \A k \in Nat : FedAgree(n, g, h, k) => FedAgree(n, F(g), F(h), k + 1)
  BY <1>0, FedAgreeMore
<1> DEFINE Agreed(g, k) == FedAgree(n, g, F(g), k)
<1>3. \A g : \A k \in Nat : Agreed(g, k) => Agreed(F(g), k + 1)
  BY <1>2
<1>4. Agreed(g1, 0)
  BY <1>1
<1> HIDE DEF Agreed, g1
<1>5. Agreed(g7, 6)
  <2> HIDE DEF F
  <2>1. Agreed(g2, 1)
    BY <1>3, <1>4
  <2>2. Agreed(g3, 2)
    BY <1>3, <2>1
  <2> HIDE DEF g2
  <2>3. Agreed(g4, 3)
    BY <1>3, <2>2
  <2> HIDE DEF g3
  <2>4. Agreed(g5, 4)
    BY <1>3, <2>3
  <2> HIDE DEF g4
  <2>5. Agreed(g6, 5)
    BY <1>3, <2>4
  <2> HIDE DEF g5
  <2>6. QED
    BY <1>3, <2>5
<1> HIDE DEF g6
<1>6. \A x \in SUBSET (1 .. n) : g7[x] = F(g7)[x]
  <2>1. 1 .. n \subseteq 1 .. 6
    OBVIOUS
  <2>2. QED
    BY <1>5, <2>1 DEF Agreed, FedAgree
<1>7. g7 = F(g7)
  <2>1. g7 = Fed(p, s, n, g6) /\ F(g7) = Fed(p, s, n, g7)
    OBVIOUS
  <2> HIDE DEF g7
  <2>2. QED
    BY <1>6, <2>1 DEF Fed
<1>8. QED
  BY <1>7

\* The parser is fed one character after another.
Feeds(h, p, s, n) ==
  /\ h[0] = p
  /\ \A k \in 1 .. n : h[k] = A!processChar(h[k - 1], s[k])
Folded(p, s) == A!FoldLeft(A!processChar, p, s)

\* The fold of the community module is that fold, a step of the parser at each place.
LEMMA FedEach ==
  ASSUME NEW n \in 0 .. 6, NEW p, NEW s, DOMAIN s = 1 .. n
  PROVE  \E h : Feeds(h, p, s, n) /\ Folded(p, s) = h[n]
<1> DEFINE g == FedAll(p, s, n)
           h == [k \in 0 .. n |-> g[1 .. k]]
<1>1. Folded(p, s) = g[1 .. n]
  <2>1. Folded(p, s) = FedAll(p, s, n)[DOMAIN s]
    BY Zenon DEF Folded, A!FoldLeft, A!MapThenFoldSet, Fed, FedAll
  <2>2. QED
    BY <2>1
<1>2. g = Fed(p, s, n, g)
  BY FedExists, Zenon DEF FedAll
<1> HIDE DEF g
<1>3. \A x \in SUBSET (1 .. n) :
        g[x] = IF x = {} THEN p ELSE A!processChar(g[x \ {A!Max(x)}], s[A!Max(x)])
  <2> SUFFICES ASSUME NEW x \in SUBSET (1 .. n)
               PROVE g[x] = IF x = {} THEN p ELSE A!processChar(g[x \ {A!Max(x)}], s[A!Max(x)])
    OBVIOUS
  <2>1. Fed(p, s, n, g)[x] = IF x = {} THEN p ELSE A!processChar(g[x \ {A!Max(x)}], s[A!Max(x)])
    BY DEF Fed
  <2>2. QED
    BY <1>2, <2>1, Zenon
<1>4. h[0] = p
  <2>1. 1 .. 0 = {}
    OBVIOUS
  <2>2. g[{}] = p
    BY <1>3
  <2>3. QED
    BY <2>1, <2>2
<1>5. ASSUME NEW k \in 1 .. n
      PROVE  h[k] = A!processChar(h[k - 1], s[k])
  <2> DEFINE x == 1 .. k
  <2>1. x \in SUBSET (1 .. n) /\ x # {}
    OBVIOUS
  <2>2. A!Max(x) = k
    <3> DEFINE l == A!Max(x)
    <3>0. n \in Nat /\ x \subseteq 1 .. n
      BY <2>1
    <3> HIDE DEF x
    <3>1. l \in x /\ \A y \in x : y <= l
      BY <2>1, <3>0, LastPlace
    <3> HIDE DEF l
    <3>2. l \in Int /\ l <= k /\ k <= l
      BY <3>1 DEF x
    <3>3. l = k
      BY <3>2
    <3>4. QED
      BY <3>3 DEF l
  <2>3. x \ {k} = 1 .. (k - 1)
    OBVIOUS
  <2>4. g[x] = A!processChar(g[1 .. (k - 1)], s[k])
    BY <1>3, <2>1, <2>2, <2>3
  <2>5. h[k] = g[x] /\ h[k - 1] = g[1 .. (k - 1)]
    OBVIOUS
  <2>6. QED
    BY <2>4, <2>5
<1>6. h[n] = g[1 .. n]
  OBVIOUS
<1>7. Feeds(h, p, s, n) /\ Folded(p, s) = h[n]
  <2> HIDE DEF h
  <2>1. QED
    BY <1>1, <1>4, <1>5, <1>6 DEF Feeds
<1>8. QED
  BY <1>7, Zenon

----------------------------------------------------------------------------
(***************************************************************************)
(* A sequence of which an element is lost.                                 *)
(***************************************************************************)
LEMMA RemoveAtIs ==
  ASSUME NEW C, NEW s \in Seq(C), NEW i \in 1 .. Len(s)
  PROVE  /\ A!RemoveAt(s, i) \in Seq(C) /\ Len(A!RemoveAt(s, i)) = Len(s) - 1
         /\ \A k \in 1 .. (Len(s) - 1) :
              A!RemoveAt(s, i)[k] = IF k < i THEN s[k] ELSE s[k + 1]
<1> DEFINE a == SubSeq(s, 1, i - 1)
           b == SubSeq(s, i + 1, Len(s))
           n == Len(s)
<1>0. n \in Nat /\ i \in Int /\ 1 <= i /\ i <= n
  OBVIOUS
<1>1. a \in Seq(C) /\ Len(a) = i - 1 /\ \A k \in 1 .. (i - 1) : a[k] = s[k]
  OBVIOUS
<1>2. b \in Seq(C) /\ Len(b) = n - i /\ \A k \in 1 .. (n - i) : b[k] = s[k + i]
  OBVIOUS
<1>3. A!RemoveAt(s, i) = a \o b
  BY DEF A!RemoveAt
<1> HIDE DEF a, b, n
<1>4. /\ a \o b \in Seq(C) /\ Len(a \o b) = n - 1
      /\ \A k \in 1 .. (n - 1) : (a \o b)[k] = IF k < i THEN a[k] ELSE b[k - (i - 1)]
  <2>1. /\ a \o b \in Seq(C) /\ Len(a \o b) = Len(a) + Len(b)
        /\ \A k \in 1 .. (Len(a) + Len(b)) :
             (a \o b)[k] = IF k <= Len(a) THEN a[k] ELSE b[k - Len(a)]
    BY <1>1, <1>2, ConcatProperties
  <2>2. Len(a) + Len(b) = n - 1 /\ \A k \in 1 .. (n - 1) : k <= i - 1 <=> k < i
    BY <1>0, <1>1, <1>2
  <2>3. QED
    BY <1>1, <2>1, <2>2
<1>5. ASSUME NEW k \in 1 .. (n - 1)
      PROVE  (a \o b)[k] = IF k < i THEN s[k] ELSE s[k + 1]
  <2>1. CASE k < i
    BY <1>0, <1>1, <1>4, <2>1
  <2>2. CASE ~(k < i)
    <3>1. k - (i - 1) \in 1 .. (n - i) /\ (k - (i - 1)) + i = k + 1
      BY <1>0, <2>2
    <3>2. b[k - (i - 1)] = s[k + 1]
      BY <1>2, <3>1
    <3>3. QED
      BY <1>4, <2>2, <3>2
  <2>3. QED
    BY <2>1, <2>2
<1>6. QED
  BY <1>3, <1>4, <1>5 DEF n


\* The tokens are no other characters.
LEMMA TokensDiffer ==
  /\ A!BeginToken # A!EndToken
  /\ \A c \in {"A", "f", "?", "T", "0"} : c # A!BeginToken /\ c # A!EndToken
BY Zenon DEF A!BeginToken, A!EndToken

\* The parser, a character on.
Parser(state, data) == [s |-> state, data |-> data]

\* What a character does to the parser, in each of its states.
LEMMA ParserIs ==
  ASSUME NEW data, NEW c
  PROVE  /\ A!processChar(Parser("BeginToken1", data), c)
              = IF c = A!BeginToken THEN Parser("BeginToken2", data) ELSE Parser("BeginToken1", data)
         /\ A!processChar(Parser("BeginToken2", data), c)
              = IF c = A!BeginToken THEN Parser("EndToken1", data) ELSE A!NewParser
         /\ A!processChar(Parser("EndToken1", data), c)
              = IF c = A!EndToken THEN Parser("EndToken2", data)
                ELSE IF Len(data) < MaxSize THEN Parser("EndToken1", Append(data, c))
                ELSE A!NewParser
         /\ A!processChar(Parser("EndToken2", data), c)
              = IF c = A!EndToken THEN Value(data) ELSE A!NewParser
         /\ A!processChar(Value(data), c) = Value(data)
         /\ A!NewParser = Parser("BeginToken1", <<>>) /\ Value(data) = Parser("ValueFound", data)
<1> DEFINE P(st) == Parser(st, data)
<1>0. /\ \A st : P(st).s = st /\ P(st).data = data
      /\ \A st, x : [P(st) EXCEPT !.s = x] = P(x)
      /\ \A st, x : [P(st) EXCEPT !.data = Append(@, x)] = Parser(st, Append(data, x))
  BY DEF Parser
<1> HIDE DEF P
<1>1. A!processChar(P("BeginToken1"), c)
        = IF c = A!BeginToken THEN P("BeginToken2") ELSE P("BeginToken1")
  BY <1>0 DEF A!processChar
<1>2. A!processChar(P("BeginToken2"), c) = IF c = A!BeginToken THEN P("EndToken1") ELSE A!NewParser
  BY <1>0 DEF A!processChar
<1>3. A!processChar(P("EndToken1"), c)
        = IF c = A!EndToken THEN P("EndToken2")
          ELSE IF Len(data) < MaxSize THEN Parser("EndToken1", Append(data, c))
          ELSE A!NewParser
  BY <1>0 DEF A!processChar
<1>4. A!processChar(P("EndToken2"), c) = IF c = A!EndToken THEN P("ValueFound") ELSE A!NewParser
  BY <1>0 DEF A!processChar
<1>5. A!processChar(P("ValueFound"), c) = P("ValueFound")
  BY <1>0 DEF A!processChar
<1>6. A!NewParser = Parser("BeginToken1", <<>>) /\ Value(data) = P("ValueFound")
  BY DEF A!NewParser, Value, P, Parser
<1>7. QED
  BY <1>1, <1>2, <1>3, <1>4, <1>5, <1>6 DEF P

\* A question as it was written, and with one of its characters lost.
LEMMA QuestionIs ==
  ASSUME NEW q
  PROVE  /\ Question(q) = <<A!BeginToken, A!BeginToken, q, A!EndToken, A!EndToken, "0">>
         /\ A!RemoveAt(Question(q), 1) = <<A!BeginToken, q, A!EndToken, A!EndToken, "0">>
         /\ A!RemoveAt(Question(q), 2) = <<A!BeginToken, q, A!EndToken, A!EndToken, "0">>
         /\ A!RemoveAt(Question(q), 3) = <<A!BeginToken, A!BeginToken, A!EndToken, A!EndToken, "0">>
         /\ A!RemoveAt(Question(q), 4) = <<A!BeginToken, A!BeginToken, q, A!EndToken, "0">>
         /\ A!RemoveAt(Question(q), 5) = <<A!BeginToken, A!BeginToken, q, A!EndToken, "0">>
         /\ A!RemoveAt(Question(q), 6) = <<A!BeginToken, A!BeginToken, q, A!EndToken, A!EndToken>>
<1> DEFINE o == A!BeginToken
           e == A!EndToken
           z == "0"
           line == Question(q)
           C == {o, q, e, z}
           first == <<o, o>> \o <<q>>
           packet == first \o <<e, e>>
<1>0. line = packet \o <<z>>
  BY Zenon DEF Question, A!Packet
<1> HIDE DEF o, e, z, line
<1>1. first \in Seq(C) /\ Len(first) = 3 /\ first[1] = o /\ first[2] = o /\ first[3] = q
  OBVIOUS
<1>2. packet \in Seq(C) /\ Len(packet) = 5 /\ packet[1] = o /\ packet[2] = o /\ packet[3] = q
      /\ packet[4] = e /\ packet[5] = e
  <2> DEFINE ee == <<e, e>>
  <2>1. ee \in Seq(C) /\ Len(ee) = 2 /\ ee[1] = e /\ ee[2] = e
    OBVIOUS
  <2> HIDE DEF first, ee, C
  <2>2. /\ first \o ee \in Seq(C) /\ Len(first \o ee) = Len(first) + Len(ee)
        /\ \A i \in 1 .. Len(first) + Len(ee) :
             (first \o ee)[i] = IF i <= Len(first) THEN first[i] ELSE ee[i - Len(first)]
    BY <1>1, <2>1, ConcatProperties, Zenon
  <2>3. /\ (first \o ee)[1] = first[1] /\ (first \o ee)[2] = first[2]
        /\ (first \o ee)[3] = first[3] /\ (first \o ee)[4] = ee[1] /\ (first \o ee)[5] = ee[2]
    BY <1>1, <2>1, <2>2
  <2>4. QED
    BY <1>1, <2>1, <2>2, <2>3 DEF ee
<1>3. line \in Seq(C) /\ Len(line) = 6 /\ line[1] = o /\ line[2] = o /\ line[3] = q
      /\ line[4] = e /\ line[5] = e /\ line[6] = z
  <2> DEFINE zz == <<z>>
  <2>1. zz \in Seq(C) /\ Len(zz) = 1 /\ zz[1] = z
    OBVIOUS
  <2>2. line = packet \o zz
    BY <1>0
  <2> HIDE DEF packet, zz, C
  <2>3. /\ line \in Seq(C) /\ Len(line) = Len(packet) + Len(zz)
        /\ \A i \in 1 .. Len(packet) + Len(zz) :
             line[i] = IF i <= Len(packet) THEN packet[i] ELSE zz[i - Len(packet)]
    BY <1>2, <2>1, <2>2, ConcatProperties
  <2>4. QED
    BY <1>2, <2>1, <2>3
<1> HIDE DEF C
<1>4. line = <<o, o, q, e, e, z>>
  <2>1. ASSUME NEW t, NEW a, NEW b, NEW c, NEW d, NEW f, NEW g, t \in Seq(C), Len(t) = 6,
               t[1] = a, t[2] = b, t[3] = c, t[4] = d, t[5] = f, t[6] = g
        PROVE  t = <<a, b, c, d, f, g>>
    <3> DEFINE w == <<a, b, c, d, f, g>>
    <3>1. w \in Seq(C) /\ Len(w) = 6 /\ w[1] = a /\ w[2] = b /\ w[3] = c /\ w[4] = d /\ w[5] = f
          /\ w[6] = g
      <4>1. \A i \in 1 .. 6 : t[i] \in C
        BY <2>1, ElementOfSeq
      <4>2. a \in C /\ b \in C /\ c \in C /\ d \in C /\ f \in C /\ g \in C
        BY <2>1, <4>1
      <4>3. QED
        BY <4>2
    <3> HIDE DEF w
    <3>2. \A i \in 1 .. 6 : t[i] = w[i]
      BY <2>1, <3>1
    <3>3. QED
      BY <2>1, <3>1, <3>2, SeqEqual DEF w
  <2>2. QED
    BY <1>3, <2>1
<1>5. ASSUME NEW i \in 1 .. 6
      PROVE  /\ A!RemoveAt(line, i) \in Seq(C) /\ Len(A!RemoveAt(line, i)) = 5
             /\ \A k \in 1 .. 5 : A!RemoveAt(line, i)[k] = IF k < i THEN line[k] ELSE line[k + 1]
  <2>1. i \in 1 .. Len(line) /\ Len(line) - 1 = 5
    BY <1>3
  <2>2. QED
    BY <1>3, <2>1, RemoveAtIs
<1>6. ASSUME NEW t, NEW a, NEW b, NEW c, NEW d, NEW f, t \in Seq(C), Len(t) = 5,
             t[1] = a, t[2] = b, t[3] = c, t[4] = d, t[5] = f
      PROVE  t = <<a, b, c, d, f>>
  BY <1>6
<1> DEFINE del(i) == A!RemoveAt(line, i)
<1>7. \A i \in 1 .. 6 :
        /\ del(i) \in Seq(C) /\ Len(del(i)) = 5
        /\ del(i)[1] = IF 1 < i THEN line[1] ELSE line[2]
        /\ del(i)[2] = IF 2 < i THEN line[2] ELSE line[3]
        /\ del(i)[3] = IF 3 < i THEN line[3] ELSE line[4]
        /\ del(i)[4] = IF 4 < i THEN line[4] ELSE line[5]
        /\ del(i)[5] = IF 5 < i THEN line[5] ELSE line[6]
  BY <1>5
<1> HIDE DEF del
<1>8. del(1) = <<o, q, e, e, z>>
  BY <1>3, <1>6, <1>7
<1>9. del(2) = <<o, q, e, e, z>>
  BY <1>3, <1>6, <1>7
<1>10. del(3) = <<o, o, e, e, z>>
  BY <1>3, <1>6, <1>7
<1>11. del(4) = <<o, o, q, e, z>>
  BY <1>3, <1>6, <1>7
<1>12. del(5) = <<o, o, q, e, z>>
  BY <1>3, <1>6, <1>7
<1>13. del(6) = <<o, o, q, e, e>>
  BY <1>3, <1>6, <1>7
<1>14. QED
  BY <1>4, <1>8, <1>9, <1>10, <1>11, <1>12, <1>13 DEF del, o, e, z, line

\* The parser after so many characters.
Fed5(a, b, c, d, e) ==
  A!processChar(A!processChar(A!processChar(A!processChar(
    A!processChar(A!NewParser, a), b), c), d), e)

\* Five characters are five steps of the parser, and six of a question are six.
LEMMA FoldOfFive ==
  ASSUME NEW a, NEW b, NEW c, NEW d, NEW e
  PROVE  Folded(A!NewParser, <<a, b, c, d, e>>) = Fed5(a, b, c, d, e)
<1> DEFINE s == <<a, b, c, d, e>>
<1>1. DOMAIN s = 1 .. 5 /\ s[1] = a /\ s[2] = b /\ s[3] = c /\ s[4] = d /\ s[5] = e
  OBVIOUS
<1> HIDE DEF s
<1>2. 5 \in 0 .. 6
  OBVIOUS
<1>3. PICK h : Feeds(h, A!NewParser, s, 5) /\ Folded(A!NewParser, s) = h[5]
  BY <1>1, <1>2, FedEach
<1>4. /\ h[1] = A!processChar(h[0], a) /\ h[2] = A!processChar(h[1], b)
      /\ h[3] = A!processChar(h[2], c) /\ h[4] = A!processChar(h[3], d)
      /\ h[5] = A!processChar(h[4], e)
  <2>1. \A k \in 1 .. 5 : h[k] = A!processChar(h[k - 1], s[k])
    BY <1>3 DEF Feeds
  <2>2. QED
    BY <1>1, <2>1
<1>5. h[0] = A!NewParser
  BY <1>3 DEF Feeds
<1>6. QED
  BY <1>3, <1>4, <1>5, Zenon DEF s, Fed5

LEMMA FoldOfSix ==
  ASSUME NEW a, NEW b, NEW c, NEW d
  PROVE  Folded(A!NewParser, <<a, a, b, c, c, d>>)
           = A!processChar(Fed5(a, a, b, c, c), d)
<1> DEFINE s == <<a, a, b, c, c, d>>
<1>1. DOMAIN s = 1 .. 6 /\ s[1] = a /\ s[2] = a /\ s[3] = b /\ s[4] = c /\ s[5] = c /\ s[6] = d
  OBVIOUS
<1> HIDE DEF s
<1>2. 6 \in 0 .. 6
  OBVIOUS
<1>3. PICK h : Feeds(h, A!NewParser, s, 6) /\ Folded(A!NewParser, s) = h[6]
  BY <1>1, <1>2, FedEach
<1>4. /\ h[1] = A!processChar(h[0], a) /\ h[2] = A!processChar(h[1], a)
      /\ h[3] = A!processChar(h[2], b) /\ h[4] = A!processChar(h[3], c)
      /\ h[5] = A!processChar(h[4], c) /\ h[6] = A!processChar(h[5], d)
  <2>1. \A k \in 1 .. 6 : h[k] = A!processChar(h[k - 1], s[k])
    BY <1>3 DEF Feeds
  <2>2. QED
    BY <1>1, <2>1
<1>5. h[0] = A!NewParser
  BY <1>3 DEF Feeds
<1>6. QED
  BY <1>3, <1>4, <1>5, Zenon DEF s, Fed5

\* What the board makes of a question, and of one of which a character was lost.
LEMMA QuestionParsed ==
  ASSUME A!ArduinoAssumption, NEW q \in {"?", "T"}
  PROVE  /\ Folded(A!NewParser, <<A!BeginToken, A!BeginToken, q, A!EndToken, A!EndToken, "0">>) = Value(<<q>>)
         /\ Folded(A!NewParser, <<A!BeginToken, q, A!EndToken, A!EndToken, "0">>) = A!NewParser
         /\ Folded(A!NewParser, <<A!BeginToken, A!BeginToken, A!EndToken, A!EndToken, "0">>) = Value(<<>>)
         /\ Folded(A!NewParser, <<A!BeginToken, A!BeginToken, q, A!EndToken, "0">>) = A!NewParser
         /\ Folded(A!NewParser, <<A!BeginToken, A!BeginToken, q, A!EndToken, A!EndToken>>) = Value(<<q>>)
<1>1. /\ q # A!BeginToken /\ q # A!EndToken /\ "0" # A!BeginToken /\ "0" # A!EndToken
      /\ A!EndToken # A!BeginToken /\ MaxSize \in Nat /\ 0 < MaxSize
  <2>1. /\ q # A!BeginToken /\ q # A!EndToken /\ "0" # A!BeginToken /\ "0" # A!EndToken
        /\ A!EndToken # A!BeginToken
    BY TokensDiffer
  <2>2. MaxSize \in Nat /\ 0 < MaxSize
    BY DEF A!ArduinoAssumption
  <2>3. QED
    BY <2>1, <2>2
<1> DEFINE fed(p, c) == A!processChar(p, c)
           New == A!NewParser
           P(st, data) == Parser(st, data)
<1>2. New = P("BeginToken1", <<>>)
  BY ParserIs
<1>3. /\ fed(New, A!BeginToken) = P("BeginToken2", <<>>)
      /\ fed(P("BeginToken2", <<>>), A!BeginToken) = P("EndToken1", <<>>)
      /\ fed(P("BeginToken2", <<>>), q) = New /\ fed(New, A!EndToken) = New /\ fed(New, "0") = New
  <2>1. \A c : fed(P("BeginToken2", <<>>), c) = IF c = A!BeginToken THEN P("EndToken1", <<>>) ELSE New
    BY ParserIs, Zenon
  <2>2. \A c : fed(New, c) = IF c = A!BeginToken THEN P("BeginToken2", <<>>) ELSE New
    BY <1>2, ParserIs, Zenon
  <2> HIDE DEF fed, New, P
  <2>3. QED
    BY <1>1, <2>1, <2>2
<1>4. /\ fed(P("EndToken1", <<>>), q) = P("EndToken1", <<q>>)
      /\ fed(P("EndToken1", <<>>), A!EndToken) = P("EndToken2", <<>>)
      /\ fed(P("EndToken1", <<q>>), A!EndToken) = P("EndToken2", <<q>>)
  <2>1. Len(<<>>) = 0 /\ Append(<<>>, q) = <<q>>
    OBVIOUS
  <2>2. \A data, c : fed(P("EndToken1", data), c)
                       = IF c = A!EndToken THEN P("EndToken2", data)
                         ELSE IF Len(data) < MaxSize THEN P("EndToken1", Append(data, c))
                         ELSE New
    BY ParserIs, Zenon
  <2> HIDE DEF fed, New, P
  <2>3. QED
    BY <1>1, <2>1, <2>2
<1>5. \A data : /\ fed(P("EndToken2", data), A!EndToken) = Value(data)
                /\ fed(P("EndToken2", data), q) = New
                /\ fed(P("EndToken2", data), "0") = New
                /\ \A c : fed(Value(data), c) = Value(data)
  <2>1. \A data, c : fed(P("EndToken2", data), c) = IF c = A!EndToken THEN Value(data) ELSE New
    BY ParserIs, Zenon
  <2>2. \A data, c : fed(Value(data), c) = Value(data)
    BY ParserIs, Zenon
  <2> HIDE DEF fed, New, P
  <2>3. QED
    BY <1>1, <2>1, <2>2
<1> HIDE DEF P
<1>6. \A a, b, c, d, e : Fed5(a, b, c, d, e) = fed(fed(fed(fed(fed(New, a), b), c), d), e)
  BY Zenon DEF Fed5
<1> HIDE DEF fed, New
<1>7. /\ Fed5(A!BeginToken, A!BeginToken, q, A!EndToken, A!EndToken) = Value(<<q>>)
      /\ Fed5(A!BeginToken, q, A!EndToken, A!EndToken, "0") = New
      /\ Fed5(A!BeginToken, A!BeginToken, A!EndToken, A!EndToken, "0") = Value(<<>>)
      /\ Fed5(A!BeginToken, A!BeginToken, q, A!EndToken, "0") = New
  BY <1>3, <1>4, <1>5, <1>6
<1>8. A!processChar(Fed5(A!BeginToken, A!BeginToken, q, A!EndToken, A!EndToken), "0") = Value(<<q>>)
  BY <1>5, <1>7 DEF fed
<1>9. \A a, b, c, d, e : Folded(New, <<a, b, c, d, e>>) = Fed5(a, b, c, d, e)
  BY FoldOfFive DEF New
<1>10. Folded(New, <<A!BeginToken, A!BeginToken, q, A!EndToken, A!EndToken, "0">>) = Value(<<q>>)
  <2>1. \A a, b, c, d :
          Folded(New, <<a, a, b, c, c, d>>) = A!processChar(Fed5(a, a, b, c, c), d)
    BY FoldOfSix DEF New
  <2>2. Folded(New, <<A!BeginToken, A!BeginToken, q, A!EndToken, A!EndToken, "0">>)
          = A!processChar(Fed5(A!BeginToken, A!BeginToken, q, A!EndToken, A!EndToken), "0")
    BY <2>1, Zenon
  <2>3. QED
    BY <1>8, <2>2, Zenon
<1>11. Folded(New, <<A!BeginToken, q, A!EndToken, A!EndToken, "0">>) = New
  BY <1>7, <1>9, Zenon
<1>12. Folded(New, <<A!BeginToken, A!BeginToken, A!EndToken, A!EndToken, "0">>) = Value(<<>>)
  BY <1>7, <1>9, Zenon
<1>13. Folded(New, <<A!BeginToken, A!BeginToken, q, A!EndToken, "0">>) = New
  BY <1>7, <1>9, Zenon
<1>14. Folded(New, <<A!BeginToken, A!BeginToken, q, A!EndToken, A!EndToken>>) = Value(<<q>>)
  BY <1>7, <1>9, Zenon
<1>15. QED
  BY <1>10, <1>11, <1>12, <1>13, <1>14, Zenon DEF New

\* The values the board can have of what waits for it.
LEMMA QuestionRead ==
  ASSUME A!ArduinoAssumption, question \in {"?", "T"}, Asked(question)
  PROVE  /\ Folded(A!NewParser, down)
              \in {A!NewParser, Value(<<>>), Value(<<question>>)}
         /\ down = Question(question) =>
              Folded(A!NewParser, down) = Value(<<question>>)
<1>1. \A i \in 1 .. 6 : i = 1 \/ i = 2 \/ i = 3 \/ i = 4 \/ i = 5 \/ i = 6
  OBVIOUS
<1>2. \/ down = <<A!BeginToken, A!BeginToken, question, A!EndToken, A!EndToken, "0">>
      \/ /\ down # Question(question)
         /\ \/ down = <<A!BeginToken, question, A!EndToken, A!EndToken, "0">> \/ down = <<A!BeginToken, A!BeginToken, A!EndToken, A!EndToken, "0">>
            \/ down = <<A!BeginToken, A!BeginToken, question, A!EndToken, "0">> \/ down = <<A!BeginToken, A!BeginToken, question, A!EndToken, A!EndToken>>
  <2>1. CASE down = Question(question)
    BY <2>1, QuestionIs
  <2>2. CASE down # Question(question)
    <3>1. PICK i \in 1 .. 6 : down = A!RemoveAt(Question(question), i)
      BY <2>2 DEF Asked
    <3>2. QED
      BY <1>1, <2>2, <3>1, QuestionIs, Zenon
  <2>3. QED
    BY <2>1, <2>2
<1>3. QED
  BY <1>2, QuestionParsed, Zenon

----------------------------------------------------------------------------
(***************************************************************************)
(* Answers.                                                                *)
(***************************************************************************)
\* A packet, character by character.
LEMMA PacketIs ==
  ASSUME NEW data \in Seq(ArduinoChar)
  PROVE  /\ A!Packet(data) \in Seq(ArduinoChar) /\ Len(A!Packet(data)) = Len(data) + 4
         /\ A!Packet(data)[1] = A!BeginToken /\ A!Packet(data)[2] = A!BeginToken
         /\ \A i \in 1 .. Len(data) : A!Packet(data)[i + 2] = data[i]
         /\ A!Packet(data)[Len(data) + 3] = A!EndToken /\ A!Packet(data)[Len(data) + 4] = A!EndToken
<1> DEFINE o == A!BeginToken
           e == A!EndToken
           C == ArduinoChar
           n == Len(data)
           oo == <<o, o>>
           ee == <<e, e>>
           first == oo \o data
           packet == first \o ee
<1>0. A!Packet(data) = packet
  BY Zenon DEF A!Packet
<1>1. o \in C /\ e \in C /\ n \in Nat
  BY DEF ArduinoChar
<1> HIDE DEF o, e, C, n
<1>2. oo \in Seq(C) /\ Len(oo) = 2 /\ oo[1] = o /\ oo[2] = o
  BY <1>1
<1>3. ee \in Seq(C) /\ Len(ee) = 2 /\ ee[1] = e /\ ee[2] = e
  BY <1>1
<1> HIDE DEF oo, ee
<1>4. /\ first \in Seq(C) /\ Len(first) = n + 2
      /\ \A i \in 1 .. n + 2 : first[i] = IF i <= 2 THEN oo[i] ELSE data[i - 2]
  <2>1. /\ first \in Seq(C) /\ Len(first) = Len(oo) + Len(data)
        /\ \A i \in 1 .. Len(oo) + Len(data) :
             first[i] = IF i <= Len(oo) THEN oo[i] ELSE data[i - Len(oo)]
    BY <1>2, ConcatProperties DEF C
  <2>2. Len(data) = n
    BY DEF n
  <2>3. Len(oo) + Len(data) = n + 2
    BY <1>1, <1>2, <2>2
  <2>4. QED
    BY <1>2, <2>1, <2>3
<1> HIDE DEF first
<1>5. /\ packet \in Seq(C) /\ Len(packet) = n + 4
      /\ \A i \in 1 .. n + 4 : packet[i] = IF i <= n + 2 THEN first[i] ELSE ee[i - (n + 2)]
  <2>1. /\ packet \in Seq(C) /\ Len(packet) = Len(first) + Len(ee)
        /\ \A i \in 1 .. Len(first) + Len(ee) :
             packet[i] = IF i <= Len(first) THEN first[i] ELSE ee[i - Len(first)]
    BY <1>3, <1>4, ConcatProperties
  <2>2. Len(first) + Len(ee) = n + 4
    BY <1>1, <1>3, <1>4
  <2>3. QED
    BY <1>4, <2>1, <2>2
<1> HIDE DEF packet
<1>6. packet[1] = o /\ packet[2] = o
  BY <1>1, <1>2, <1>4, <1>5
<1>7. \A i \in 1 .. n : packet[i + 2] = data[i]
  <2> TAKE i \in 1 .. n
  <2>1. i + 2 \in 1 .. n + 2 /\ i + 2 \in 1 .. n + 4 /\ i + 2 <= n + 2 /\ ~(i + 2 <= 2) /\ (i + 2) - 2 = i
    BY <1>1
  <2>2. QED
    BY <1>4, <1>5, <2>1
<1>8. packet[n + 3] = e /\ packet[n + 4] = e
  <2>1. n + 3 \in 1 .. n + 4 /\ n + 4 \in 1 .. n + 4 /\ ~(n + 3 <= n + 2) /\ ~(n + 4 <= n + 2)
        /\ (n + 3) - (n + 2) = 1 /\ (n + 4) - (n + 2) = 2
    BY <1>1
  <2>2. QED
    BY <1>3, <1>5, <2>1
<1>9. QED
  BY <1>0, <1>5, <1>6, <1>7, <1>8 DEF o, e, C, n

\* What comes back to a question, which is read as an answer to it.
AnswerTo(q, line) ==
  /\ Len(line) > 2 /\ line[1] = A!BeginToken /\ line[2] = A!BeginToken
  /\ \/ q = "?" /\ Len(line) > 4 /\ line[3] = "A" /\ line[4] = A!EndToken /\ line[5] = A!EndToken
     \/ q = "T" /\ line[3] = A!EndToken
     \/ q = "T" /\ Len(line) > 4 /\ line[3] = "f" /\ line[4] = "f" /\ line[5] = A!EndToken

\* What the board may answer, and how an answer to a question begins.
LEMMA AnswerIs ==
  ASSUME NEW data \in {<<>>, <<"?">>, <<"T">>}, NEW answer \in A!Answers(data)
  PROVE  /\ answer \in Seq(ArduinoChar)
         /\ \A i \in DOMAIN answer : answer[i] = A!BeginToken => i \in {1, 2}
         /\ \A q \in {"?", "T"} : data = <<q>> => AnswerTo(q, answer)
<1> DEFINE C == ArduinoChar
<1>1. "A" \in C /\ "f" \in C /\ A!EndToken \in C
  BY DEF ArduinoChar
<1>2. \A q \in {"?", "T"} : data = <<q>> => data # <<>> /\ data[1] = q
  OBVIOUS
<1>3. \/ answer = A!Packet(<<"A">>) /\ (data = <<>> \/ data[1] = "?")
      \/ \E f \in A!Float : answer = A!Packet(f) /\ data # <<>> /\ data[1] = "T"
  BY DEF A!Answers, A!Means
<1>4. CASE answer = A!Packet(<<"A">>) /\ (data = <<>> \/ data[1] = "?")
  <2> DEFINE d == <<"A">>
  <2>1. d \in Seq(C) /\ Len(d) = 1 /\ d[1] = "A"
    BY <1>1
  <2> HIDE DEF d
  <2>2. /\ answer \in Seq(C) /\ Len(answer) = 5 /\ answer[1] = A!BeginToken /\ answer[2] = A!BeginToken
        /\ answer[3] = "A" /\ answer[4] = A!EndToken /\ answer[5] = A!EndToken
    <3>1. answer = A!Packet(d)
      BY <1>4 DEF d
    <3>2. /\ answer \in Seq(C) /\ Len(answer) = Len(d) + 4
          /\ answer[1] = A!BeginToken /\ answer[2] = A!BeginToken /\ \A i \in 1 .. Len(d) : answer[i + 2] = d[i]
          /\ answer[Len(d) + 3] = A!EndToken /\ answer[Len(d) + 4] = A!EndToken
      BY <2>1, <3>1, PacketIs
    <3>3. answer[1 + 2] = d[1]
      BY <2>1, <3>2
    <3>4. QED
      BY <2>1, <3>2, <3>3
  <2>3. \A i \in DOMAIN answer : i = 1 \/ i = 2 \/ i = 3 \/ i = 4 \/ i = 5
    BY <2>2
  <2>4. \A i \in DOMAIN answer : answer[i] = A!BeginToken => i \in {1, 2}
    BY <2>2, <2>3, TokensDiffer
  <2>5. \A q \in {"?", "T"} : data = <<q>> => AnswerTo(q, answer)
    BY <1>2, <1>4, <2>2 DEF AnswerTo
  <2>6. QED
    BY <2>2, <2>4, <2>5
<1>5. CASE \E f \in A!Float : answer = A!Packet(f) /\ data # <<>> /\ data[1] = "T"
  <2>1. PICK f \in A!Float : answer = A!Packet(f) /\ data # <<>> /\ data[1] = "T"
    BY <1>5
  <2>2. /\ f \in Seq(C) /\ Len(f) \in {2, 3}
        /\ \A i \in 1 .. Len(f) : f[i] # A!BeginToken
        /\ f[1] = A!EndToken \/ (Len(f) = 2 /\ f[1] = "f" /\ f[2] = "f")
    <3>1. CASE f = <<"f", "f">>
      <4>1. f \in Seq(C) /\ Len(f) = 2 /\ f[1] = "f" /\ f[2] = "f"
        BY <1>1, <3>1
      <4>2. \A i \in 1 .. Len(f) : i = 1 \/ i = 2
        BY <4>1
      <4>3. QED
        BY <4>1, <4>2, TokensDiffer
    <3>2. CASE f = <<A!EndToken, "f">>
      <4>1. f \in Seq(C) /\ Len(f) = 2 /\ f[1] = A!EndToken /\ f[2] = "f"
        BY <1>1, <3>2
      <4>2. \A i \in 1 .. Len(f) : i = 1 \/ i = 2
        BY <4>1
      <4>3. QED
        BY <4>1, <4>2, TokensDiffer
    <3>3. CASE f = <<A!EndToken, A!EndToken, "f">>
      <4>1. f \in Seq(C) /\ Len(f) = 3 /\ f[1] = A!EndToken /\ f[2] = A!EndToken /\ f[3] = "f"
        BY <1>1, <3>3
      <4>2. \A i \in 1 .. Len(f) : i = 1 \/ i = 2 \/ i = 3
        BY <4>1
      <4>3. QED
        BY <4>1, <4>2, TokensDiffer
    <3>4. QED
      BY <2>1, <3>1, <3>2, <3>3 DEF A!Float
  <2>3. /\ answer \in Seq(C) /\ Len(answer) = Len(f) + 4
        /\ answer[1] = A!BeginToken /\ answer[2] = A!BeginToken /\ \A i \in 1 .. Len(f) : answer[i + 2] = f[i]
        /\ answer[Len(f) + 3] = A!EndToken /\ answer[Len(f) + 4] = A!EndToken
    BY <2>1, <2>2, PacketIs
  <2>4. answer[3] = f[1] /\ answer[4] = f[2] /\ (Len(f) = 2 => answer[5] = A!EndToken)
    <3>1. 1 \in 1 .. Len(f) /\ 2 \in 1 .. Len(f)
      BY <2>2
    <3>2. answer[1 + 2] = f[1] /\ answer[2 + 2] = f[2]
      BY <2>3, <3>1
    <3>3. QED
      BY <2>3, <3>2
  <2>5. \A i \in DOMAIN answer : answer[i] = A!BeginToken => i \in {1, 2}
    <3> TAKE i \in DOMAIN answer
    <3>1. i = 1 \/ i = 2 \/ i - 2 \in 1 .. Len(f) \/ i = Len(f) + 3 \/ i = Len(f) + 4
      BY <2>2, <2>3
    <3>2. i - 2 \in 1 .. Len(f) => answer[i] = f[i - 2]
      <4>1. HAVE i - 2 \in 1 .. Len(f)
      <4>2. answer[(i - 2) + 2] = f[i - 2] /\ (i - 2) + 2 = i
        BY <2>3, <4>1
      <4>3. QED
        BY <4>2
    <3>3. QED
      BY <2>2, <2>3, <3>1, <3>2, TokensDiffer
  <2>6. \A q \in {"?", "T"} : data = <<q>> => AnswerTo(q, answer)
    <3> SUFFICES ASSUME NEW q \in {"?", "T"}, data = <<q>>
                 PROVE  AnswerTo(q, answer)
      OBVIOUS
    <3>1. q = "T"
      BY <1>2, <2>1
    <3>2. QED
      BY <2>2, <2>3, <2>4, <3>1 DEF AnswerTo
  <2>7. QED
    BY <2>3, <2>5, <2>6
<1>6. QED
  BY <1>3, <1>4, <1>5

----------------------------------------------------------------------------
(***************************************************************************)
(* The Arduino's steps.                                                    *)
(***************************************************************************)
LEMMA ParsersDiffer ==
  /\ A!NewParser.s = "BeginToken1" /\ A!NewParser.data = <<>> /\ ~A!HasValue(A!NewParser)
  /\ \A data : /\ Value(data) # A!NewParser /\ A!HasValue(Value(data))
               /\ Value(data).s = "ValueFound" /\ Value(data).data = data
BY DEF A!NewParser, Value, A!HasValue

\* A board that received nothing is where it was.
LEMMA NothingFed == ASSUME NEW p PROVE Folded(p, <<>>) = p
<1>1. PICK h : Feeds(h, p, <<>>, 0) /\ Folded(p, <<>>) = h[0]
  <2>1. 0 \in 0 .. 6 /\ DOMAIN <<>> = 1 .. 0
    OBVIOUS
  <2>2. QED
    BY <2>1, FedEach
<1>2. QED
  BY <1>1 DEF Feeds

\* The question at the end of a line at rest.
LEMMA QuestionPut ==
  ASSUME NEW q, NEW line, line = <<>>
  PROVE  line \o A!Packet(<<q>>) \o <<"0">> = Question(q) /\ Question(q) # <<>>
<1> DEFINE o == A!BeginToken
           e == A!EndToken
           C == {o, q, e}
           first == <<o, o>> \o <<q>>
           packet == first \o <<e, e>>
<1> HIDE DEF o, e
<1>1. first \in Seq(C)
  BY ConcatProperties
<1>2. <<e, e>> \in Seq(C)
  OBVIOUS
<1>3. packet \in Seq(C)
  <2> HIDE DEF first, C
  <2>1. QED
    BY <1>1, <1>2, ConcatProperties
<1>4. A!Packet(<<q>>) = packet
  BY Zenon DEF A!Packet, o, e
<1> HIDE DEF packet, C
<1>5. line \o packet = packet
  BY <1>3, ConcatEmptySeq
<1>6. Question(q) = <<o, o, q, e, e, "0">>
  BY QuestionIs DEF o, e
<1>7. Question(q) # <<>>
  BY <1>6
<1>8. QED
  BY <1>4, <1>5, <1>7, Zenon DEF Question

\* While nothing is asked, all is at rest.
LEMMA RestKeeps ==
  ASSUME ArduinoTypes', BoardInv', ~A!Waiting', down' = <<>>, machine' = A!NewParser,
         NothingOpens(up)', at' = "found" => m_serial' # 0, A!RightAnswer'
  PROVE  ArduinoInv'
<1>1. OpensFirst'
  BY DEF OpensFirst, NothingOpens
<1>2. ~A!HasValue(machine)'
  BY ParsersDiffer DEF A!HasValue
<1>3. ExchangeInv'
  BY <1>2 DEF ExchangeInv
<1>4. CleanInv'
  BY DEF CleanInv
<1>5. QED
  BY <1>1, <1>3, <1>4 DEF ArduinoInv

\* The last answer is not touched.
LEMMA AnswerKept == ASSUME A!RightAnswer, UNCHANGED got PROVE A!RightAnswer'
BY Zenon DEF A!RightAnswer

\* A question to an open port.
LEMMA AskKeeps ==
  ASSUME A!ArduinoAssumption, ArduinoInv, ~A!Waiting,
         NEW q \in {"?", "T"}, NEW serial \in 1 .. Ports, A!Ask(q, serial),
         plug[serial] # "none", UNCHANGED <<plug, machine, lost, got, port, sinceFind>>,
         m_serial' = serial, dead' = FALSE, m_arduino_temp' \in BOOLEAN,
         up' = up \/ up' = <<>>, at' = IF q = "?" THEN "identify" ELSE "ask"
  PROVE  ArduinoInv'
<1>1. ArduinoTypes /\ BoardInv /\ ExchangeInv /\ A!RightAnswer
  BY DEF ArduinoInv
<1>2. down = <<>> /\ machine = A!NewParser /\ NothingOpens(up)
  BY <1>1 DEF ExchangeInv
<1>3. /\ question' = q /\ m' = A!NewParser /\ waited' = 0 /\ clean' = TRUE
      /\ down' = IF plug[serial] = "arduino" THEN Question(q) ELSE <<>>
  <2>1. serial # 0
    BY DEF A!ArduinoAssumption
  <2>2. down \o A!Packet(<<q>>) \o <<"0">> = Question(q)
    BY <1>2, QuestionPut
  <2>3. /\ question' = q /\ m' = A!NewParser /\ waited' = 0 /\ clean' = TRUE
        /\ down' = IF serial # 0 /\ plug[serial] = "arduino"
                   THEN down \o A!Packet(<<q>>) \o <<"0">> ELSE down
    BY Zenon DEF A!Ask
  <2> DEFINE put == down \o A!Packet(<<q>>) \o <<"0">>
  <2>4. put = Question(q)
    BY <2>2
  <2>5. down' = IF serial # 0 /\ plug[serial] = "arduino" THEN put ELSE down
    BY <2>3, Zenon
  <2> HIDE DEF put
  <2>6. QED
    BY <1>2, <2>1, <2>3, <2>4, <2>5
<1>4. up' \in Seq(ArduinoChar) /\ NothingOpens(up)'
  <2>1. CASE up' = up
    BY <1>1, <1>2, <2>1 DEF ArduinoTypes, NothingOpens
  <2>2. CASE up' = <<>>
    BY <2>2 DEF NothingOpens
  <2>3. QED
    BY <2>1, <2>2
<1>5. A!NewParser \in [s : ParserState, data : Seq(ArduinoChar)]
  BY DEF A!NewParser, ParserState
<1>6. ArduinoTypes'
  <2>1. m' \in [s : ParserState, data : Seq(ArduinoChar)]
    BY <1>3, <1>5
  <2>2. serial \in 0 .. Ports
    BY DEF A!ArduinoAssumption
  <2>3. plug' \in [1 .. Ports -> A!Thing] /\ lost' \in {0, 1} /\ port' \in Nat \ {0}
        /\ sinceFind' \in Nat
        /\ machine' \in {A!NewParser} \cup {Value(d) : d \in {<<>>, <<"?">>, <<"T">>}}
    BY <1>1 DEF ArduinoTypes
  <2>4. at' \in {"idle", "search", "identify", "found", "ask", "undefined"}
    OBVIOUS
  <2>5. QED
    BY <1>3, <1>4, <2>1, <2>2, <2>3, <2>4 DEF ArduinoTypes
<1>7. BoardInv'
  BY <1>1 DEF BoardInv
<1>8. OpensFirst'
  BY <1>4 DEF OpensFirst, NothingOpens
<1>9. A!AtBoard' <=> plug[serial] = "arduino"
  BY DEF A!AtBoard, A!ArduinoAssumption
<1>10. m'.s # "ValueFound" /\ ~A!HasValue(machine)'
  BY <1>2, <1>3, ParsersDiffer DEF A!HasValue
<1>11. ExchangeInv'
  <2>1. A!Waiting' /\ at' # "found" /\ m_serial' # 0
    BY DEF A!Waiting, A!ArduinoAssumption
  <2>2. question' = IF at' = "identify" THEN "?" ELSE "T"
    BY <1>3
  <2>3. down' # <<>> => A!AtBoard' /\ Asked(question)'
    BY <1>3, <1>9 DEF Asked
  <2>4. QED
    BY <1>2, <1>3, <1>4, <1>10, <2>1, <2>2, <2>3 DEF ExchangeInv
<1>12. CleanInv'
  BY <1>3, <1>9 DEF CleanInv
<1>13. A!RightAnswer'
  BY <1>1, AnswerKept
<1>14. QED
  BY <1>6, <1>7, <1>8, <1>11, <1>12, <1>13 DEF ArduinoInv

\* A port is opened, and the thing at it is asked for its name.
LEMMA OpenKeeps ==
  ASSUME A!ArduinoAssumption, ArduinoInv, A!Open
  PROVE  ArduinoInv'
<1>1. ArduinoTypes /\ BoardInv /\ ExchangeInv /\ A!RightAnswer
  BY DEF ArduinoInv
<1>2. at = "search" /\ ~A!Waiting /\ UNCHANGED <<plug, sinceFind, lost, plugs, got>>
  BY DEF A!Open, A!Waiting
<1>3. down = <<>> /\ machine = A!NewParser /\ NothingOpens(up)
  BY <1>1, <1>2 DEF ExchangeInv
<1>4. CASE port > Ports
  <2>1. at' = "idle" /\ m_arduino_temp' = FALSE
        /\ UNCHANGED <<down, up, machine, m, m_serial, dead, question, waited, clean, port>>
    BY <1>4 DEF A!Open, A!lineVars
  <2>2. ArduinoTypes'
    BY <1>1, <1>2, <2>1 DEF ArduinoTypes
  <2>3. BoardInv' /\ NothingOpens(up)' /\ ~A!Waiting'
    BY <1>1, <1>2, <1>3, <2>1 DEF BoardInv, NothingOpens, A!Waiting
  <2>4. QED
    BY <1>1, <1>2, <1>3, <2>1, <2>2, <2>3, RestKeeps, AnswerKept
<1>5. CASE ~(port > Ports) /\ plug[port] = "none"
  <2>1. port' = port + 1
        /\ UNCHANGED <<down, up, machine, m, m_arduino_temp, m_serial, dead, question, waited, clean, at>>
    BY <1>5 DEF A!Open, A!lineVars
  <2>2. port' \in Nat \ {0}
    BY <1>1, <2>1 DEF ArduinoTypes
  <2>3. ArduinoTypes'
    BY <1>1, <1>2, <2>1, <2>2 DEF ArduinoTypes
  <2>4. BoardInv' /\ NothingOpens(up)' /\ ~A!Waiting'
    BY <1>1, <1>2, <1>3, <2>1 DEF BoardInv, NothingOpens, A!Waiting
  <2>5. QED
    BY <1>1, <1>2, <1>3, <2>1, <2>3, <2>4, RestKeeps, AnswerKept
<1>6. CASE ~(port > Ports) /\ plug[port] # "none"
  <2>1. /\ A!Ask("?", port) /\ m_serial' = port /\ dead' = FALSE /\ up' = <<>> /\ at' = "identify"
        /\ UNCHANGED <<machine, m_arduino_temp, port>>
    BY <1>6 DEF A!Open
  <2>2. port \in 1 .. Ports /\ m_arduino_temp \in BOOLEAN
    BY <1>1, <1>6 DEF ArduinoTypes, A!ArduinoAssumption
  <2>3. QED
    BY <1>2, <1>6, <2>1, <2>2, AskKeeps
<1>7. QED
  BY <1>4, <1>5, <1>6

\* The board was found, and is asked for the temperature.
LEMMA FoundKeeps ==
  ASSUME A!ArduinoAssumption, ArduinoInv, A!Found
  PROVE  ArduinoInv'
<1>1. ArduinoTypes /\ BoardInv /\ ExchangeInv /\ A!RightAnswer
  BY DEF ArduinoInv
<1>2. /\ at = "found" /\ ~A!Waiting
      /\ UNCHANGED <<plug, up, machine, m_arduino_temp, dead, sinceFind, port, lost, plugs, got>>
  BY DEF A!Found, A!Waiting
<1>3. down = <<>> /\ machine = A!NewParser /\ NothingOpens(up) /\ m_serial # 0
  BY <1>1, <1>2 DEF ExchangeInv
<1>4. CASE dead
  <2>1. m_serial' = 0 /\ at' = "idle" /\ UNCHANGED <<down, m, question, waited, clean>>
    BY <1>4 DEF A!Found
  <2>2. 0 \in 0 .. Ports
    BY DEF A!ArduinoAssumption
  <2>3. ArduinoTypes'
    BY <1>1, <1>2, <2>1, <2>2 DEF ArduinoTypes
  <2>4. BoardInv' /\ NothingOpens(up)' /\ ~A!Waiting'
    BY <1>1, <1>2, <1>3, <2>1 DEF BoardInv, NothingOpens, A!Waiting
  <2>5. QED
    BY <1>1, <1>2, <1>3, <2>1, <2>3, <2>4, RestKeeps, AnswerKept
<1>5. CASE ~dead
  <2>1. A!Ask("T", m_serial) /\ at' = "ask" /\ m_serial' = m_serial
    BY <1>5 DEF A!Found
  <2>2. m_serial \in 1 .. Ports /\ m_arduino_temp \in BOOLEAN /\ dead \in BOOLEAN
    BY <1>1, <1>3 DEF ArduinoTypes, A!ArduinoAssumption
  <2>3. plug[m_serial] # "none"
    BY <1>1, <1>3, <1>5 DEF BoardInv
  <2>4. dead' = FALSE
    BY <1>2, <1>5, <2>2
  <2>5. QED
    BY <1>2, <2>1, <2>2, <2>3, <2>4, AskKeeps
<1>6. QED
  BY <1>4, <1>5

\* An update asks for the temperature, begins a search or waits for the next one.
LEMMA UpdateTempKeeps ==
  ASSUME A!ArduinoAssumption, ArduinoInv, A!update_sensors
  PROVE  ArduinoInv'
<1>1. ArduinoTypes /\ BoardInv /\ ExchangeInv /\ A!RightAnswer
  BY DEF ArduinoInv
<1>2. at = "idle" /\ ~A!Waiting /\ UNCHANGED <<plug, dead, lost, plugs, got>>
  BY DEF A!update_sensors, A!Waiting
<1>3. down = <<>> /\ machine = A!NewParser /\ NothingOpens(up)
  BY <1>1, <1>2 DEF ExchangeInv
<1>4. m_arduino_temp \in BOOLEAN /\ dead \in BOOLEAN
  BY <1>1 DEF ArduinoTypes
<1>5. CASE m_arduino_temp /\ ~A!Gone /\ ~(m_serial # 0 /\ dead)
  <2>1. /\ A!Ask("T", m_serial) /\ at' = "ask"
        /\ UNCHANGED <<up, machine, m_arduino_temp, m_serial, sinceFind, port>>
    BY <1>5 DEF A!update_sensors
  <2>2. m_serial \in 1 .. Ports /\ m_serial # 0 /\ dead = FALSE
    BY <1>1, <1>4, <1>5 DEF ArduinoTypes, A!Gone, A!ArduinoAssumption
  <2>3. plug[m_serial] # "none"
    BY <1>1, <2>2 DEF BoardInv
  <2>4. QED
    BY <1>2, <1>4, <2>1, <2>2, <2>3, AskKeeps
<1>6. CASE ~(m_arduino_temp /\ ~A!Gone /\ ~(m_serial # 0 /\ dead))
  <2>1. /\ UNCHANGED <<down, up, machine, m, question, waited, clean>>
        /\ at' \in {at, "search"} /\ port' \in {port, 1} /\ m_serial' \in {m_serial, 0}
        /\ m_arduino_temp' \in {m_arduino_temp, FALSE} /\ sinceFind' \in {sinceFind, sinceFind + 1, 0}
    <3>1. CASE ~m_arduino_temp /\ sinceFind < FindPeriod
      BY <3>1 DEF A!update_sensors, A!lineVars
    <3>2. CASE ~m_arduino_temp /\ sinceFind >= FindPeriod
      BY <3>2 DEF A!update_sensors, A!lineVars
    <3>3. CASE A!Gone
      BY <3>3 DEF A!update_sensors, A!lineVars
    <3>4. CASE m_arduino_temp /\ ~A!Gone /\ m_serial # 0 /\ dead
      BY <3>4 DEF A!update_sensors, A!lineVars
    <3>5. sinceFind < FindPeriod \/ sinceFind >= FindPeriod
      BY <1>1 DEF ArduinoTypes, A!ArduinoAssumption
    <3>6. QED
      BY <1>6, <3>1, <3>2, <3>3, <3>4, <3>5
  <2>2. m_serial' \in 0 .. Ports /\ port' \in Nat \ {0} /\ sinceFind' \in Nat
    BY <1>1, <2>1 DEF ArduinoTypes, A!ArduinoAssumption
  <2>3. ArduinoTypes'
    BY <1>1, <1>2, <2>1, <2>2 DEF ArduinoTypes
  <2>4. BoardInv' /\ NothingOpens(up)' /\ ~A!Waiting' /\ at' # "found"
    BY <1>1, <1>2, <1>3, <2>1 DEF BoardInv, NothingOpens, A!Waiting
  <2>5. QED
    BY <1>1, <1>2, <1>3, <2>1, <2>3, <2>4, RestKeeps, AnswerKept
<1>7. QED
  BY <1>5, <1>6

\* The parser of the client takes a character.
LEMMA CharTaken ==
  ASSUME A!ArduinoAssumption, NEW p \in [s : ParserState, data : Seq(ArduinoChar)],
         NEW c \in ArduinoChar
  PROVE  /\ A!processChar(p, c) \in [s : ParserState, data : Seq(ArduinoChar)]
         /\ p.s = "BeginToken1" => A!processChar(p, c)
              = IF c = A!BeginToken THEN Parser("BeginToken2", p.data) ELSE p
         /\ p.s = "BeginToken2" => A!processChar(p, c)
              = IF c = A!BeginToken THEN Parser("EndToken1", p.data) ELSE A!NewParser
         /\ p.s = "EndToken1" =>
              /\ c = A!EndToken => A!processChar(p, c) = Parser("EndToken2", p.data)
              /\ c # A!EndToken =>
                   A!processChar(p, c) \in {Parser("EndToken1", Append(p.data, c)), A!NewParser}
              /\ c # A!EndToken /\ p.data = <<>> =>
                   A!processChar(p, c) = Parser("EndToken1", <<c>>)
         /\ p.s = "EndToken2" => A!processChar(p, c)
              = IF c = A!EndToken THEN Value(p.data) ELSE A!NewParser
<1>1. p = Parser(p.s, p.data) /\ p.data \in Seq(ArduinoChar) /\ p.s \in ParserState
  BY DEF Parser
<1> DEFINE q == A!processChar(p, c)
<1>2. \A st, data : st \in ParserState /\ data \in Seq(ArduinoChar) =>
        Parser(st, data) \in [s : ParserState, data : Seq(ArduinoChar)]
  BY DEF Parser
<1>3. A!NewParser = Parser("BeginToken1", <<>>) /\ \A data : Value(data) = Parser("ValueFound", data)
  BY ParserIs
<1>4. /\ A!NewParser \in [s : ParserState, data : Seq(ArduinoChar)]
      /\ \A data \in Seq(ArduinoChar) : Value(data) \in [s : ParserState, data : Seq(ArduinoChar)]
  <2>1. "BeginToken1" \in ParserState /\ "ValueFound" \in ParserState /\ <<>> \in Seq(ArduinoChar)
    BY DEF ParserState
  <2>2. QED
    BY <1>2, <1>3, <2>1, Zenon
<1>5. ASSUME p.s = "BeginToken1"
      PROVE  q = IF c = A!BeginToken THEN Parser("BeginToken2", p.data) ELSE p
  <2>1. q = IF c = A!BeginToken THEN Parser("BeginToken2", p.data) ELSE Parser("BeginToken1", p.data)
    BY <1>1, <1>5, ParserIs
  <2>2. QED
    BY <1>1, <1>5, <2>1
<1>6. ASSUME p.s = "BeginToken2"
      PROVE  q = IF c = A!BeginToken THEN Parser("EndToken1", p.data) ELSE A!NewParser
  BY <1>1, <1>6, ParserIs
<1>7. ASSUME p.s = "EndToken1"
      PROVE  /\ q = IF c = A!EndToken THEN Parser("EndToken2", p.data)
                    ELSE IF Len(p.data) < MaxSize THEN Parser("EndToken1", Append(p.data, c))
                    ELSE A!NewParser
             /\ p.data = <<>> /\ c # A!EndToken => q = Parser("EndToken1", <<c>>)
  <2>1. q = IF c = A!EndToken THEN Parser("EndToken2", p.data)
            ELSE IF Len(p.data) < MaxSize THEN Parser("EndToken1", Append(p.data, c))
            ELSE A!NewParser
    BY <1>1, <1>7, ParserIs
  <2>2. Len(<<>>) = 0 /\ 0 < MaxSize /\ Append(<<>>, c) = <<c>>
    BY DEF A!ArduinoAssumption
  <2>3. QED
    <3> HIDE DEF q
    <3>1. QED
      BY <2>1, <2>2
<1>8. ASSUME p.s = "EndToken2"
      PROVE  q = IF c = A!EndToken THEN Value(p.data) ELSE A!NewParser
  BY <1>1, <1>8, ParserIs
<1>9. ASSUME p.s = "ValueFound"
      PROVE  q = p
  BY <1>1, <1>3, <1>9, ParserIs
<1>10. Append(p.data, c) \in Seq(ArduinoChar)
  BY <1>1
<1> HIDE DEF q
<1>11. q \in [s : ParserState, data : Seq(ArduinoChar)]
  <2> DEFINE T0 == [s : ParserState, data : Seq(ArduinoChar)]
  <2>1. /\ p \in T0 /\ A!NewParser \in T0 /\ Value(p.data) \in T0
        /\ \A st \in ParserState : Parser(st, p.data) \in T0 /\ Parser(st, Append(p.data, c)) \in T0
    BY <1>1, <1>2, <1>4, <1>10, Zenon
  <2>2. "BeginToken2" \in ParserState /\ "EndToken1" \in ParserState /\ "EndToken2" \in ParserState
    BY DEF ParserState
  <2>3. p.s \in {"BeginToken1", "BeginToken2", "EndToken1", "EndToken2", "ValueFound"}
    BY <1>1 DEF ParserState
  <2> HIDE DEF T0
  <2>4. q \in T0
    BY <1>5, <1>6, <1>7, <1>8, <1>9, <2>1, <2>2, <2>3
  <2>5. QED
    BY <2>4 DEF T0
<1>12. QED
  BY <1>5, <1>6, <1>7, <1>8, <1>11 DEF q

\* An exchange ends, with a value or without: all is at rest then.
LEMMA EndedKeeps ==
  ASSUME A!ArduinoAssumption, ArduinoInv, A!Waiting, down = <<>>, machine = A!NewParser,
         NEW value, NEW closed \in BOOLEAN, A!Ended(value, closed),
         UNCHANGED <<plug, down, machine, dead, sinceFind, question, lost, clean>>,
         up' \in Seq(ArduinoChar), NothingOpens(up)', waited' \in Nat,
         m' \in [s : ParserState, data : Seq(ArduinoChar)],
         closed => value = A!NoValue,
         clean /\ A!AtBoard =>
           \/ question = "?" /\ value = <<"A">>
           \/ question = "T" /\ value \in {A!NoValue, <<>>, <<"f", "f">>}
  PROVE  ArduinoInv'
<1>1. ArduinoTypes /\ BoardInv /\ ExchangeInv
  BY DEF ArduinoInv
<1>2. m_serial # 0 /\ at \in {"identify", "ask"}
  BY <1>1 DEF ExchangeInv, A!Waiting
<1>3. /\ got' = [question |-> question, value |-> value, clean |-> clean /\ A!AtBoard]
      /\ at' = CASE at = "ask" -> "idle"
                 [] at = "identify" /\ value = <<>> -> "undefined"
                 [] at = "identify" /\ (value # <<>> /\ value[1] = "A") -> "found"
                 [] OTHER -> "search"
      /\ port' = IF at' = "search" THEN port + 1 ELSE port
      /\ m_arduino_temp' = (m_arduino_temp \/ at' = "found")
      /\ m_serial' = IF closed \/ at' = "search" THEN 0 ELSE m_serial
  BY Zenon DEF A!Ended
<1>4. at' \in {"idle", "undefined", "found", "search"}
  BY <1>2, <1>3
<1>5. at' = "found" => m_serial' # 0
  <2>1. ASSUME at' = "found", closed
        PROVE  FALSE
    <3>1. value = A!NoValue /\ A!NoValue[1] # "A"
      BY <2>1 DEF A!NoValue
    <3>2. at = "identify"
      BY <1>2, <1>3, <2>1
    <3>3. QED
      BY <1>3, <2>1, <3>1, <3>2
  <2>2. QED
    BY <1>2, <1>3, <2>1
<1>6. ArduinoTypes'
  <2>1. port' \in Nat \ {0}
    BY <1>1, <1>3 DEF ArduinoTypes
  <2>2. m_arduino_temp' \in BOOLEAN /\ m_serial' \in 0 .. Ports
    BY <1>1, <1>3 DEF ArduinoTypes, A!ArduinoAssumption
  <2>3. QED
    BY <1>1, <1>4, <2>1, <2>2 DEF ArduinoTypes
<1>7. BoardInv' /\ ~A!Waiting'
  BY <1>1, <1>3, <1>4 DEF BoardInv, A!Waiting
<1>8. A!RightAnswer'
  <2>1. ASSUME got.clean'
        PROVE  \/ got.question' = "?" /\ got.value' = <<"A">>
               \/ got.question' = "T" /\ got.value' \in {A!NoValue, <<>>, <<"f", "f">>}
    <3>1. got'.question = question /\ got'.value = value /\ got'.clean = (clean /\ A!AtBoard)
      BY <1>3, Zenon
    <3>2. clean /\ A!AtBoard
      BY <2>1, <3>1
    <3>3. QED
      BY <3>1, <3>2
  <2>2. QED
    BY <2>1 DEF A!RightAnswer
<1>9. QED
  BY <1>5, <1>6, <1>7, <1>8, RestKeeps

\* An answer on its way comes on by a character.
LEMMA OneCharOn ==
  ASSUME A!ArduinoAssumption, ArduinoTypes, OpensFirst, up # <<>>,
         NEW q \in {"?", "T"}, OnItsWay(q),
         m' = A!processChar(m, Head(up)), up' = Tail(up), ~A!HasValue(m')
  PROVE  OnItsWay(q)'
<1> DEFINE c == up[1]
<1>1. m \in [s : ParserState, data : Seq(ArduinoChar)] /\ up \in Seq(ArduinoChar) /\ c \in ArduinoChar
  BY DEF ArduinoTypes
<1>2. /\ Head(up) = c /\ up' \in Seq(ArduinoChar) /\ Len(up') = Len(up) - 1 /\ Len(up) \in Nat
      /\ Len(up) > 0 /\ \A i \in 1 .. (Len(up) - 1) : up'[i] = up[i + 1]
  BY <1>1, HeadTailProperties
<1>3. m' = A!processChar(m, c)
  BY <1>2
<1>4. /\ Len(up) > 1 => up'[1] = up[2]
      /\ Len(up) > 2 => up'[2] = up[3]
      /\ Len(up) > 3 => up'[3] = up[4]
      /\ Len(up) > 4 => up'[4] = up[5]
  BY <1>2
<1> HIDE DEF c
<1>5. /\ m.s = "BeginToken1" => m' = IF c = A!BeginToken THEN Parser("BeginToken2", m.data) ELSE m
      /\ m.s = "BeginToken2" =>
           m' = IF c = A!BeginToken THEN Parser("EndToken1", m.data) ELSE A!NewParser
      /\ m.s = "EndToken1" =>
           /\ c = A!EndToken => m' = Parser("EndToken2", m.data)
           /\ c # A!EndToken => m' \in {Parser("EndToken1", Append(m.data, c)), A!NewParser}
           /\ c # A!EndToken /\ m.data = <<>> => m' = Parser("EndToken1", <<c>>)
      /\ m.s = "EndToken2" => m' = IF c = A!EndToken THEN Value(m.data) ELSE A!NewParser
  BY <1>1, <1>3, CharTaken
<1>12. m.s \in {"EndToken1", "EndToken2"} => NothingOpens(up)'
  <2>1. m.s \in {"EndToken1", "EndToken2"} => NothingOpens(up)
    BY DEF OpensFirst, NothingOpens
  <2>2. NothingOpens(up) => NothingOpens(up)'
    BY <1>2 DEF NothingOpens
  <2>3. QED
    BY <2>1, <2>2
<1>6. CASE m = A!NewParser /\ Len(up) > 2 /\ up[1] = A!BeginToken /\ up[2] = A!BeginToken /\ Rest(q, <<>>, 3)
  <2>1. m' = Parser("BeginToken2", <<>>)
    BY <1>5, <1>6, ParsersDiffer DEF c
  <2>2. m'.s = "BeginToken2" /\ m'.data = <<>>
    BY <2>1 DEF Parser
  <2>3. Rest(q, <<>>, 2)'
    BY <1>2, <1>4, <1>6 DEF Rest
  <2>4. QED
    BY <1>2, <1>4, <1>6, <2>2, <2>3 DEF OnItsWay
<1>7. CASE m.s = "BeginToken2" /\ m.data = <<>> /\ Len(up) > 1 /\ up[1] = A!BeginToken /\ Rest(q, <<>>, 2)
  <2>1. m' = Parser("EndToken1", <<>>)
    BY <1>5, <1>7 DEF c
  <2>2. m'.s = "EndToken1" /\ m'.data = <<>>
    BY <2>1 DEF Parser
  <2>3. Rest(q, <<>>, 1)'
    BY <1>2, <1>4, <1>7 DEF Rest
  <2>4. QED
    BY <2>2, <2>3 DEF OnItsWay
<1>8. CASE m.s = "EndToken1" /\ Rest(q, m.data, 1)
  <2>1. CASE /\ q = "?" /\ m.data = <<>> /\ Len(up) > 2
             /\ c = "A" /\ up[2] = A!EndToken /\ up[3] = A!EndToken
    <3>1. m'.s = "EndToken1" /\ m'.data = <<"A">>
      BY <1>5, <1>8, <2>1, TokensDiffer DEF Parser
    <3>2. Rest(q, <<"A">>, 1)'
      BY <1>2, <1>4, <2>1 DEF Rest
    <3>3. QED
      BY <3>1, <3>2 DEF OnItsWay
  <2>2. CASE q = "?" /\ m.data = <<"A">> /\ Len(up) > 1 /\ c = A!EndToken /\ up[2] = A!EndToken
    <3>1. m'.s = "EndToken2" /\ m'.data = <<"A">>
      BY <1>5, <1>8, <2>2 DEF Parser
    <3>2. QED
      BY <1>2, <1>4, <2>2, <3>1 DEF OnItsWay
  <2>3. CASE q = "T" /\ m.data \in {<<>>, <<"f", "f">>} /\ c = A!EndToken
    <3>1. m'.s = "EndToken2" /\ m'.data = m.data
      BY <1>5, <1>8, <2>3 DEF Parser
    <3>2. QED
      BY <2>3, <3>1 DEF OnItsWay
  <2>4. CASE q = "T" /\ m.data = <<>> /\ Len(up) > 2 /\ c = "f" /\ up[2] = "f" /\ up[3] = A!EndToken
    <3>1. m'.s = "EndToken1" /\ m'.data = <<"f">>
      BY <1>5, <1>8, <2>4, TokensDiffer DEF Parser
    <3>2. Rest(q, <<"f">>, 1)'
      BY <1>2, <1>4, <2>4 DEF Rest
    <3>3. QED
      BY <3>1, <3>2 DEF OnItsWay
  <2>5. CASE q = "T" /\ m.data = <<"f">> /\ Len(up) > 1 /\ c = "f" /\ up[2] = A!EndToken
    <3>1. m' \in {Parser("EndToken1", <<"f", "f">>), A!NewParser}
      <4>1. \A x : Append(<<x>>, x) = <<x, x>>
        <5> TAKE x
        <5> DEFINE a == Append(<<x>>, x)
                   b == <<x, x>>
        <5>1. a \in Seq({x}) /\ Len(a) = 2 /\ a[1] = x /\ a[2] = x
          OBVIOUS
        <5>2. b \in Seq({x}) /\ Len(b) = 2 /\ b[1] = x /\ b[2] = x
          OBVIOUS
        <5> HIDE DEF a, b
        <5>3. \A i \in 1 .. 2 : a[i] = b[i]
          BY <5>1, <5>2
        <5>4. a = b
          BY <5>1, <5>2, <5>3, SeqEqual
        <5>5. QED
          BY <5>4 DEF a, b
      <4>2. QED
        BY <1>5, <1>8, <2>5, <4>1, TokensDiffer
    <3>2. CASE m' = Parser("EndToken1", <<"f", "f">>)
      <4>1. m'.s = "EndToken1" /\ m'.data = <<"f", "f">>
        BY <3>2 DEF Parser
      <4>2. Rest(q, <<"f", "f">>, 1)'
        BY <1>2, <1>4, <2>5 DEF Rest
      <4>3. QED
        BY <4>1, <4>2 DEF OnItsWay
    <3>3. CASE m' = A!NewParser
      BY <1>8, <1>12, <2>5, <3>3 DEF OnItsWay
    <3>4. QED
      BY <3>1, <3>2, <3>3
  <2>6. \/ /\ q = "?" /\ m.data = <<>> /\ Len(up) > 1 + 1
           /\ up[1] = "A" /\ up[1 + 1] = A!EndToken /\ up[1 + 2] = A!EndToken
        \/ q = "?" /\ m.data = <<"A">> /\ Len(up) > 1 /\ up[1] = A!EndToken /\ up[1 + 1] = A!EndToken
        \/ q = "T" /\ m.data \in {<<>>, <<"f", "f">>} /\ up[1] = A!EndToken
        \/ /\ q = "T" /\ m.data = <<>> /\ Len(up) > 1 + 1
           /\ up[1] = "f" /\ up[1 + 1] = "f" /\ up[1 + 2] = A!EndToken
        \/ q = "T" /\ m.data = <<"f">> /\ Len(up) > 1 /\ up[1] = "f" /\ up[1 + 1] = A!EndToken
    BY <1>8, Zenon DEF Rest
  <2>7. c = up[1] /\ 1 + 1 = 2 /\ 1 + 2 = 3
    BY DEF c
  <2>8. QED
    BY <2>1, <2>2, <2>3, <2>4, <2>5, <2>6, <2>7, Zenon
<1>9. CASE m.s = "EndToken2"
  <2>1. c # A!EndToken
    BY <1>5, <1>9, ParsersDiffer
  <2>2. m' = A!NewParser
    BY <1>5, <1>9, <2>1
  <2>3. q = "T"
    BY <1>9, <2>1, ParsersDiffer DEF OnItsWay, c
  <2>4. QED
    BY <1>9, <1>12, <2>2, <2>3 DEF OnItsWay
<1>10. CASE m = A!NewParser /\ q = "T" /\ NothingOpens(up)
  <2>1. c # A!BeginToken
    BY <1>2, <1>10 DEF NothingOpens, c
  <2>2. m' = A!NewParser
    BY <1>5, <1>10, <2>1, ParsersDiffer
  <2>3. NothingOpens(up)'
    BY <1>2, <1>10 DEF NothingOpens
  <2>4. QED
    BY <1>10, <2>2, <2>3 DEF OnItsWay
<1>11. QED
  BY <1>6, <1>7, <1>8, <1>9, <1>10 DEF OnItsWay

\* The client reads a character: the exchange ends with it, or goes on.
LEMMA ReadCharKeeps ==
  ASSUME A!ArduinoAssumption, ArduinoInv, A!ReadChar
  PROVE  ArduinoInv'
<1>1. ArduinoTypes /\ BoardInv /\ OpensFirst /\ ExchangeInv /\ CleanInv /\ A!RightAnswer
  BY DEF ArduinoInv
<1> DEFINE c == up[1]
<1>2. /\ A!Waiting /\ up # <<>> /\ m' = A!processChar(m, Head(up)) /\ up' = Tail(up) /\ waited' = 0
      /\ UNCHANGED <<plug, down, machine, dead, sinceFind, question, lost, plugs, clean>>
      /\ IF A!HasValue(m') THEN A!Ended(m'.data, FALSE)
         ELSE UNCHANGED <<got, at, port, m_arduino_temp, m_serial>>
  BY Zenon DEF A!ReadChar
<1>3. m \in [s : ParserState, data : Seq(ArduinoChar)] /\ up \in Seq(ArduinoChar) /\ c \in ArduinoChar
  BY <1>1, <1>2 DEF ArduinoTypes
<1>4. /\ Head(up) = c /\ up' \in Seq(ArduinoChar) /\ Len(up') = Len(up) - 1 /\ Len(up) \in Nat
      /\ \A i \in 1 .. (Len(up) - 1) : up'[i] = up[i + 1]
  BY <1>2, <1>3, HeadTailProperties
<1>5. m' = A!processChar(m, c)
  BY <1>2, <1>4
<1> HIDE DEF c
<1>6. /\ m' \in [s : ParserState, data : Seq(ArduinoChar)]
      /\ m.s = "BeginToken1" => m' = IF c = A!BeginToken THEN Parser("BeginToken2", m.data) ELSE m
      /\ m.s = "BeginToken2" =>
           m' = IF c = A!BeginToken THEN Parser("EndToken1", m.data) ELSE A!NewParser
      /\ m.s = "EndToken1" =>
           /\ c = A!EndToken => m' = Parser("EndToken2", m.data)
           /\ c # A!EndToken => m' \in {Parser("EndToken1", Append(m.data, c)), A!NewParser}
      /\ m.s = "EndToken2" => m' = IF c = A!EndToken THEN Value(m.data) ELSE A!NewParser
  BY <1>3, <1>5, CharTaken
<1>7. m.s \in {"BeginToken1", "BeginToken2", "EndToken1", "EndToken2"}
  BY <1>1, <1>2, <1>3 DEF ExchangeInv, ParserState
<1>8. machine = A!NewParser
  BY <1>1, <1>2 DEF ExchangeInv, ArduinoTypes, A!HasValue, Value
<1>9. NothingOpens(up) => NothingOpens(up)'
  BY <1>4 DEF NothingOpens
<1>10. OpensFirst'
  <2>1. ASSUME NEW i \in DOMAIN up', up'[i] = A!BeginToken
        PROVE  /\ i \in {1, 2} /\ m'.s \in {"BeginToken1", "BeginToken2"}
               /\ m'.s = "BeginToken2" => i = 1
    <3>1. i \in 1 .. (Len(up) - 1) /\ i + 1 \in DOMAIN up /\ up[i + 1] = A!BeginToken
      BY <1>3, <1>4, <2>1
    <3>2. i = 1 /\ m.s = "BeginToken1"
      BY <1>1, <3>1 DEF OpensFirst
    <3>3. m' = Parser("BeginToken2", m.data) \/ m' = m
      BY <1>6, <3>2
    <3>4. QED
      BY <3>2, <3>3 DEF Parser
  <2>2. QED
    BY <2>1 DEF OpensFirst
<1>11. ASSUME down # <<>>
       PROVE  m' = A!NewParser /\ NothingOpens(up)' /\ A!AtBoard /\ Asked(question)
  <2>1. m = A!NewParser /\ NothingOpens(up) /\ A!AtBoard /\ Asked(question)
    BY <1>1, <1>11 DEF ExchangeInv
  <2>2. c # A!BeginToken
    BY <1>2, <1>3, <2>1 DEF NothingOpens, c
  <2>3. QED
    BY <1>6, <1>9, <2>1, <2>2, ParsersDiffer
<1>12. CASE A!HasValue(m')
  <2>1. m.s = "EndToken2" /\ c = A!EndToken /\ m' = Value(m.data) /\ m'.data = m.data
    <3>1. m'.s = "ValueFound"
      BY <1>12 DEF A!HasValue
    <3>2. QED
      BY <1>6, <1>7, <3>1, ParsersDiffer DEF Parser
  <2>2. down = <<>>
    BY <1>11, <1>12, ParsersDiffer
  <2>3. NothingOpens(up)'
    BY <1>1, <1>9, <2>1 DEF OpensFirst, NothingOpens
  <2>4. ASSUME clean, A!AtBoard
        PROVE  \/ question = "?" /\ m.data = <<"A">>
               \/ question = "T" /\ m.data \in {A!NoValue, <<>>, <<"f", "f">>}
    <3>1. OnItsWay(question)
      <4>1. Question(question) # <<>>
        BY QuestionPut
      <4>2. QED
        BY <1>1, <1>2, <1>8, <2>2, <2>4, <4>1, ParsersDiffer DEF CleanInv
    <3>2. QED
      BY <2>1, <3>1, ParsersDiffer DEF OnItsWay
  <2>5. A!Ended(m.data, FALSE)
    BY <1>2, <1>12, <2>1
  <2>6. waited' \in Nat
    BY <1>2
  <2>7. QED
    BY <1>2, <1>4, <1>6, <1>8, <2>2, <2>3, <2>4, <2>5, <2>6, EndedKeeps
<1>13. CASE ~A!HasValue(m')
  <2>1. UNCHANGED <<got, at, port, m_arduino_temp, m_serial>>
    BY <1>2, <1>13
  <2>2. ArduinoTypes'
    <3>1. waited' \in Nat
      BY <1>2
    <3>2. QED
      BY <1>1, <1>2, <1>4, <1>6, <2>1, <3>1 DEF ArduinoTypes
  <2>3. BoardInv'
    BY <1>1, <1>2, <2>1 DEF BoardInv
  <2>4. (A!AtBoard' <=> A!AtBoard) /\ (A!Waiting' <=> A!Waiting) /\ ~A!HasValue(machine)'
    BY <1>2, <1>8, <2>1, ParsersDiffer DEF A!AtBoard, A!Waiting, A!HasValue
  <2>5. ExchangeInv'
    <3>1. m'.s # "ValueFound"
      BY <1>13 DEF A!HasValue
    <3>2. m_serial' # 0 /\ question' = IF at' = "identify" THEN "?" ELSE "T"
      BY <1>1, <1>2, <2>1 DEF ExchangeInv
    <3>3. at' # "found"
      BY <1>2, <2>4 DEF A!Waiting
    <3>4. Asked(question) /\ down # <<>> => Asked(question)'
      BY <1>2 DEF Asked
    <3>5. QED
      BY <1>2, <1>8, <1>11, <2>4, <3>1, <3>2, <3>3, <3>4 DEF ExchangeInv
  <2>6. CleanInv'
    <3>1. SUFFICES ASSUME clean, A!AtBoard, down # Question(question)
                   PROVE  down = <<>> /\ OnItsWay(question)'
      BY <1>2, <1>8, <2>4 DEF CleanInv
    <3>2. down = <<>> /\ OnItsWay(question)
      BY <1>1, <1>2, <1>8, <3>1, ParsersDiffer DEF CleanInv
    <3>3. question \in {"?", "T"}
      BY <1>1, <1>2 DEF ExchangeInv
    <3>4. QED
      BY <1>1, <1>2, <1>13, <3>2, <3>3, OneCharOn
  <2>7. A!RightAnswer'
    BY <1>1, <2>1, AnswerKept
  <2>8. QED
    BY <1>10, <2>2, <2>3, <2>5, <2>6, <2>7 DEF ArduinoInv
<1>14. QED
  BY <1>12, <1>13

\* Nothing came: the client waits for the next loop, or gives up.
LEMMA NoAnswerKeeps ==
  ASSUME A!ArduinoAssumption, ArduinoInv, A!NoAnswer
  PROVE  ArduinoInv'
<1>1. ArduinoTypes /\ BoardInv /\ ExchangeInv /\ CleanInv
  BY DEF ArduinoInv
<1>2. /\ A!Waiting /\ up = <<>>
      /\ UNCHANGED <<plug, down, up, machine, m, dead, sinceFind, question, waited, lost, plugs, clean>>
  BY DEF A!NoAnswer, A!lineVars
<1>3. PICK closed \in BOOLEAN :
        /\ A!Ended(A!NoValue, closed)
        /\ ~closed => waited = Timeout
        /\ closed => dead \/ m_serial = 0
  BY DEF A!NoAnswer
<1>4. down = <<>> /\ ~A!HasValue(machine)
  <2>1. CASE closed
    BY <1>1, <1>3, <2>1 DEF ExchangeInv, A!AtBoard
  <2>2. CASE ~closed
    BY <1>1, <1>3, <2>2 DEF ExchangeInv, A!ArduinoAssumption
  <2>3. QED
    BY <2>1, <2>2
<1>5. machine = A!NewParser
  BY <1>1, <1>4 DEF ArduinoTypes, A!HasValue, Value
<1>6. ASSUME clean, A!AtBoard
      PROVE  question = "T"
  <2>1. OnItsWay(question)
    <3>1. Question(question) # <<>>
      BY QuestionPut
    <3>2. QED
      BY <1>1, <1>2, <1>4, <1>5, <1>6, <3>1, ParsersDiffer DEF CleanInv
  <2>2. Len(up) = 0
    BY <1>2
  <2>3. question \in {"?", "T"}
    BY <1>1, <1>2 DEF ExchangeInv
  <2>4. QED
    BY <2>1, <2>2, <2>3 DEF OnItsWay, Rest
<1>7. /\ up' \in Seq(ArduinoChar) /\ NothingOpens(up)' /\ waited' \in Nat
      /\ m' \in [s : ParserState, data : Seq(ArduinoChar)]
  BY <1>1, <1>2 DEF ArduinoTypes, NothingOpens
<1>8. QED
  BY <1>2, <1>3, <1>4, <1>5, <1>6, <1>7, EndedKeeps

\* Where the board is, and that it did not move.
LEMMA BoardStays ==
  ASSUME UNCHANGED <<plug, m_serial, dead, at>>
  PROVE  /\ A!AtBoard' <=> A!AtBoard
         /\ A!Waiting' <=> A!Waiting
         /\ BoardInv => BoardInv'
BY DEF A!AtBoard, A!Waiting, BoardInv

\* A line that is where it was, with the board where it was.
LEMMA RestUnchanged ==
  ASSUME ArduinoTypes', BoardInv', A!AtBoard' <=> A!AtBoard,
         OpensFirst, ExchangeInv, CleanInv, A!RightAnswer,
         UNCHANGED <<down, up, machine, m, m_serial, at, question, waited, clean, got, lost>>
  PROVE  ArduinoInv'
<1>1. A!Waiting' <=> A!Waiting
  BY DEF A!Waiting
<1>2. OpensFirst' /\ (NothingOpens(up) => NothingOpens(up)')
  BY DEF OpensFirst, NothingOpens
<1>3. Asked(question) => Asked(question)'
  BY DEF Asked
<1>4. A!HasValue(machine)' <=> A!HasValue(machine)
  BY DEF A!HasValue
<1>5. ExchangeInv'
  BY <1>1, <1>2, <1>3, <1>4 DEF ExchangeInv
<1>6. OnItsWay(question) => OnItsWay(question)'
  BY DEF OnItsWay, Rest, NothingOpens
<1>7. CleanInv'
  BY <1>1, <1>6 DEF CleanInv
<1>8. QED
  BY <1>2, <1>5, <1>7, AnswerKept DEF ArduinoInv

\* A loop of the sketch: the board reads what came, or answers it.
LEMMA TickTempKeeps ==
  ASSUME A!ArduinoAssumption, ArduinoInv, A!Tick
  PROVE  ArduinoInv'
<1>1. ArduinoTypes /\ BoardInv /\ OpensFirst /\ ExchangeInv /\ CleanInv /\ A!RightAnswer
  BY DEF ArduinoInv
<1>2. /\ up = <<>> \/ ~A!Waiting
      /\ A!Waiting \/ down # <<>> \/ A!HasValue(machine)
      /\ waited' = IF A!Waiting THEN waited + 1 ELSE waited
      /\ UNCHANGED <<plug, m, m_arduino_temp, m_serial, dead, sinceFind, at, question, port, lost,
                     plugs, clean, got>>
  BY DEF A!Tick
<1>3. A!Waiting /\ up = <<>> /\ waited' = waited + 1 /\ waited \in Nat
  BY <1>1, <1>2, ParsersDiffer DEF ExchangeInv, ArduinoTypes
<1>4. /\ A!AtBoard' <=> A!AtBoard
      /\ A!Waiting' /\ at' # "found" /\ BoardInv'
  BY <1>1, <1>2, <1>3, BoardStays DEF A!Waiting
<1>5. A!RightAnswer'
  BY <1>1, <1>2, AnswerKept
<1>6. m'.s # "ValueFound" /\ m_serial' # 0 /\ question' = IF at' = "identify" THEN "?" ELSE "T"
  BY <1>1, <1>2, <1>3 DEF ExchangeInv
<1>7. question \in {"?", "T"} /\ m_serial \in 1 .. Ports
  BY <1>1, <1>2, <1>6 DEF ArduinoTypes, A!ArduinoAssumption
<1>8. ASSUME up' \in Seq(ArduinoChar),
             machine' \in {A!NewParser} \cup {Value(d) : d \in {<<>>, <<"?">>, <<"T">>}}
      PROVE  ArduinoTypes'
  BY <1>1, <1>2, <1>3, <1>8 DEF ArduinoTypes
<1>9. CASE ~A!AtBoard
  <2>1. down = <<>> /\ machine = A!NewParser
    BY <1>1, <1>9 DEF ExchangeInv, ArduinoTypes, A!HasValue, Value
  <2>2. down' = <<>> /\ machine' = A!NewParser /\ up' = <<>>
    <3>1. CASE \E p \in 1 .. Ports : plug[p] = "arduino"
      <4>1. PICK answer \in {<<>>} \cup A!Answers(machine.data) :
              A!Loop(down, answer) /\ up' = (IF A!AtBoard THEN up \o answer ELSE up) /\ down' = <<>>
        BY <3>1 DEF A!Tick
      <4>2. machine' = Folded(A!NewParser, <<>>)
        BY <2>1, <4>1, ParsersDiffer, Zenon DEF A!Loop, Folded
      <4>3. QED
        BY <1>3, <1>9, <4>1, <4>2, NothingFed
    <3>2. CASE ~\E p \in 1 .. Ports : plug[p] = "arduino"
      BY <1>3, <2>1, <3>2 DEF A!Tick, A!lineVars
    <3>3. QED
      BY <3>1, <3>2
  <2>3. ArduinoTypes' /\ OpensFirst'
    BY <1>8, <2>2 DEF OpensFirst
  <2>4. ExchangeInv'
    BY <1>4, <1>6, <2>2, ParsersDiffer DEF ExchangeInv, A!HasValue
  <2>5. CleanInv'
    BY <1>4, <1>9 DEF CleanInv
  <2>6. QED
    BY <1>4, <1>5, <2>3, <2>4, <2>5 DEF ArduinoInv
<1>10. CASE A!AtBoard
  <2>1. PICK answer \in {<<>>} \cup A!Answers(machine.data) :
          A!Loop(down, answer) /\ up' = up \o answer /\ down' = <<>>
    <3>1. \E p \in 1 .. Ports : plug[p] = "arduino"
      BY <1>7, <1>10 DEF A!AtBoard
    <3>2. QED
      BY <1>10, <3>1 DEF A!Tick
  <2>2. CASE A!HasValue(machine)
    <3>1. /\ down = <<>> /\ m = A!NewParser /\ machine.data \in {<<>>, <<question>>}
      BY <1>1, <2>2 DEF ExchangeInv
    <3>2. answer \in A!Answers(machine.data) /\ machine' = Folded(A!NewParser, <<>>)
      BY <2>1, <2>2, <3>1, Zenon DEF A!Loop, Folded
    <3>3. machine.data \in {<<>>, <<"?">>, <<"T">>}
      BY <1>7, <3>1
    <3>4. /\ answer \in Seq(ArduinoChar)
          /\ \A i \in DOMAIN answer : answer[i] = A!BeginToken => i \in {1, 2}
          /\ \A q \in {"?", "T"} : machine.data = <<q>> => AnswerTo(q, answer)
      BY <3>2, <3>3, AnswerIs
    <3>5. machine' = A!NewParser /\ up' = answer
      BY <1>3, <2>1, <3>2, <3>4, NothingFed, ConcatEmptySeq
    <3>6. m' = A!NewParser /\ m'.s = "BeginToken1"
      BY <1>2, <3>1, ParsersDiffer
    <3>7. ArduinoTypes' /\ OpensFirst'
      BY <1>8, <3>4, <3>5, <3>6 DEF OpensFirst
    <3>8. ExchangeInv'
      BY <1>4, <1>6, <2>1, <3>5, ParsersDiffer DEF ExchangeInv, A!HasValue
    <3>9. CleanInv'
      <4>1. SUFFICES ASSUME clean PROVE OnItsWay(question)'
        BY <1>2, <2>1, <3>5 DEF CleanInv
      <4>2. machine = Value(<<question>>)
        <5>1. Question(question) # <<>>
          BY QuestionPut
        <5>2. QED
          BY <1>1, <1>3, <1>10, <2>2, <3>1, <4>1, <5>1, ParsersDiffer DEF CleanInv
      <4>3. machine.data = <<question>>
        BY <4>2, ParsersDiffer
      <4>4. AnswerTo(question, answer)
        BY <1>7, <3>4, <4>3
      <4>5. Rest(question, <<>>, 3)'
        BY <1>2, <3>5, <4>4 DEF AnswerTo, Rest
      <4>6. QED
        BY <1>2, <3>5, <3>6, <4>4, <4>5 DEF AnswerTo, OnItsWay
    <3>10. QED
      BY <1>4, <1>5, <3>7, <3>8, <3>9 DEF ArduinoInv
  <2>3. CASE ~A!HasValue(machine)
    <3>1. machine = A!NewParser
      BY <1>1, <2>3 DEF ArduinoTypes, A!HasValue, Value
    <3>2. answer = <<>> /\ machine' = Folded(A!NewParser, down)
      BY <2>1, <2>3, <3>1, Zenon DEF A!Loop, Folded
    <3>3. up' = <<>>
      BY <1>3, <2>1, <3>2
    <3>4. CASE down = <<>>
      <4>1. machine' = A!NewParser
        BY <3>2, <3>4, NothingFed
      <4>2. ArduinoTypes' /\ OpensFirst'
        BY <1>8, <3>3, <4>1 DEF OpensFirst
      <4>3. ExchangeInv'
        BY <1>4, <1>6, <2>1, <4>1, ParsersDiffer DEF ExchangeInv, A!HasValue
      <4>4. CleanInv'
        <5>1. UNCHANGED <<m, up, clean, question, down, machine>>
          BY <1>2, <1>3, <2>1, <3>1, <3>3, <3>4, <4>1
        <5>2. OnItsWay(question) => OnItsWay(question)'
          BY <5>1 DEF OnItsWay, Rest, NothingOpens
        <5>3. QED
          BY <1>1, <1>3, <1>4, <5>1, <5>2 DEF CleanInv
      <4>5. QED
        BY <1>4, <1>5, <4>2, <4>3, <4>4 DEF ArduinoInv
    <3>5. CASE down # <<>>
      <4>1. m = A!NewParser /\ waited = 0 /\ Asked(question)
        BY <1>1, <3>5 DEF ExchangeInv
      <4>2. /\ machine' \in {A!NewParser, Value(<<>>), Value(<<question>>)}
            /\ down = Question(question) => machine' = Value(<<question>>)
        BY <1>7, <3>2, <4>1, QuestionRead
      <4>3. machine' \in {A!NewParser} \cup {Value(d) : d \in {<<>>, <<"?">>, <<"T">>}}
        BY <1>7, <4>2
      <4>4. ArduinoTypes' /\ OpensFirst'
        BY <1>8, <3>3, <4>3 DEF OpensFirst
      <4>5. A!HasValue(machine)' => machine'.data \in {<<>>, <<question'>>}
        BY <1>2, <4>2, ParsersDiffer DEF A!HasValue
      <4>6. waited' <= 1 /\ m' = A!NewParser
        BY <1>2, <1>3, <4>1
      <4>7. ExchangeInv'
        BY <1>4, <1>6, <1>10, <2>1, <3>3, <4>5, <4>6 DEF ExchangeInv
      <4>8. CleanInv'
        <5>1. clean => down = Question(question)
          BY <1>1, <1>3, <1>10, <3>1, <3>5, ParsersDiffer DEF CleanInv
        <5>2. QED
          BY <1>2, <4>2, <5>1 DEF CleanInv
      <4>9. QED
        BY <1>4, <1>5, <4>4, <4>7, <4>8 DEF ArduinoInv
    <3>6. QED
      BY <3>4, <3>5
  <2>4. QED
    BY <2>2, <2>3
<1>11. QED
  BY <1>9, <1>10

\* A character of what waits is lost, which makes the exchange unclean.
LEMMA LoseKeeps ==
  ASSUME A!ArduinoAssumption, MaxLost <= 1, ArduinoInv, A!Lose
  PROVE  ArduinoInv'
<1>1. ArduinoTypes /\ BoardInv /\ OpensFirst /\ ExchangeInv /\ CleanInv /\ A!RightAnswer
  BY DEF ArduinoInv
<1>2. /\ lost < MaxLost /\ lost' = lost + 1 /\ clean' = FALSE
      /\ UNCHANGED <<plug, machine, m, m_arduino_temp, m_serial, dead, sinceFind, at, question,
                     port, waited, plugs, got>>
  BY DEF A!Lose
<1>3. lost = 0 /\ lost' = 1
  BY <1>1, <1>2 DEF ArduinoTypes, A!ArduinoAssumption
<1>4. (A!AtBoard' <=> A!AtBoard) /\ (A!Waiting' <=> A!Waiting) /\ BoardInv'
  BY <1>1, <1>2, BoardStays
<1>5. A!RightAnswer' /\ CleanInv'
  BY <1>1, <1>2, AnswerKept DEF CleanInv
<1>6. up \in Seq(ArduinoChar)
  BY <1>1 DEF ArduinoTypes
<1>7. CASE \E i \in DOMAIN down : down' = A!RemoveAt(down, i) /\ up' = up
  <2>1. PICK i \in DOMAIN down : down' = A!RemoveAt(down, i) /\ up' = up
    BY <1>7
  <2>2. down # <<>>
    BY <2>1
  <2>3. down = Question(question) /\ A!AtBoard /\ machine = A!NewParser /\ m = A!NewParser
        /\ waited = 0 /\ NothingOpens(up) /\ A!Waiting
    BY <1>1, <1>3, <2>2 DEF ExchangeInv, Asked
  <2>4. i \in 1 .. 6
    <3>1. down = <<A!BeginToken, A!BeginToken, question, A!EndToken, A!EndToken, "0">>
      BY <2>3, QuestionIs
    <3>2. DOMAIN down = 1 .. 6
      BY <3>1
    <3>3. QED
      BY <2>1, <3>2
  <2>5. Asked(question)'
    BY <1>2, <1>3, <2>1, <2>3, <2>4 DEF Asked
  <2>6. ArduinoTypes' /\ OpensFirst'
    BY <1>1, <1>2, <1>3, <2>1 DEF ArduinoTypes, OpensFirst
  <2>7. NothingOpens(up)' /\ ~A!HasValue(machine)'
    BY <1>2, <2>1, <2>3, ParsersDiffer DEF NothingOpens, A!HasValue
  <2>8. ExchangeInv'
    BY <1>1, <1>2, <1>4, <2>3, <2>5, <2>7 DEF ExchangeInv
  <2>9. QED
    BY <1>4, <1>5, <2>6, <2>8 DEF ArduinoInv
<1>8. CASE \E i \in DOMAIN up : up' = A!RemoveAt(up, i) /\ down' = down
  <2>1. PICK i \in DOMAIN up : up' = A!RemoveAt(up, i) /\ down' = down
    BY <1>8
  <2>2. i \in 1 .. Len(up) /\ Len(up) \in Nat /\ up # <<>>
    BY <1>6, <2>1
  <2>3. /\ up' \in Seq(ArduinoChar) /\ Len(up') = Len(up) - 1
        /\ \A k \in 1 .. (Len(up) - 1) : up'[k] = IF k < i THEN up[k] ELSE up[k + 1]
    BY <1>6, <2>1, <2>2, RemoveAtIs
  <2>4. ASSUME NEW k \in DOMAIN up', up'[k] = A!BeginToken
        PROVE  \E j \in DOMAIN up : up[j] = A!BeginToken /\ (j = k \/ j = k + 1)
    <3>1. k \in 1 .. (Len(up) - 1) /\ k \in DOMAIN up /\ k + 1 \in DOMAIN up
      BY <1>6, <2>2, <2>3
    <3>2. QED
      BY <2>3, <2>4, <3>1
  <2>5. NothingOpens(up) => NothingOpens(up)'
    BY <2>4 DEF NothingOpens
  <2>6. OpensFirst'
    <3>1. ASSUME NEW k \in DOMAIN up', up'[k] = A!BeginToken
          PROVE  /\ k \in {1, 2} /\ m.s \in {"BeginToken1", "BeginToken2"}
                 /\ m.s = "BeginToken2" => k = 1
      <4>1. PICK j \in DOMAIN up : up[j] = A!BeginToken /\ (j = k \/ j = k + 1)
        BY <2>4, <3>1
      <4>2. k \in Nat /\ k >= 1
        BY <2>2, <2>3
      <4>3. /\ j \in {1, 2} /\ m.s \in {"BeginToken1", "BeginToken2"}
            /\ m.s = "BeginToken2" => j = 1
        BY <1>1, <4>1 DEF OpensFirst
      <4>4. QED
        BY <4>1, <4>2, <4>3
    <3>2. QED
      BY <1>2, <3>1 DEF OpensFirst
  <2>7. ArduinoTypes'
    BY <1>1, <1>2, <1>3, <2>3 DEF ArduinoTypes
  <2>8. ~A!HasValue(machine)'
    BY <1>1, <1>2, <2>2 DEF ExchangeInv, A!HasValue
  <2>9. Asked(question) => Asked(question)'
    BY <1>2, <1>3, <2>1 DEF Asked
  <2>10. ExchangeInv'
    BY <1>1, <1>2, <1>4, <2>1, <2>5, <2>8, <2>9 DEF ExchangeInv
  <2>11. QED
    BY <1>4, <1>5, <2>6, <2>7, <2>10 DEF ArduinoInv
<1>9. QED
  BY <1>7, <1>8 DEF A!Lose

\* Something is plugged, or taken off, at the port of the exchange or another.
LEMMA PlugKeeps ==
  ASSUME A!ArduinoAssumption, ArduinoInv,
         NEW p \in 1 .. Ports, NEW thing \in A!Thing \ {"none"}, A!Plug(p, thing)
  PROVE  ArduinoInv'
<1>1. ArduinoTypes /\ BoardInv /\ OpensFirst /\ ExchangeInv /\ CleanInv /\ A!RightAnswer
  BY DEF ArduinoInv
<1>2. /\ plug[p] = "none" /\ plug' = [plug EXCEPT ![p] = thing]
      /\ thing = "arduino" => \A q \in 1 .. Ports : plug[q] # "arduino"
      /\ UNCHANGED <<down, up, machine, m, m_arduino_temp, m_serial, dead, sinceFind, at, question,
                     port, waited, clean, got, lost>>
  BY DEF A!Plug, A!lineVars, A!hostVars
<1>3. plug \in [1 .. Ports -> A!Thing] /\ m_serial \in 0 .. Ports /\ dead \in BOOLEAN
  BY <1>1 DEF ArduinoTypes
<1>4. \A q \in 1 .. Ports : plug'[q] = IF q = p THEN thing ELSE plug[q]
  BY <1>2, <1>3
<1>5. ArduinoTypes'
  <2>1. plug' \in [1 .. Ports -> A!Thing]
    BY <1>2, <1>3
  <2>2. QED
    BY <1>1, <1>2, <2>1 DEF ArduinoTypes
<1>6. BoardInv'
  <2>1. \A q, r \in 1 .. Ports : plug'[q] = "arduino" /\ plug'[r] = "arduino" => q = r
    BY <1>1, <1>2, <1>4 DEF BoardInv
  <2>2. m_serial' # 0 /\ ~dead' => plug'[m_serial'] # "none"
    <3>1. SUFFICES ASSUME m_serial # 0, ~dead PROVE plug'[m_serial] # "none"
      BY <1>2
    <3>2. m_serial \in 1 .. Ports /\ plug[m_serial] # "none"
      BY <1>1, <1>3, <3>1 DEF BoardInv, A!ArduinoAssumption
    <3>3. QED
      BY <1>2, <1>4, <3>2
  <2>3. QED
    BY <2>1, <2>2 DEF BoardInv
<1>7. A!AtBoard' <=> A!AtBoard
  <2>1. CASE m_serial # 0 /\ ~dead
    <3>1. m_serial \in 1 .. Ports /\ plug[m_serial] # "none"
      BY <1>1, <1>3, <2>1 DEF BoardInv, A!ArduinoAssumption
    <3>2. plug'[m_serial] = plug[m_serial]
      BY <1>2, <1>4, <3>1
    <3>3. QED
      BY <1>2, <3>2 DEF A!AtBoard
  <2>2. CASE ~(m_serial # 0 /\ ~dead)
    BY <1>2, <2>2 DEF A!AtBoard
  <2>3. QED
    BY <2>1, <2>2
<1>8. QED
  BY <1>1, <1>2, <1>5, <1>6, <1>7, RestUnchanged DEF ArduinoInv

LEMMA UnplugKeeps ==
  ASSUME A!ArduinoAssumption, ArduinoInv, NEW p \in 1 .. Ports, A!Unplug(p)
  PROVE  ArduinoInv'
<1>1. ArduinoTypes /\ BoardInv /\ OpensFirst /\ ExchangeInv /\ CleanInv /\ A!RightAnswer
  BY DEF ArduinoInv
<1>2. /\ plug[p] # "none" /\ plug' = [plug EXCEPT ![p] = "none"]
      /\ dead' = (dead \/ m_serial = p)
      /\ up' = IF m_serial = p THEN <<>> ELSE up
      /\ UNCHANGED <<m, m_arduino_temp, m_serial, sinceFind, at, question, port, waited, lost,
                     clean, got>>
  BY DEF A!Unplug
<1>3. /\ plug[p] = "arduino" => down' = <<>> /\ machine' = A!NewParser
      /\ plug[p] # "arduino" => UNCHANGED <<down, machine>>
  BY DEF A!Unplug
<1>4. /\ plug \in [1 .. Ports -> A!Thing] /\ m_serial \in 0 .. Ports /\ dead \in BOOLEAN
      /\ up \in Seq(ArduinoChar)
  BY <1>1 DEF ArduinoTypes
<1>5. \A q \in 1 .. Ports : plug'[q] = IF q = p THEN "none" ELSE plug[q]
  BY <1>2, <1>4
<1>6. ArduinoTypes'
  <2>1. plug' \in [1 .. Ports -> A!Thing] /\ dead' \in BOOLEAN /\ up' \in Seq(ArduinoChar)
    BY <1>2, <1>4 DEF A!Thing
  <2>2. machine' \in {A!NewParser, machine}
    BY <1>3
  <2>3. QED
    BY <1>1, <1>2, <2>1, <2>2 DEF ArduinoTypes
<1>7. BoardInv'
  <2>1. \A q, r \in 1 .. Ports : plug'[q] = "arduino" /\ plug'[r] = "arduino" => q = r
    BY <1>1, <1>5 DEF BoardInv
  <2>2. m_serial' # 0 /\ ~dead' => plug'[m_serial'] # "none"
    <3>1. SUFFICES ASSUME m_serial # 0, ~dead, m_serial # p PROVE plug'[m_serial] # "none"
      BY <1>2, <1>4
    <3>2. m_serial \in 1 .. Ports /\ plug[m_serial] # "none"
      BY <1>1, <1>4, <3>1 DEF BoardInv, A!ArduinoAssumption
    <3>3. QED
      BY <1>5, <3>1, <3>2
  <2>3. QED
    BY <2>1, <2>2 DEF BoardInv
<1>8. A!RightAnswer'
  BY <1>1, <1>2, AnswerKept
<1>9. CASE A!AtBoard /\ m_serial # p
  <2>1. m_serial \in 1 .. Ports /\ m_serial # 0 /\ plug[m_serial] = "arduino" /\ ~dead
    BY <1>4, <1>9 DEF A!AtBoard, A!ArduinoAssumption
  <2>2. plug[p] # "arduino"
    BY <1>1, <1>9, <2>1 DEF BoardInv
  <2>3. UNCHANGED <<down, machine, up>>
    BY <1>2, <1>3, <1>9, <2>2
  <2>4. A!AtBoard'
    BY <1>2, <1>5, <1>9, <2>1 DEF A!AtBoard
  <2>5. QED
    BY <1>1, <1>2, <1>6, <1>7, <1>9, <2>3, <2>4, RestUnchanged DEF ArduinoInv
<1>10. CASE ~(A!AtBoard /\ m_serial # p)
  <2>1. ~A!AtBoard'
    <3>1. SUFFICES ASSUME m_serial # 0, ~dead, m_serial # p, plug'[m_serial] = "arduino"
                   PROVE FALSE
      BY <1>2, <1>4 DEF A!AtBoard
    <3>2. m_serial \in 1 .. Ports
      BY <1>4, <3>1 DEF A!ArduinoAssumption
    <3>3. QED
      BY <1>5, <1>10, <3>1, <3>2 DEF A!AtBoard
  <2>2. down' = <<>> /\ machine' = A!NewParser
    <3>1. CASE plug[p] = "arduino"
      BY <1>3, <3>1
    <3>2. CASE plug[p] # "arduino"
      <4>1. ~A!AtBoard
        BY <1>10, <3>2 DEF A!AtBoard
      <4>2. down = <<>> /\ machine = A!NewParser
        BY <1>1, <4>1 DEF ExchangeInv, ArduinoTypes, A!HasValue, Value
      <4>3. QED
        BY <1>3, <3>2, <4>2
    <3>3. QED
      BY <3>1, <3>2
  <2>3. OpensFirst' /\ (NothingOpens(up) => NothingOpens(up)')
    BY <1>1, <1>2 DEF OpensFirst, NothingOpens
  <2>4. A!Waiting' <=> A!Waiting
    BY <1>2 DEF A!Waiting
  <2>5. ExchangeInv'
    BY <1>1, <1>2, <2>2, <2>3, <2>4, ParsersDiffer DEF ExchangeInv, A!HasValue
  <2>6. CleanInv'
    BY <2>1 DEF CleanInv
  <2>7. QED
    BY <1>6, <1>7, <1>8, <2>3, <2>5, <2>6 DEF ArduinoInv
<1>11. QED
  BY <1>9, <1>10

\* The invariant holds at the start, ...
LEMMA ArduinoInit == A!ArduinoAssumption /\ A!Init => ArduinoInv
<1> SUFFICES ASSUME A!ArduinoAssumption, A!Init PROVE ArduinoInv
  OBVIOUS
<1>1. /\ plug \in [1 .. Ports -> A!Thing]
      /\ \A p, q \in 1 .. Ports : plug[p] = "arduino" /\ plug[q] = "arduino" => p = q
  BY DEF A!Init
<1>2. /\ down = <<>> /\ up = <<>> /\ machine = A!NewParser /\ m = A!NewParser
      /\ m_arduino_temp = FALSE /\ m_serial = 0 /\ dead = FALSE /\ sinceFind = FindPeriod
      /\ at = "idle" /\ port = 1 /\ waited = 0 /\ lost = 0 /\ clean = TRUE /\ ~got.clean
  BY DEF A!Init
<1>3. m \in [s : ParserState, data : Seq(ArduinoChar)]
  BY <1>2 DEF A!NewParser, ParserState
<1>4. ArduinoTypes
  <2>1. Ports \in Nat /\ FindPeriod \in Nat
    BY DEF A!ArduinoAssumption
  <2>2. up \in Seq(ArduinoChar)
    BY <1>2
  <2>3. machine \in {A!NewParser} \cup {Value(d) : d \in {<<>>, <<"?">>, <<"T">>}}
    BY <1>2
  <2>4. m_serial \in 0 .. Ports /\ port \in Nat \ {0} /\ sinceFind \in Nat
        /\ waited \in Nat /\ lost \in {0, 1}
    BY <1>2, <2>1
  <2>5. /\ clean \in BOOLEAN /\ dead \in BOOLEAN /\ m_arduino_temp \in BOOLEAN
        /\ at \in {"idle", "search", "identify", "found", "ask", "undefined"}
    BY <1>2, Zenon
  <2>6. QED
    BY <1>1, <1>3, <2>2, <2>3, <2>4, <2>5, Zenon DEF ArduinoTypes
<1>5. BoardInv /\ OpensFirst /\ ~A!Waiting
  BY <1>1, <1>2 DEF BoardInv, OpensFirst, A!Waiting
<1>6. ExchangeInv /\ CleanInv
  BY <1>2, <1>5, ParsersDiffer DEF ExchangeInv, CleanInv, NothingOpens
<1>7. A!RightAnswer
  BY <1>2 DEF A!RightAnswer
<1>8. QED
  BY <1>4, <1>5, <1>6, <1>7 DEF ArduinoInv

\* ... and every step keeps it.
LEMMA ArduinoStep ==
  A!ArduinoAssumption /\ MaxLost <= 1 /\ ArduinoInv /\ [A!Next]_(A!vars) => ArduinoInv'
<1> SUFFICES ASSUME A!ArduinoAssumption, MaxLost <= 1, ArduinoInv, [A!Next]_(A!vars)
             PROVE ArduinoInv'
  OBVIOUS
<1>1. CASE A!Host
  BY <1>1, UpdateTempKeeps, OpenKeeps, FoundKeeps, ReadCharKeeps, NoAnswerKeeps DEF A!Host
<1>2. CASE A!Tick
  BY <1>2, TickTempKeeps
<1>3. CASE A!Environment
  BY <1>3, LoseKeeps, PlugKeeps, UnplugKeeps DEF A!Environment
<1>4. CASE UNCHANGED A!vars
  <2>1. UNCHANGED <<plug, down, up, machine, m, m_arduino_temp, m_serial, dead, sinceFind, at,
                    question, port, waited, clean, got, lost>>
    BY <1>4 DEF A!vars, A!lineVars, A!hostVars
  <2>2. ArduinoTypes /\ BoardInv /\ OpensFirst /\ ExchangeInv /\ CleanInv /\ A!RightAnswer
    BY DEF ArduinoInv
  <2>3. ArduinoTypes' /\ BoardInv' /\ (A!AtBoard' <=> A!AtBoard)
    BY <2>1, <2>2, BoardStays DEF ArduinoTypes
  <2>4. QED
    BY <2>1, <2>2, <2>3, RestUnchanged
<1>5. QED
  BY <1>1, <1>2, <1>3, <1>4 DEF A!Next

\* A question is answered by the answer to it (ArduinoTemp.cpp and the sketch), however
\* many ports there are, whatever is plugged and unplugged and when, with one character
\* lost at most in what went before: for two, the model has a counterexample.
THEOREM AnswersRight == ASSUME MaxLost <= 1 PROVE A!Spec => []RightAnswer
<1>1. ArduinoInv => RightAnswer
  BY DEF ArduinoInv, RightAnswer
<1>2. A!ArduinoAssumption /\ MaxLost <= 1
  BY DevicesAssumption
<1>3. A!Init => ArduinoInv
  BY <1>2, ArduinoInit
<1>4. ArduinoInv /\ [A!Next]_(A!vars) => ArduinoInv'
  BY <1>2, ArduinoStep
<1>5. QED
  BY <1>1, <1>3, <1>4, PTL DEF A!Spec
============================================================================
