----------------------------- MODULE MCDevices -----------------------------
(***************************************************************************)
(* The devices that come and go, one kind in each behaviour: the Watts Up? *)
(* meter, the Arduino thermometer (the client on Windows) and the USB      *)
(* thermometers (the client on Unix); or the line of a meter, of which     *)
(* packets are read.  The others' state stands still.                      *)
(***************************************************************************)
EXTENDS Wattsup

CONSTANTS Ports, Timeout, FindPeriod, MaxSize, MaxLost, MaxPlugs,
          USBDevice, PrintInterval, UpdatePeriod, N, Room

VARIABLES
  part,
  plug, down, up, machine, m, m_arduino_temp, m_serial, dead, sinceFind,
  at, question, port, waited, lost, plugs, clean, got,
  plugged, claimed, m_temper, sincePrint, sinceUpdate, undefined, missed,
  sent, received, buf, buf_pos0, buf_pos1, packets

A == INSTANCE ArduinoTemp WITH pc <- at
T == INSTANCE TEMPer WITH Device <- USBDevice, broken <- undefined
R == INSTANCE PacketReader WITH line <- sent

ASSUME DevicesAssumption ==
  A!ArduinoAssumption /\ T!TEMPerAssumption /\ R!ReaderAssumption

\* Two thermometers at one bus, one at another.
MCUSBDevices == {<<1, 1>>, <<1, 2>>, <<2, 1>>}

meterVars == vars
arduinoVars ==
  <<plug, down, up, machine, m, m_arduino_temp, m_serial, dead, sinceFind,
    at, question, port, waited, lost, plugs, clean, got>>
temperVars == <<plugged, claimed, m_temper, sincePrint, sinceUpdate, undefined, missed>>
lineVars == <<sent, received, buf, buf_pos0, buf_pos1, packets>>
allVars == <<part, meterVars, arduinoVars, temperVars, lineVars>>

NoWattsup ==
  /\ windows = FALSE /\ device = [p \in Port |-> NoDevice] /\ changes = 0
  /\ m_wattsup = NULL /\ points = FALSE /\ notWatts = FALSE
  /\ pc = "idle" /\ lag = 1 /\ searched = 0 /\ broken = FALSE
NoArduino ==
  /\ plug = [p \in 1 .. Ports |-> "none"] /\ down = <<>> /\ up = <<>> /\ machine = <<>> /\ m = <<>>
  /\ m_arduino_temp = FALSE /\ m_serial = 0 /\ dead = FALSE /\ sinceFind = 0
  /\ at = "none" /\ question = "none" /\ port = 1 /\ waited = 0
  /\ lost = 0 /\ plugs = 0 /\ clean = FALSE /\ got = <<>>
NoTEMPer ==
  /\ plugged = {} /\ claimed = {} /\ m_temper = T!Null /\ sincePrint = 0 /\ sinceUpdate = 0
  /\ undefined = FALSE /\ missed = FALSE
NoPackets ==
  /\ sent = [p \in R!Place |-> "other"] /\ received = N /\ packets = <<>>
  /\ buf = <<>> /\ buf_pos0 = 0 /\ buf_pos1 = 0

AllInit ==
  \/ part = "meter" /\ Init /\ NoArduino /\ NoTEMPer /\ NoPackets
  \/ part = "arduino" /\ NoWattsup /\ A!Init /\ NoTEMPer /\ NoPackets
  \/ part = "temper" /\ NoWattsup /\ NoArduino /\ T!Init /\ NoPackets
  \/ part = "line" /\ NoWattsup /\ NoArduino /\ NoTEMPer /\ R!Init

Meter(Step) ==
  part = "meter" /\ Step /\ UNCHANGED <<part, arduinoVars, temperVars, lineVars>>
Arduino(Step) ==
  part = "arduino" /\ Step /\ UNCHANGED <<part, meterVars, temperVars, lineVars>>
Temper == part = "temper" /\ T!Next /\ UNCHANGED <<part, meterVars, arduinoVars, lineVars>>
ReadPackets ==
  part = "line" /\ R!Next /\ UNCHANGED <<part, meterVars, arduinoVars, temperVars>>

AllNext == Meter(Next) \/ Arduino(A!Next) \/ Temper \/ ReadPackets

\* See the modules for why each of them goes on.
AllSpec ==
  /\ AllInit /\ [][AllNext]_allVars
  /\ WF_allVars(Meter(Work)) /\ WF_allVars(Meter(Tick))
  /\ SF_allVars(Meter(PrintDatapoints))
  /\ WF_allVars(Arduino(A!Host)) /\ WF_allVars(Arduino(A!Tick))
  /\ WF_allVars(ReadPackets)

\* See the modules.
RightAnswer == part = "arduino" => A!RightAnswer
FoundAgain == A!FoundAgain
NoReadingMissed == T!NoReadingMissed
PositionsInBuffer == R!TypeOK
Framed == R!Framed
Delivered == R!Delivered
=============================================================================
