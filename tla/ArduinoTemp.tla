---------------------------- MODULE ArduinoTemp ----------------------------
(***************************************************************************)
(* A thermometer made of an Arduino board: the manager of the client on    *)
(* Windows (ArduinoTemp.cpp), which looks for the board at the serial      *)
(* ports, the sketch that runs on it (ArduinoTemp.ino), and the line       *)
(* between them, on which a character may get lost.                        *)
(*                                                                         *)
(* A question is one character between {{ and }}, with a '\0' behind it;   *)
(* an answer is 'A', or the bytes of a temperature, between {{ and }}.     *)
(* Time passes in the loops of the sketch (100 ms); the five seconds       *)
(* between two updates are enough for it to come to rest.                  *)
(***************************************************************************)
EXTENDS Integers, Sequences, SequencesExt

CONSTANTS
  Ports,       \* ports are numbered from 1, in the order they are searched
  Timeout,     \* loops of the sketch in the 2 s after which a read gives up
  FindPeriod,  \* updates between two searches, 13 in the code
  MaxSize,     \* of a packet's data, 256 in the code
  MaxLost, MaxPlugs  \* bounds

\* There are 20 loops; with none or one, the client asks again while the board has the
\* last question still.
ArduinoAssumption ==
  /\ Ports \in Nat /\ FindPeriod \in Nat /\ MaxLost \in Nat /\ MaxPlugs \in Nat
  /\ Timeout \in Nat /\ Timeout >= 2
  /\ MaxSize \in Nat /\ MaxSize >= 1

VARIABLES
  plug,      \* what is at each port
  down, up,  \* the line, from the client and to it
  machine,   \* the parser of the sketch
  m,         \* the parser of readAnswer
  m_arduino_temp, m_serial, \* whether there is a sensor, and the port it has open, 0 if none
  dead,      \* what was at the open port is gone
  sinceFind, \* updates since the last search
  pc, question, port, waited,
  lost, plugs,   \* history, for the bounds
  clean,     \* history: nothing went wrong in this exchange
  got        \* history: the last exchange

lineVars == <<down, up, machine>>
hostVars == <<m, m_arduino_temp, m_serial, dead, sinceFind, pc, question, port, waited,
              clean, got>>
vars == <<plug, lineVars, hostVars, lost, plugs>>

Thing == {"none", "other", "arduino"}

----------------------------------------------------------------------------
(***************************************************************************)
(* PacketParser, which the sketch has too (ParsingMachine).                *)
(***************************************************************************)

BeginToken == "{"
EndToken == "}"

NewParser == [s |-> "BeginToken1", data |-> <<>>]
HasValue(p) == p.s = "ValueFound"

processChar(p, c) ==
  CASE p.s = "BeginToken1" -> IF c = BeginToken THEN [p EXCEPT !.s = "BeginToken2"] ELSE p
    [] p.s = "BeginToken2" -> IF c = BeginToken THEN [p EXCEPT !.s = "EndToken1"] ELSE NewParser
    [] p.s = "EndToken1" ->
         CASE c = EndToken -> [p EXCEPT !.s = "EndToken2"]
           [] c # EndToken /\ Len(p.data) < MaxSize -> [p EXCEPT !.data = Append(@, c)]
           [] OTHER -> NewParser
    [] p.s = "EndToken2" -> IF c = EndToken THEN [p EXCEPT !.s = "ValueFound"] ELSE NewParser
    [] p.s = "ValueFound" -> p

Packet(data) == <<BeginToken, BeginToken>> \o data \o <<EndToken, EndToken>>

NoValue == <<"none">>   \* readAnswer returned false

\* The bytes of a temperature, some of which may be '}', but never the last.
Float == {<<"f", "f">>, <<EndToken, "f">>, <<EndToken, EndToken, "f">>}

----------------------------------------------------------------------------
(***************************************************************************)
(* The sketch.                                                             *)
(***************************************************************************)

\* memcmp of as many characters as there are, at most one.
Means(data, c) == data = <<>> \/ data[1] = c

Answers(data) ==
  CASE Means(data, "?") -> {Packet(<<"A">>)}
    [] ~Means(data, "?") /\ Means(data, "T") -> {Packet(f) : f \in Float}
    [] OTHER -> {<<>>}

\* Mutant: a packet that was answered is not forgotten.
LoopAgain(received, answer) ==
  /\ IF HasValue(machine) THEN answer \in Answers(machine.data) ELSE answer = <<>>
  /\ machine' = FoldLeft(processChar, machine, received)

\* loop, then serialEvent with all that came in the meantime.
Loop(received, answer) ==
  /\ IF HasValue(machine) THEN answer \in Answers(machine.data) ELSE answer = <<>>
  /\ machine' = FoldLeft(processChar, IF HasValue(machine) THEN NewParser ELSE machine,
                         received)

----------------------------------------------------------------------------
(***************************************************************************)
(* Questions.                                                              *)
(***************************************************************************)

AtBoard == m_serial # 0 /\ plug[m_serial] = "arduino" /\ ~dead

\* sendPacket to an open port.  What is written to a device that is gone throws,
\* and closes the port; the answer is then not waited for.
Ask(q, serial) ==
  /\ question' = q /\ m' = NewParser /\ waited' = 0 /\ clean' = TRUE
  /\ down' = IF serial # 0 /\ plug[serial] = "arduino" THEN down \o Packet(<<q>>) \o <<"0">> ELSE down

\* FindArduinoTemp at the next port: if it can be opened, the device is asked
\* what it is.  Nothing of an earlier answer is in the buffers of a port that is opened.
Open ==
  /\ pc = "search"
  /\ IF port > Ports
     THEN /\ m_arduino_temp' = FALSE /\ pc' = "idle"
          /\ UNCHANGED <<lineVars, m, m_serial, dead, question, waited, clean, port>>
     ELSE IF plug[port] = "none"
     THEN /\ port' = port + 1
          /\ UNCHANGED <<lineVars, m, m_arduino_temp, m_serial, dead, question, waited,
                         clean, pc>>
     ELSE /\ Ask("?", port)
          /\ m_serial' = port /\ dead' = FALSE /\ up' = <<>> /\ pc' = "identify"
          /\ UNCHANGED <<machine, m_arduino_temp, port>>
  /\ UNCHANGED <<plug, sinceFind, lost, plugs, got>>

\* Mutant: a sensor whose port was closed is kept.
GoneStays == FALSE

\* The sensor's port was closed: a search begins.
Gone == m_arduino_temp /\ m_serial = 0

\* update_sensors, while nothing else goes on and the line is at rest.
update_sensors ==
  /\ pc = "idle" /\ down = <<>> /\ ~HasValue(machine)
  /\ CASE ~m_arduino_temp /\ sinceFind < FindPeriod ->
            /\ sinceFind' = sinceFind + 1
            /\ UNCHANGED <<lineVars, m, m_arduino_temp, m_serial, pc, question, port, waited,
                           clean>>
       [] ~m_arduino_temp /\ sinceFind >= FindPeriod ->
            /\ sinceFind' = 0 /\ pc' = "search" /\ port' = 1
            /\ UNCHANGED <<lineVars, m, m_arduino_temp, m_serial, question, waited, clean>>
       [] Gone ->
            /\ m_arduino_temp' = FALSE /\ pc' = "search" /\ port' = 1
            /\ UNCHANGED <<lineVars, m, m_serial, sinceFind, question, waited, clean>>
       [] m_arduino_temp /\ ~Gone /\ m_serial # 0 /\ dead ->
            /\ m_serial' = 0
            /\ UNCHANGED <<lineVars, m, m_arduino_temp, sinceFind, pc, question, port, waited,
                           clean>>
       [] OTHER ->
            /\ Ask("T", m_serial) /\ pc' = "ask"
            /\ UNCHANGED <<up, machine, m_arduino_temp, m_serial, sinceFind, port>>
  /\ UNCHANGED <<plug, dead, lost, plugs, got>>

----------------------------------------------------------------------------
(***************************************************************************)
(* Answers.                                                                *)
(***************************************************************************)

Waiting == pc \in {"identify", "ask"}

\* readAnswer returns.  A port without a board is closed, the search goes on at
\* the next; a board is kept and asked for its temperature at once.  The first
\* character of an answer that has none is read nevertheless (getValue).
Ended(value, closed) ==
  LET identified == value # <<>> /\ value[1] = "A"
  IN /\ got' = [question |-> question, value |-> value, clean |-> clean /\ AtBoard]
     /\ pc' = CASE pc = "ask" -> "idle"
                [] pc = "identify" /\ value = <<>> -> "undefined"
                [] pc = "identify" /\ identified -> "found"
                [] OTHER -> "search"
     /\ port' = IF pc' = "search" THEN port + 1 ELSE port
     /\ m_arduino_temp' = (m_arduino_temp \/ pc' = "found")
     /\ m_serial' = IF closed \/ pc' = "search" THEN 0 ELSE m_serial

\* The first question for the temperature, in the same update.
Found ==
  /\ pc = "found"
  /\ IF dead THEN /\ m_serial' = 0 /\ pc' = "idle"
                  /\ UNCHANGED <<down, m, question, waited, clean>>
     ELSE Ask("T", m_serial) /\ pc' = "ask" /\ m_serial' = m_serial
  /\ UNCHANGED <<plug, up, machine, m_arduino_temp, dead, sinceFind, port, lost, plugs, got>>

\* A character comes in.
ReadChar ==
  /\ Waiting /\ up # <<>>
  /\ LET p == processChar(m, Head(up))
     IN /\ m' = p /\ up' = Tail(up)
        /\ IF HasValue(p) THEN Ended(p.data, FALSE)
           ELSE UNCHANGED <<got, pc, port, m_arduino_temp, m_serial>>
  /\ waited' = 0
  /\ UNCHANGED <<plug, down, machine, dead, sinceFind, question, lost, plugs, clean>>

\* No character for two seconds; a read of a device that is gone may throw before.
NoAnswer ==
  /\ Waiting /\ up = <<>>
  /\ \/ waited = Timeout /\ Ended(NoValue, FALSE)
     \/ (dead \/ m_serial = 0) /\ Ended(NoValue, TRUE)
  /\ UNCHANGED <<plug, lineVars, m, dead, sinceFind, question, waited, lost, plugs, clean>>

\* 100 ms, in which what the board sent is read.
Tick ==
  /\ up = <<>> \/ ~Waiting
  /\ Waiting => waited < Timeout
  /\ Waiting \/ down # <<>> \/ HasValue(machine)
  /\ IF \E p \in 1 .. Ports : plug[p] = "arduino"
     THEN /\ \E answer \in {<<>>} \cup Answers(machine.data) :
               /\ Loop(down, answer)
               /\ up' = IF AtBoard THEN up \o answer ELSE up
          /\ down' = <<>>
     ELSE UNCHANGED lineVars
  /\ waited' = IF Waiting THEN waited + 1 ELSE waited
  /\ UNCHANGED <<plug, m, m_arduino_temp, m_serial, dead, sinceFind, pc, question, port, lost,
                 plugs, clean, got>>

----------------------------------------------------------------------------
(***************************************************************************)
(* The environment.                                                        *)
(***************************************************************************)

Lose ==
  /\ lost < MaxLost
  /\ \/ \E i \in DOMAIN down : down' = RemoveAt(down, i) /\ up' = up
     \/ \E i \in DOMAIN up : up' = RemoveAt(up, i) /\ down' = down
  /\ lost' = lost + 1 /\ clean' = FALSE
  /\ UNCHANGED <<plug, machine, m, m_arduino_temp, m_serial, dead, sinceFind, pc, question,
                 port, waited, plugs, got>>

\* There is one board.
Plug(p, thing) ==
  /\ plugs < MaxPlugs
  /\ plug[p] = "none"
  /\ thing = "arduino" => \A q \in 1 .. Ports : plug[q] # "arduino"
  /\ plug' = [plug EXCEPT ![p] = thing]
  /\ plugs' = plugs + 1
  /\ UNCHANGED <<lineVars, hostVars, lost>>

Unplug(p) ==
  /\ plugs < MaxPlugs
  /\ plug[p] # "none"
  /\ plug' = [plug EXCEPT ![p] = "none"]
  /\ dead' = (dead \/ m_serial = p)
  /\ IF plug[p] = "arduino" THEN down' = <<>> /\ machine' = NewParser
     ELSE UNCHANGED <<down, machine>>
  /\ up' = IF m_serial = p THEN <<>> ELSE up
  /\ plugs' = plugs + 1
  /\ UNCHANGED <<m, m_arduino_temp, m_serial, sinceFind, pc, question, port, waited, lost,
                 clean, got>>

----------------------------------------------------------------------------
Init ==
  /\ plug \in {f \in [1 .. Ports -> Thing] :
                 \A p, q \in 1 .. Ports : f[p] = "arduino" /\ f[q] = "arduino" => p = q}
  /\ down = <<>> /\ up = <<>> /\ machine = NewParser /\ m = NewParser
  /\ m_arduino_temp = FALSE /\ m_serial = 0 /\ dead = FALSE /\ sinceFind = FindPeriod
  /\ pc = "idle" /\ question = "none" /\ port = 1 /\ waited = 0
  /\ lost = 0 /\ plugs = 0 /\ clean = TRUE
  /\ got = [question |-> "none", value |-> NoValue, clean |-> FALSE]

Host == update_sensors \/ Open \/ Found \/ ReadChar \/ NoAnswer
Environment ==
  \/ Lose
  \/ \E p \in 1 .. Ports : Unplug(p) \/ \E thing \in Thing \ {"none"} : Plug(p, thing)

Next == Host \/ Tick \/ Environment

\* The application's loop goes on, and so does time.
Spec == Init /\ [][Next]_vars /\ WF_vars(Host) /\ WF_vars(Tick)

----------------------------------------------------------------------------
(***************************************************************************)
(* Properties.                                                             *)
(***************************************************************************)

\* While no character of an exchange is lost and the board stays, the answer is
\* the one to this question, whichever character was lost in the exchange before
\* (one: after both '}' of a question, the sketch takes the next one for its end,
\* so this is false for MaxLost = 2) and however an earlier answer was cut off by
\* a '}' among the bytes of a temperature (for which there is no value, or an
\* empty one).
RightAnswer ==
  got.clean => CASE got.question = "?" -> got.value = <<"A">>
                 [] got.question = "T" -> got.value \in {NoValue, <<>>, <<"f", "f">>}

\* A board that stays is found and kept, at whatever port it is, unless the value
\* of an empty answer was read.
FoundAgain ==
  <>[](\E p \in 1 .. Ports : plug[p] = "arduino") => <>[]((m_arduino_temp /\ AtBoard) \/ pc = "undefined")
============================================================================
