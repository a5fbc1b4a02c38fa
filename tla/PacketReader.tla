---------------------------- MODULE PacketReader ----------------------------
(***************************************************************************)
(* How the packets of a Watts Up? meter are cut out of its serial line:    *)
(* meter_packet_read (quicktester/linux/server/meter.c), whose buffer      *)
(* handling is that of WattsupSensor::read on Linux                        *)
(* (sensors/Wattsup.cpp:1025).  A packet begins with '#' and ends with     *)
(* ';'; anything may stand between two packets, and reads may end          *)
(* anywhere.                                                               *)
(*                                                                         *)
(* The character at place i of the line is line[i]; the buffer holds       *)
(* places, so that what it delivers can be compared with what was sent.    *)
(***************************************************************************)
EXTENDS Integers, Sequences

CONSTANTS
  N,    \* bound: characters the meter sends
  Room  \* sizeof(m->buf) - 1

ReaderAssumption == N \in Nat /\ Room \in Nat \ {0}

Char == {"sharp", "semicolon", "other"}  \* '#', ';' and the rest
Place == 1 .. N

VARIABLES
  line,      \* line[i]: the i-th character sent
  received,  \* characters read from the device so far
  buf,       \* m->buf, m->buf_len
  buf_pos0,  \* where a packet begins, or the search for one
  buf_pos1,  \* where the search for its end goes on
  packets    \* history: the packets delivered

vars == <<line, received, buf, buf_pos0, buf_pos1, packets>>

\* Positions stay inside the buffer, and the buffer inside its array.
TypeOK ==
  /\ line \in [Place -> Char]
  /\ received \in 0 .. N
  /\ buf \in Seq(Place) /\ Len(buf) <= Room
  /\ buf_pos0 \in 0 .. Len(buf) /\ buf_pos1 \in 0 .. Len(buf)
  /\ packets \in Seq(Seq(Place))

Init ==
  /\ line \in [Place -> Char]
  /\ received = 0 /\ buf = <<>> /\ buf_pos0 = 0 /\ buf_pos1 = 0
  /\ packets = <<>>

----------------------------------------------------------------------------
\* p is the first position of buffer b (from 0) at or after `from' that holds c,
\* or the length of b if none does.
Finds(b, from, c, p) ==
  /\ p < Len(b) => line[b[p + 1]] = c
  /\ \A q \in from .. (p - 1) : line[b[q + 1]] # c

\* Nothing but useless characters in the buffer.
Discard == /\ buf' = <<>> /\ buf_pos0' = 0 /\ buf_pos1' = 0
           /\ UNCHANGED packets

\* Mutant: where the packet begins is forgotten between two calls.
KeepSearchingForgets(b, pos0) ==
  /\ buf' = b /\ buf_pos0' = 0 /\ buf_pos1' = Len(b)
  /\ UNCHANGED packets

\* Buffer b holds '#' at position pos0, but no ';' after it yet.
KeepSearching(b, pos0) ==
  /\ buf' = b /\ buf_pos0' = pos0 /\ buf_pos1' = Len(b)
  /\ UNCHANGED packets

\* Mutant: the positions are not set back when the buffer is shifted.
DeliverNoReset(b, pos0, pos1) ==
  /\ packets' = Append(packets, SubSeq(b, pos0 + 1, pos1 + 1))
  /\ buf' = SubSeq(b, pos1 + 2, Len(b))
  /\ buf_pos0' = pos0 /\ buf_pos1' = pos1

\* The packet is copied out, the rest of the buffer moved to its beginning.
Deliver(b, pos0, pos1) ==
  /\ packets' = Append(packets, SubSeq(b, pos0 + 1, pos1 + 1))
  /\ buf' = SubSeq(b, pos1 + 2, Len(b))
  /\ buf_pos0' = 0 /\ buf_pos1' = 0

\* Mutant: a packet that is not complete yet is thrown away.
FindEndDiscard(b, pos0, from) ==
  \E pos1 \in from .. Len(b) :
    /\ Finds(b, from, "semicolon", pos1)
    /\ \/ pos1 < Len(b) /\ Deliver(b, pos0, pos1)
       \/ pos1 = Len(b) /\ Discard

FindEnd(b, pos0, from) ==
  \E pos1 \in from .. Len(b) :
    /\ Finds(b, from, "semicolon", pos1)
    /\ \/ pos1 < Len(b) /\ Deliver(b, pos0, pos1)
       \/ pos1 = Len(b) /\ KeepSearching(b, pos0)

FindPacket(b) ==
  \E pos0 \in buf_pos0 .. Len(b) :
    /\ Finds(b, buf_pos0, "sharp", pos0)
    /\ \/ pos0 < Len(b) /\ FindEnd(b, pos0, pos0 + 1)
       \/ pos0 = Len(b) /\ Discard

\* meter_packet_read: k characters come in before the line is silent for
\* 100 ms or the buffer is full, then at most one packet is delivered.
Read(k) ==
  LET b == buf \o [i \in 1 .. k |-> received + i] IN
    /\ received + k <= N /\ Len(b) <= Room
    /\ received' = received + k
    /\ \/ buf_pos1 <= buf_pos0 /\ FindPacket(b)
       \/ buf_pos1 > buf_pos0 /\ FindEnd(b, buf_pos0, buf_pos1)
    /\ UNCHANGED line

Next == \E k \in 0 .. Room : Read(k)

Spec == Init /\ [][Next]_vars

\* The meter's thread, and the pass of the managers, call it over and over.
FairSpec == Spec /\ WF_vars(Next)

----------------------------------------------------------------------------
(***************************************************************************)
(* What the reader promises.                                               *)
(***************************************************************************)

\* The place before the first character that is not delivered or skipped
\* before packet i.
EndOf(i) == IF i = 0 THEN 0 ELSE packets[i][Len(packets[i])]

\* The i-th packet is made of the characters of the line from the first '#'
\* after the packet before it to the first ';' behind that: none lost, none
\* twice, however the reads cut the line (meter_packet_read's two searches
\* that go on where the last call ended, and its shift of the buffer).
IsFrame(i) ==
  LET p == packets[i] IN
    /\ Len(p) >= 2
    /\ \A j \in 1 .. Len(p) : p[j] = p[1] + j - 1
    /\ EndOf(i - 1) < p[1]
    /\ line[p[1]] = "sharp" /\ line[p[Len(p)]] = "semicolon"
    /\ \A q \in EndOf(i - 1) + 1 .. p[1] - 1 : line[q] # "sharp"
    /\ \A q \in p[1] + 1 .. EndOf(i) - 1 : line[q] # "semicolon"

Framed == \A i \in 1 .. Len(packets) : IsFrame(i)

\* No packet of the line is still to be delivered.
AllDelivered ==
  \A a, b \in Place :
    ~ (EndOf(Len(packets)) < a /\ a < b /\ line[a] = "sharp" /\ line[b] = "semicolon")

\* The buffer is full and holds no end of its packet.
Full == Len(buf) = Room /\ buf_pos0 < buf_pos1 /\ buf_pos1 = Room

\* Every packet is delivered in the end, except that a packet that does not
\* fit into the buffer, with what was read together before it, ends all reading
\* (the read of 0 bytes that meter.c:350 takes for a silent line).
Delivered == <>(AllDelivered \/ Full)
============================================================================
