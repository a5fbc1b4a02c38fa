---------------------------- MODULE PacketFields ----------------------------
(***************************************************************************)
(* How meter_packet_read (quicktester/linux/server/meter.c) takes apart a  *)
(* packet that PacketReader has cut out of the line: a command, a          *)
(* subcommand, the number of the fields and the fields, with a comma after *)
(* each but the last.  Characters may have been lost on the line, so that  *)
(* anything can stand between the '#' and the ';'.                         *)
(*                                                                         *)
(* The pointers of the code are places of the packet; a place of 0 is      *)
(* NULL.  What is behind the ';' is the end of the string.                 *)
(***************************************************************************)
EXTENDS Integers, Sequences, FiniteSets, FiniteSetsExt, SequencesExt

CONSTANTS
  MaxFields,  \* of a packet, 18 in the code
  Header,  \* how the packets begin
  MaxLength   \* bound: characters after the beginning

FieldsAssumption == {MaxFields, MaxLength} \subseteq Nat \ {0}

VARIABLES
  packet,  \* the characters of p->buf
  parsed   \* r, "ok", "refused" or "beyond", and what the packet_t got

vars == <<packet, parsed>>

Numeral == [c \in {"1", "2"} |-> IF c = "1" THEN 1 ELSE 2]
Char == {"#", ",", "-", " ", "d"} \cup DOMAIN Numeral

----------------------------------------------------------------------------
\* strchr and strpbrk: the first place from `from' on with one of the characters.
strpbrk(s, from, chars) ==
  LET places == {j \in from .. Len(s) : s[j] \in chars}
  IN IF places = {} THEN 0 ELSE Min(places)

\* Without the white space that it begins with.
Trimmed(s) ==
  SubSeq(s, Min({j \in 1 .. Len(s) + 1 : j > Len(s) \/ s[j] # " "}), Len(s))

atoi(s) ==
  LET t == Trimmed(s)
      signed == t # <<>> /\ t[1] = "-"
      u == IF signed THEN Tail(t) ELSE t
      end == Min({j \in 1 .. Len(u) + 1 : j > Len(u) \/ u[j] \notin DOMAIN Numeral})
      value == FoldLeft(LAMBDA n, c : 10 * n + Numeral[c], 0, SubSeq(u, 1, end - 1))
  IN IF signed THEN -value ELSE value

\* The places of the commas after the command, the subcommand and the number of
\* fields; the first that is missing refuses the packet.
Comma1(s) == strpbrk(s, 2, {","})
Comma2(s) == strpbrk(s, Comma1(s) + 1, {","})
Comma3(s) == strpbrk(s, Comma2(s) + 1, {","})
HasHeader(s) == Comma1(s) # 0 /\ Comma2(s) # 0 /\ Comma3(s) # 0

field_count(s) == atoi(SubSeq(s, Comma2(s) + 1, Comma3(s) - 1))

\* Mutant: a packet with too few fields is not refused.
FieldAnyway(s, count, p, i) ==
  LET next == strpbrk(s, p.place, {",", ";"})
      end == IF next = 0 THEN Len(s) ELSE next - 1
  IN [p EXCEPT !.fields = Append(@, Trimmed(SubSeq(s, p.place, end))),
               !.place = IF next = 0 THEN @ ELSE next + 1]

\* Field i begins at the place p.place; only the last may be without an end.
Field(s, count, p, i) ==
  LET next == strpbrk(s, p.place, {",", ";"})
      end == IF next = 0 THEN Len(s) ELSE next - 1
  IN CASE p.r # "ok" -> p
       [] p.r = "ok" /\ next = 0 /\ i < count -> [p EXCEPT !.r = "refused"]
       [] p.r = "ok" /\ (next # 0 \/ i >= count) /\ i > MaxFields -> [p EXCEPT !.r = "beyond"]
       [] OTHER ->
            [p EXCEPT !.fields = Append(@, Trimmed(SubSeq(s, p.place, end))),
                      !.place = IF next = 0 THEN @ ELSE next + 1]

\* A packet of more fields than characters is refused before it has so many.
meter_packet_read(s) ==
  LET header == [r |-> "ok", cmd |-> s[2], sub_cmd |-> s[Comma1(s) + 1], fields |-> <<>>,
                 place |-> Comma3(s) + 1]
      field(p, i) == Field(s, field_count(s), p, i)
  IN IF HasHeader(s) /\ field_count(s) > 0
     THEN FoldLeft(field, header, [i \in 1 .. Min({field_count(s), Len(s)}) |-> i])
     ELSE [r |-> "refused"]

Init ==
  /\ packet \in {b \o <<";">> : b \in Header}
  /\ parsed = meter_packet_read(packet)

\* Another packet, with a character more.
Longer(c) ==
  /\ \E b \in Header : IsPrefix(b, packet) /\ Len(packet) <= Len(b) + MaxLength
  /\ packet' = Front(packet) \o <<c, ";">>
  /\ parsed' = meter_packet_read(packet')

Next == \E c \in Char : Longer(c)

Spec == Init /\ [][Next]_vars

----------------------------------------------------------------------------
(***************************************************************************)
(* What is in a packet.                                                    *)
(***************************************************************************)

\* The places where a field ends, and the characters of field i.
Ends == {j \in Comma3(packet) + 1 .. Len(packet) : packet[j] \in {",", ";"}}
OwnText(i) ==
  LET own == {j \in Comma3(packet) + 1 .. Len(packet) :
                j \notin Ends /\ Cardinality({e \in Ends : e < j}) = i - 1}
      from == IF own = {} THEN 1 ELSE Min(own)
  IN Trimmed(SubSeq(packet, from, from + Cardinality(own) - 1))

\* A packet gets as many fields as it says, each the text between its own two commas:
\* no character is in two fields, or in another than its own.  Where a character was
\* lost, a packet may want one field more than it has, which is then empty; it is refused
\* if it lacks more, or says nothing of how many there are (the search for commas that
\* goes on behind what was cut off, and the test of the last field).
OwnFields ==
  /\ parsed.r = "ok" =>
       /\ Len(parsed.fields) = field_count(packet)
       /\ field_count(packet) <= Cardinality(Ends) + 1
       /\ \A i \in DOMAIN parsed.fields : parsed.fields[i] = OwnText(i)
  /\ parsed.r = "refused" /\ HasHeader(packet) =>
       field_count(packet) <= 0 \/ field_count(packet) > Cardinality(Ends) + 1
=============================================================================
