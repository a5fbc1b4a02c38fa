------------------------------ MODULE MCTexts -------------------------------
(***************************************************************************)
(* The texts that are parsed, one kind in each behaviour: the JSON of the  *)
(* OSD server, as tokens (Json) or character by character (JsonLexer), and *)
(* the packets of a meter (PacketFields).  They share nothing.             *)
(***************************************************************************)
EXTENDS Json

CONSTANTS Code, FirstLength, MaxPieces, MaxFields, Header, MaxLength

VARIABLES part, lexer, meant, quoted, pieces, packet, parsed

L == INSTANCE JsonLexer
F == INSTANCE PacketFields

ASSUME TextsAssumption ==
  stack_depth \in Nat \ {0} /\ L!LexerAssumption /\ F!FieldsAssumption

jsonVars == vars
lexerVars == <<lexer, meant, quoted, pieces>>
packetVars == <<packet, parsed>>
allVars == <<part, jsonVars, lexerVars, packetVars>>

\* Those that have nothing to read.
NoJson ==
  /\ parser = json_parser_reset /\ heap = <<>> /\ text = <<>> /\ result = "running"
  /\ alphabet = CHOOSE a \in Alphabets : TRUE
NoPacket == packet = <<>> /\ parsed = [r |-> "none"]

AllInit ==
  /\ L!Init
  /\ \/ part = "json" /\ Init /\ NoPacket
     \/ part = "lexer" /\ NoJson /\ NoPacket
     \/ part = "packet" /\ NoJson /\ F!Init

Parse == part = "json" /\ Next /\ UNCHANGED <<part, lexerVars, packetVars>>
Lex == part = "lexer" /\ L!Next /\ UNCHANGED <<part, jsonVars, packetVars>>
ReadPacket == part = "packet" /\ F!Next /\ UNCHANGED <<part, jsonVars, lexerVars>>

AllSpec == AllInit /\ [][Parse \/ Lex \/ ReadPacket]_allVars

\* Many punctuation marks, short texts of the characters of numbers, and mixed ones.
MCAlphabets ==
  {[chars |-> Punctuation \cup {"a", "1"}, length |-> 10],
   [chars |-> NumberChar \cup {"[", ",", "]", " ", "x"}, length |-> 5],
   [chars |-> Punctuation \cup Key \cup {"true", "null", "0"}, length |-> 6]}

\* The first and last characters of one, two and three bytes and around the halves of
\* pairs, and those that have escapes of their own, besides plain letters.
MCCodes ==
  {1, 8, 10, 34, 47, 92, 97, 117, 127, 128, 2047, 2048, 44267, 55295, 57344, 65535}

\* Two headers to go on from, and none.
MCHeaders ==
  {<<"#">>, <<"#", "d", ",", "-", ",">>, <<"#", "d", ",", "-", ",", "2", ",">>}

\* See JsonLexer and PacketFields.
ReadsTokens == L!ReadsTokens
OwnFields == part = "packet" => F!OwnFields
=============================================================================
