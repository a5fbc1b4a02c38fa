------------------------------ MODULE JsonLexer ------------------------------
(***************************************************************************)
(* The characters within the strings and the words of JSON, which the      *)
(* module Json takes for one each: json_parser_feed_string with its        *)
(* escapes, the words true, false and null, and the buffer they share.     *)
(*                                                                         *)
(* A character is its code, as in the C source.  A document is fed in      *)
(* pieces: a quote, a character of a string in one of its spellings, a     *)
(* word.  What json_parser_token makes of a token is the list of tokens    *)
(* here (which of them it takes is in Json), and that its buffer is empty  *)
(* again.                                                                  *)
(***************************************************************************)
EXTENDS Integers, Sequences, FiniteSets, FiniteSetsExt, SequencesExt

CONSTANTS
  Code,         \* the characters of the strings, by their codes
  FirstLength,  \* of the buffer, 128 in the code
  MaxPieces     \* bound

\* Of the characters of two bytes or less; without the end of a C string, and without
\* the halves of the pairs that stand for the others, which the code takes for characters.
LexerAssumption ==
  /\ Code \subseteq (1 .. 65535) \ (55296 .. 57343)
  /\ {FirstLength, MaxPieces} \subseteq Nat \ {0}

VARIABLES
  lexer,   \* the parser's state between two tokens, its buffer, and the tokens so far
  meant,   \* the tokens of the document, where a string is a sequence of codes
  quoted,  \* is the document within a string?
  pieces

vars == <<lexer, meant, quoted, pieces>>

Quote == 34
Backslash == 92
Word == [true |-> <<116, 114, 117, 101>>, false |-> <<102, 97, 108, 115, 101>>,
         null |-> <<110, 117, 108, 108>>]
State == [true |-> "k_parsing_true", false |-> "k_parsing_false", null |-> "k_parsing_null"]

----------------------------------------------------------------------------
(***************************************************************************)
(* The buffer, which grows to twice its length.                            *)
(***************************************************************************)
Undefined == -1   \* what malloc leaves in it
Empty == [i \in {} |-> Undefined]
buflen(p) == Cardinality(DOMAIN p.buffer)

Grown(p) ==
  LET newlen == IF buflen(p) = 0 THEN FirstLength ELSE 2 * buflen(p)
  IN [p EXCEPT !.buffer = [i \in 0 .. newlen - 1 |->
                             IF i < buflen(p) THEN p.buffer[i] ELSE Undefined]]

json_parser_append(p, c) ==
  LET room == IF p.bufindex >= buflen(p) THEN Grown(p) ELSE p
  IN [room EXCEPT !.buffer[p.bufindex] = c, !.bufindex = @ + 1]

Append2(p, b1, b2) == json_parser_append(json_parser_append(p, b1), b2)

\* json_string_create copies what is before the first 0.
CString(p) ==
  SubSeq([i \in 1 .. buflen(p) |-> p.buffer[i - 1]], 1,
         Min({i \in DOMAIN p.buffer : p.buffer[i] = 0}))

\* Mutant: a word stays in the buffer.
TokenKeeps(p, token) ==
  [p EXCEPT !.tokens = Append(@, token), !.state = "k_do",
            !.bufindex = IF token.type = "string" THEN 0 ELSE @]

Token(p, token) ==
  [p EXCEPT !.tokens = Append(@, token), !.bufindex = 0, !.state = "k_do"]

----------------------------------------------------------------------------
(***************************************************************************)
(* The characters.                                                         *)
(***************************************************************************)

\* What is no digit counts as 0.
Digit(c) ==
  CASE c \in 48 .. 57 -> c - 48
    [] c \in 97 .. 102 -> 10 + c - 97
    [] c \in 65 .. 70 -> 10 + c - 65
    [] OTHER -> 0

\* The masks and shifts of the code.
Encoded(p, u) ==
  CASE u <= 127 -> json_parser_append(p, u)
    [] u > 127 /\ u <= 2047 -> Append2(p, 192 + ((u \div 64) % 32), 128 + (u % 64))
    [] OTHER -> json_parser_append(Append2(p, 224 + ((u \div 4096) % 16),
                                           128 + ((u \div 64) % 64)), 128 + (u % 64))

json_parser_unicode(p, c) ==
  LET unihex == IF p.unicode = 1 THEN Digit(c) ELSE 16 * p.unihex + Digit(c)
      q == [p EXCEPT !.unihex = unihex, !.unicode = IF @ = 4 THEN 0 ELSE @ + 1]
  IN IF p.unicode = 4 THEN Encoded(q, unihex) ELSE q

\* \n, \r, \t, \b and \f; of any other the character itself.
Escaped(c) ==
  CASE c = 110 -> 10 [] c = 114 -> 13 [] c = 116 -> 9 [] c = 98 -> 8 [] c = 102 -> 12
    [] OTHER -> c

json_parser_feed_string(p, c) ==
  LET past == [p EXCEPT !.backslash = FALSE]
      ended == json_parser_append(p, 0)
  IN CASE p.unicode > 0 -> json_parser_unicode(p, c)
       [] p.unicode = 0 /\ p.backslash /\ c = 117 -> [past EXCEPT !.unicode = 1]
       [] p.unicode = 0 /\ p.backslash /\ c # 117 -> json_parser_append(past, Escaped(c))
       [] p.unicode = 0 /\ ~p.backslash /\ c = Backslash -> [p EXCEPT !.backslash = TRUE]
       [] p.unicode = 0 /\ ~p.backslash /\ c = Quote ->
            Token(ended, [type |-> "string", of |-> CString(ended)])
       [] OTHER -> json_parser_append(p, c)

\* json_parser_feed_true, json_parser_feed_false and json_parser_feed_null.
feed_word(w, p, c) ==
  LET q == json_parser_append([p EXCEPT !.state = State[w]], c)
      read == [i \in 1 .. q.bufindex |-> q.buffer[i - 1]]
  IN CASE read = Word[w] -> Token(q, [type |-> w])
       [] read # Word[w] /\ IsPrefix(read, Word[w]) -> q
       [] OTHER -> [q EXCEPT !.r = "k_token_error"]

\* What feed_word says of a first f or n is not passed on.
json_parser_do(p, c) ==
  CASE c = 32 -> p
    [] c = Quote -> [p EXCEPT !.state = "k_parsing_string"]
    [] c = 116 -> feed_word("true", p, c)
    [] c = 102 -> [feed_word("false", p, c) EXCEPT !.r = "k_continue"]
    [] c = 110 -> [feed_word("null", p, c) EXCEPT !.r = "k_continue"]
    [] OTHER -> [p EXCEPT !.r = "k_token_error"]

\* json_parser_eval gives up at the first error.
json_parser_feed_one(p, c) ==
  CASE p.r # "k_continue" -> p
    [] p.r = "k_continue" /\ p.state = "k_do" -> json_parser_do(p, c)
    [] p.r = "k_continue" /\ p.state = "k_parsing_string" -> json_parser_feed_string(p, c)
    [] OTHER -> feed_word(CHOOSE w \in DOMAIN Word : p.state = State[w], p, c)

----------------------------------------------------------------------------
(***************************************************************************)
(* The documents, and how they may be spelled.                             *)
(***************************************************************************)
UTF8(c) ==
  CASE c < 128 -> <<c>>
    [] c \in 128 .. 2047 -> <<192 + (c \div 64), 128 + (c % 64)>>
    [] OTHER -> <<224 + (c \div 4096), 128 + ((c \div 64) % 64), 128 + (c % 64)>>

\* Four digits of 16, the letters of one case.
Hexadecimal(c, letters) ==
  LET digit(d) == IF d < 10 THEN 48 + d ELSE letters + d - 10
  IN <<Backslash, 117>> \o [i \in 1 .. 4 |-> digit((c \div 16 ^ (4 - i)) % 16)]

\* What may follow a backslash, except for u.
Letter == {Quote, Backslash, 47, 98, 102, 110, 114, 116}

Spellings(c) ==
  {Hexadecimal(c, 65), Hexadecimal(c, 97)}
  \cup {<<Backslash, l>> : l \in {l \in Letter : Escaped(l) = c}}
  \cup {UTF8(d) : d \in {c} \ ((1 .. 31) \cup {Quote, Backslash})}

Feed(spelling) ==
  /\ pieces < MaxPieces
  /\ lexer' = FoldLeft(json_parser_feed_one, lexer, spelling)
  /\ pieces' = pieces + 1

FeedQuote ==
  /\ Feed(<<Quote>>)
  /\ quoted' = ~quoted
  /\ meant' = IF quoted THEN meant ELSE Append(meant, [type |-> "string", of |-> <<>>])

FeedCharacter(c) ==
  /\ quoted
  /\ \E s \in Spellings(c) : Feed(s)
  /\ meant' = [meant EXCEPT ![Len(meant)].of = Append(@, c)]
  /\ UNCHANGED quoted

FeedWord(w) ==
  /\ ~quoted /\ Feed(Word[w])
  /\ meant' = Append(meant, [type |-> w])
  /\ UNCHANGED quoted

FeedSpace == ~quoted /\ Feed(<<32>>) /\ UNCHANGED <<meant, quoted>>

Init ==
  /\ lexer = [state |-> "k_do", unicode |-> 0, unihex |-> 0, backslash |-> FALSE,
              buffer |-> Empty, bufindex |-> 0, tokens |-> <<>>, r |-> "k_continue"]
  /\ meant = <<>> /\ quoted = FALSE /\ pieces = 0

Next == \/ FeedQuote \/ FeedSpace
        \/ \E c \in Code : FeedCharacter(c)
        \/ \E w \in DOMAIN Word : FeedWord(w)

Spec == Init /\ [][Next]_vars

----------------------------------------------------------------------------
(***************************************************************************)
(* Properties.                                                             *)
(***************************************************************************)

\* Whatever spelling a document has, its tokens are read: the words, and the strings
\* as the UTF-8 of their characters, of however many the buffer had to grow for, and
\* with nothing left in it from the token before (json_parser_feed_string,
\* json_parser_unicode, json_parser_append).
ReadsTokens ==
  ~quoted =>
    /\ lexer.r = "k_continue"
    /\ lexer.tokens = [i \in DOMAIN meant |->
         IF meant[i].type = "string"
         THEN [meant[i] EXCEPT !.of = FlattenSeq([j \in DOMAIN @ |-> UTF8(@[j])])]
         ELSE meant[i]]
=============================================================================
