-------------------------------- MODULE Json --------------------------------
(***************************************************************************)
(* The JSON parser of depends/json/json.c, with which the trickle handler  *)
(* and the standalone upload read what the OSD server answers.  It is fed  *)
(* one character at a time (json_parser_feed_one): a table drives it       *)
(* through a number, two stacks through objects and arrays, and the values *)
(* it builds count their references.                                       *)
(*                                                                         *)
(* A string and one of true, false, null are a single character here: what *)
(* is in a string makes no difference to the parser, unless it is empty.   *)
(* Their own characters are in JsonLexer.                                  *)
(* A hash table is a function from keys to values.                         *)
(***************************************************************************)
EXTENDS Integers, Sequences, FiniteSets, FiniteSetsExt, SequencesExt

CONSTANTS
  Key,          \* the strings of the documents, as keys and as values
  stack_depth,  \* levels of the two stacks, 256 in the code
  Alphabets     \* each with the characters and the length of some documents

VARIABLES
  parser,    \* stack_top, the two stacks, the lexer's state and its buffer
  heap,      \* the strings, arrays and hash tables that were made, in that order
  alphabet,  \* the characters and the length of this document
  text,      \* what json_parser_eval was fed
  result     \* "running", or how json_parser_eval returned

vars == <<parser, heap, alphabet, text, result>>

Punctuation == {"{", "}", "[", "]", ":", ","}
NumberChar == {"-", "+", "0", "1", ".", "e"}   \* "1" stands for 1 to 9
Char == Punctuation \cup NumberChar \cup Key \cup {"true", "null", " ", "x"}

----------------------------------------------------------------------------
(***************************************************************************)
(* Values.  A string, an array or an object is a reference to the heap.    *)
(***************************************************************************)

Null == [type |-> "null"]
True == [type |-> "boolean"]
Number(digits) == [type |-> "number", text |-> digits]
OnHeap(v) == v.type \in {"string", "array", "object"}

Create(h, type, content) == Append(h, [refcount |-> 1, type |-> type, of |-> content])
json_string_create(h, s) == Create(h, "string", s)
json_array_create(h) == Create(h, "array", <<>>)
json_object_create(h) == Create(h, "object", <<>>)
Created(h) == [type |-> Last(h).type, id |-> Len(h)]

json_ref(h, v) == IF OnHeap(v) THEN [h EXCEPT ![v.id].refcount = @ + 1] ELSE h

Contents(o) ==
  CASE o.type = "array" -> o.of
    [] o.type = "object" -> SetToSeq({o.of[k] : k \in DOMAIN o.of})
    [] OTHER -> <<>>

\* json_refcount(-1): a container whose last reference goes gives up its values.
RECURSIVE json_unref(_, _)
json_unref(h, v) ==
  IF ~OnHeap(v) THEN h
  ELSE LET less == [h EXCEPT ![v.id].refcount = @ - 1]
       IN IF less[v.id].refcount > 0 THEN less
          ELSE FoldLeft(json_unref, less, Contents(h[v.id]))

\* Mutant: a value that is replaced keeps the reference of its object.
json_hashtable_replace(h, object, key, v) ==
  LET old == h[object.id].of
      new == [k \in DOMAIN old \cup {key} |-> IF k = key THEN v ELSE old[k]]
  IN IF key = "" THEN h ELSE json_ref([h EXCEPT ![object.id].of = new], v)

\* An empty key is refused; the value of a key that is known is replaced.
json_hashtable_set(h, object, key, v) ==
  LET old == h[object.id].of
      new == [k \in DOMAIN old \cup {key} |-> IF k = key THEN v ELSE old[k]]
      with == json_ref([h EXCEPT ![object.id].of = new], v)
  IN IF key = "" THEN h
     ELSE IF key \in DOMAIN old THEN json_unref(with, old[key]) ELSE with

json_array_push(h, array, v) ==
  json_ref([h EXCEPT ![array.id].of = Append(@, v)], v)

----------------------------------------------------------------------------
(***************************************************************************)
(* json_parser_token: a token meets the state on top of the stack.  A      *)
(* result p has the parser, the heap and r, what the function returns.     *)
(***************************************************************************)

Scalar == Key \cup {"number", "true", "null"}

Return(p, r) == [p EXCEPT !.r = r]
Top(p) == p.state[p.top]
SetTop(p, s) == [p EXCEPT !.state[p.top] = s]
SetValue(p, v) == [p EXCEPT !.value[p.top] = v]
Pop(p) == [p EXCEPT !.top = @ - 1]

\* The state below is left, and a value is expected above it.  One level too
\* many is written beyond the stacks before it is noticed.
Push(p, below) ==
  IF p.top + 1 >= stack_depth THEN Return(SetTop(p, below), "k_stack_overflow")
  ELSE [SetTop(p, below) EXCEPT !.top = @ + 1, !.state[p.top + 1] = "k_parse_value"]

RECURSIVE json_parser_token(_, _)

\* The value on top is complete: the state below gets the same token.
Complete(p, token) ==
  IF p.top > 0 THEN json_parser_token(Pop(p), token)
  ELSE SetTop(p, "k_parse_done")

\* Mutant: any end closes what is open.
EndAny(p, token, first, rest) ==
  IF p.top > 0 THEN json_parser_token(SetTop(Pop(p), rest), token)
  ELSE Return(p, "k_parsing_error")

\* The end of an object or array right after its start, or after a comma.
EndEmpty(p, token, first, rest) ==
  IF p.top > 0 /\ p.state[p.top - 1] = first
  THEN json_parser_token(SetTop(Pop(p), rest), token)
  ELSE Return(p, "k_parsing_error")

\* The value made last, on top of the stack.
SetCreated(p, h) == [SetValue(p, Created(h)) EXCEPT !.heap = h]

ParseValue(p, token) ==
  CASE token = "{" -> Push(SetCreated(p, json_object_create(p.heap)), "k_object_1")
    [] token = "[" -> Push(SetCreated(p, json_array_create(p.heap)), "k_array_1")
    [] token = "}" -> EndEmpty(p, token, "k_object_1", "k_object_4")
    [] token = "]" -> EndEmpty(p, token, "k_array_1", "k_array_2")
    [] token \in Key ->
         Complete(SetCreated(p, json_string_create(p.heap, token)), token)
    [] token = "number" -> Complete(SetValue(p, Number(p.buffer)), token)
    [] token = "true" -> Complete(SetValue(p, True), token)
    [] token = "null" -> Complete(SetValue(p, Null), token)
    [] OTHER -> Return(p, "k_parsing_error")

\* The key stays on the stack until its value is known.
Object1(p, token) ==
  IF token \in Key THEN SetTop([p EXCEPT !.top = @ + 1], "k_object_2")
  ELSE Return(p, "k_parsing_error")

Object2(p, token) ==
  IF token = ":" THEN Push(p, "k_object_3") ELSE Return(p, "k_parsing_error")

Object3(p, token) ==
  LET value == p.value[p.top + 1]
      key == p.value[p.top]
      object == p.value[p.top - 1]
      set == json_hashtable_set(p.heap, object, p.heap[key.id].of, value)
  IN IF token \in Scalar \cup {"}", "]"}
     THEN SetTop([Pop(p) EXCEPT !.heap = json_unref(json_unref(set, key), value)],
                 "k_object_4")
     ELSE Return(p, "k_parsing_error")

Object4(p, token) ==
  CASE token = "}" -> Complete(p, token)
    [] token = "," -> Push(p, "k_object_1")
    [] OTHER -> Return(p, "k_parsing_error")

Array1(p, token) ==
  LET value == p.value[p.top + 1]
  IN IF token \in Scalar \cup {"}", "]"}
     THEN SetTop([p EXCEPT !.heap =
                    json_unref(json_array_push(p.heap, p.value[p.top], value), value)],
                 "k_array_2")
     ELSE Return(p, "k_parsing_error")

Array2(p, token) ==
  CASE token = "]" -> Complete(p, token)
    [] token = "," -> Push(p, "k_array_1")
    [] OTHER -> Return(p, "k_parsing_error")

json_parser_token(p, token) ==
  CASE Top(p) = "k_parse_done" -> Return(p, "k_parsing_error")
    [] Top(p) = "k_parse_value" -> ParseValue(p, token)
    [] Top(p) = "k_object_1" -> Object1(p, token)
    [] Top(p) = "k_object_2" -> Object2(p, token)
    [] Top(p) = "k_object_3" -> Object3(p, token)
    [] Top(p) = "k_object_4" -> Object4(p, token)
    [] Top(p) = "k_array_1" -> Array1(p, token)
    [] Top(p) = "k_array_2" -> Array2(p, token)

----------------------------------------------------------------------------
(***************************************************************************)
(* The lexer.                                                              *)
(***************************************************************************)

Digit == {"0", "1"}

\* _numtrans: the states of a number, each named after the nodes of the
\* diagram above the table that it stands for.
numtrans(s, c) ==
  CASE s = "0_1" /\ c = "-" -> "1"
    [] s \in {"0_1", "1"} /\ c = "0" -> "2_6_10"
    [] s \in {"0_1", "1"} /\ c = "1" -> "2_3_6_10"
    [] s = "2_3_6_10" /\ c \in Digit -> "2_3_6_10"
    [] s \in {"2_6_10", "2_3_6_10"} /\ c = "." -> "4"
    [] s \in {"4", "5_6_10"} /\ c \in Digit -> "5_6_10"
    [] s \in {"2_6_10", "2_3_6_10", "5_6_10"} /\ c = "e" -> "7_8"
    [] s = "7_8" /\ c \in {"+", "-"} -> "7"
    [] s \in {"7_8", "7", "9_10"} /\ c \in Digit -> "9_10"
    [] OTHER -> "error"

endstate == {"2_6_10", "2_3_6_10", "9_10", "5_6_10"}

\* A character of a number, or the first one after it, which is then fed again.
RECURSIVE json_parser_feed_one(_, _)
json_parser_feed_number(p, c) ==
  LET next == numtrans(p.numstate, c)
      token == json_parser_token(p, "number")
  IN CASE next # "error" -> [p EXCEPT !.numstate = next, !.buffer = Append(@, c)]
       [] next = "error" /\ p.numstate \notin endstate -> Return(p, "k_token_error")
       [] OTHER -> IF token.r # "k_continue" THEN token
                   ELSE json_parser_feed_one([token EXCEPT !.lex = "k_do",
                                                           !.buffer = <<>>], c)

json_parser_do(p, c) ==
  CASE c = " " -> p
    [] c \in Punctuation \cup Key \cup {"true", "null"} -> json_parser_token(p, c)
    [] c \in {"-", "0", "1"} ->
         json_parser_feed_number([p EXCEPT !.lex = "k_parsing_number",
                                           !.numstate = "0_1"], c)
    [] c = "end" -> Return(p, "k_end_of_string")
    [] OTHER -> Return(p, "k_token_error")

json_parser_feed_one(p, c) ==
  IF p.lex = "k_do" THEN json_parser_do(p, c) ELSE json_parser_feed_number(p, c)

----------------------------------------------------------------------------
(***************************************************************************)
(* json_parser_eval.                                                       *)
(***************************************************************************)

json_parser_reset ==
  [top |-> 0, state |-> [i \in 0 .. stack_depth - 1 |-> "k_parse_value"],
   value |-> [i \in 0 .. stack_depth - 1 |-> Null],
   lex |-> "k_do", numstate |-> "0_1", buffer |-> <<>>]

Init == /\ parser = json_parser_reset
        /\ heap = <<>> /\ text = <<>> /\ result = "running"
        /\ alphabet \in Alphabets

json_parser_done(p) == Top(p) = "k_parse_done"

\* What json_parser_eval makes of r.  It does not know k_stack_overflow: it goes
\* on with stacks that are written beyond their end, of which nothing more is said.
Outcome(p, c) ==
  CASE p.r = "k_stack_overflow" -> "beyond the stacks"
    [] p.r \in {"k_token_error", "k_parsing_error"} ->
         IF c = "end" THEN "no end" ELSE "error"
    [] p.r \in {"k_continue", "k_end_of_string"} ->
         IF c # "end" THEN "running" ELSE IF json_parser_done(p) THEN "value" ELSE "no end"

Feed(c) ==
  LET p == json_parser_feed_one(parser @@ [heap |-> heap, r |-> "k_continue"], c)
  IN /\ result = "running"
     /\ c # "end" => Len(text) < alphabet.length
     /\ parser' = [f \in DOMAIN parser |-> p[f]]
     /\ heap' = p.heap
     /\ text' = IF c = "end" THEN text ELSE Append(text, c)
     /\ result' = Outcome(p, c)
     /\ UNCHANGED alphabet

\* The caller is done with the value.
Release ==
  /\ result = "value"
  /\ heap' = json_unref(heap, parser.value[0])
  /\ result' = "released"
  /\ UNCHANGED <<parser, alphabet, text>>

Next == Release \/ \E c \in alphabet.chars \cup {"end"} : Feed(c)

Spec == Init /\ [][Next]_vars

----------------------------------------------------------------------------
(***************************************************************************)
(* JSON: what a document means, read off its grammar.                      *)
(***************************************************************************)

\* A number of the grammar: an integer, a fraction and an exponent.
IsNumber(s) ==
  \E i, j \in 0 .. Len(s) :
    /\ i <= j
    /\ LET int == SubSeq(s, 1, i)
           frac == SubSeq(s, i + 1, j)
           exp == SubSeq(s, j + 1, Len(s))
           digits(d) == d # <<>> /\ ToSet(d) \subseteq Digit
           natural == IF i > 0 /\ int[1] = "-" THEN Tail(int) ELSE int
       IN /\ digits(natural) /\ (natural[1] = "0" => Len(natural) = 1)
          /\ frac = <<>> \/ (frac[1] = "." /\ digits(Tail(frac)))
          /\ \/ exp = <<>>
             \/ /\ exp[1] = "e"
                /\ \/ digits(Tail(exp))
                   \/ /\ Len(exp) > 1 /\ exp[2] \in {"+", "-"}
                      /\ digits(SubSeq(exp, 3, Len(exp)))

\* The lexemes of a text: characters of a number that follow each other are one,
\* until a space ends it.
Lexemes(s) ==
  LET add(out, c) ==
        IF out # <<>> /\ Last(out)[1] \in NumberChar /\ Last(Last(out)) # " "
           /\ c \in NumberChar \cup {" "}
        THEN Append(Front(out), Append(Last(out), c))
        ELSE IF c = " " THEN out ELSE Append(out, <<c>>)
  IN FoldLeft(add, <<>>, s)
Digits(lexeme) == IF Last(lexeme) = " " THEN Front(lexeme) ELSE lexeme

\* Where a text ends too early: more of it could still make a document.
Open == {[v |-> Null, next |-> 0]}

\* The number at the end of a text can be one that goes on.
MayGoOn(s, i) == i = Len(s) /\ (IsNumber(s[i]) \/ IsNumber(Append(s[i], "0")))

\* The values that start at lexeme i of s, each with the lexeme after it.  Of two
\* equal keys the later counts.
RECURSIVE ValueAt(_, _), Items(_, _), Members(_, _)
ValueAt(s, i) ==
  LET scalar == CASE s[i] = <<"true">> -> {True}
                  [] s[i] = <<"null">> -> {Null}
                  [] \E k \in Key : s[i] = <<k>> -> {[type |-> "string", of |-> s[i][1]]}
                  [] IsNumber(Digits(s[i])) -> {Number(Digits(s[i]))}
                  [] OTHER -> {}
      container(type, end, items(_, _)) ==
        {[r EXCEPT !.v = [type |-> type, of |-> r.v]] :
           r \in IF i < Len(s) /\ s[i + 1] = <<end>> THEN {[v |-> <<>>, next |-> i + 2]}
                 ELSE items(s, i + 1)}
  IN IF i > Len(s) THEN Open
     ELSE CASE s[i] = <<"[">> -> container("array", "]", Items)
            [] s[i] = <<"{">> -> container("object", "}", Members)
            [] OTHER -> {[v |-> x, next |-> i + 1] : x \in scalar}
                        \cup (IF MayGoOn(s, i) THEN Open ELSE {})

\* After the item x: an end, or a comma and what follows it.
After(s, x, end, rest(_, _)) ==
  CASE x.next \in {0, Len(s) + 1} -> Open
    [] x.next \in 1 .. Len(s) /\ s[x.next] = <<end>> -> {[v |-> <<>>, next |-> x.next + 1]}
    [] x.next \in 1 .. Len(s) /\ s[x.next] = <<",">> -> rest(s, x.next + 1)
    [] OTHER -> {}

Items(s, i) ==
  LET all(x) == {IF r.next = 0 THEN r ELSE [r EXCEPT !.v = <<x.v>> \o @] :
                   r \in After(s, x, "]", Items)}
  IN UNION {all(x) : x \in ValueAt(s, i)}

Members(s, i) ==
  LET with(x, later) == IF s[i][1] \in DOMAIN later THEN later
                        ELSE later @@ (s[i][1] :> x.v)
      all(x) == {IF r.next = 0 THEN r ELSE [r EXCEPT !.v = with(x, @)] :
                   r \in After(s, x, "}", Members)}
  IN CASE i > Len(s) -> Open
       [] i <= Len(s) /\ s[i][1] \in Key ->
            IF i = Len(s) THEN Open
            ELSE IF s[i + 1] = <<":">> THEN UNION {all(x) : x \in ValueAt(s, i + 2)} ELSE {}
       [] OTHER -> {}

\* The values of a whole document, and whether some lexemes are the beginning of one.
Meaning(s) == {r.v : r \in {r \in ValueAt(s, 1) : r.next = Len(s) + 1}}
Beginning(s) == Meaning(s) # {} \/ \E r \in ValueAt(s, 1) : r.next = 0

\* Where the parser is not strict.  A comma between an item and the end counts for
\* nothing, which neither JSON nor the grammar above json_parser_token allows; and a
\* value with an empty key is read and dropped (json_hashtable_set).
WithoutLastCommas(s) ==
  LET idle(i) == /\ s[i] = <<",">> /\ i \in 2 .. Len(s) - 1
                 /\ s[i + 1] \in {<<"]">>, <<"}">>} /\ s[i - 1] \notin {<<"[">>, <<"{">>}
      add(out, i) == IF idle(i) THEN out ELSE Append(out, s[i])
  IN FoldLeft(add, <<>>, [i \in DOMAIN s |-> i])

RECURSIVE WithoutEmptyKeys(_)
WithoutEmptyKeys(v) ==
  CASE v.type = "array" ->
         [v EXCEPT !.of = [i \in DOMAIN @ |-> WithoutEmptyKeys(@[i])]]
    [] v.type = "object" ->
         [v EXCEPT !.of = [k \in DOMAIN @ \ {""} |-> WithoutEmptyKeys(@[k])]]
    [] OTHER -> v

\* A value of the program with all it holds.
RECURSIVE Whole(_)
Whole(v) ==
  CASE v.type = "string" -> [type |-> "string", of |-> heap[v.id].of]
    [] v.type = "array" ->
         [type |-> "array", of |-> [i \in DOMAIN heap[v.id].of |-> Whole(heap[v.id].of[i])]]
    [] v.type = "object" ->
         [type |-> "object", of |-> [k \in DOMAIN heap[v.id].of |-> Whole(heap[v.id].of[k])]]
    [] OTHER -> v

----------------------------------------------------------------------------
(***************************************************************************)
(* Properties.                                                             *)
(***************************************************************************)

\* json_parser_eval accepts the documents of JSON, and those that are JSON but for a
\* comma between an item and an end, and no others; it gives their value without the
\* members that have an empty key, and gives up in the middle only where no such document
\* begins so: the two stacks, on which a key waits for its value and an end closes
\* what it does not start, the table of the numbers, and the feeding of a number's
\* last character twice (json_parser_token, json_parser_feed_number).
ParsesJson ==
  LET document == WithoutLastCommas(Lexemes(text))
  IN /\ result = "value" =>
          {WithoutEmptyKeys(v) : v \in Meaning(document)} = {Whole(parser.value[0])}
     /\ result = "error" => ~Beginning(document)
     /\ result = "no end" => Meaning(document) = {}

\* The slots of the stack that own what they refer to: an object or array that
\* is being filled, a key that waits, and the finished document.
Owned == {i \in 0 .. parser.top : parser.state[i] # "k_parse_value" /\ OnHeap(parser.value[i])}

\* The places in live arrays and objects that refer to a value.
References(id) ==
  UNION {{<<o, k>> : k \in {k \in DOMAIN heap[o].of :
                             OnHeap(heap[o].of[k]) /\ heap[o].of[k].id = id}} :
           o \in {o \in DOMAIN heap :
                   heap[o].type \in {"array", "object"} /\ heap[o].refcount > 0}}

\* Between two characters every value is referred to as often as it counts, by
\* the stack and by the containers that live, and nothing that is referred to is
\* freed; after the caller's json_unref nothing is left (json_refcount,
\* json_hashtable_set, json_array_push).
ReferencesCounted ==
  /\ result \in {"running", "value"} =>
       \A id \in DOMAIN heap :
         heap[id].refcount =
           Cardinality({i \in Owned : parser.value[i].id = id})
           + Cardinality(References(id))
  /\ result = "released" => \A id \in DOMAIN heap : heap[id].refcount = 0
============================================================================
