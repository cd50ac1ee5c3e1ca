----------------------------- MODULE JsonSpirit -----------------------------
(***************************************************************************)
(* json_spirit (src/lib/json_spirit), which reads the input of the JSON    *)
(* API and writes its answers: the grammar with its semantic actions       *)
(* (json_spirit_reader_template.h), the generator                          *)
(* (json_spirit_writer_template.h), and how both treat the characters of a *)
(* string.                                                                 *)
(*                                                                         *)
(* The text of a value is a sequence of tokens: a punctuator, a whole      *)
(* string, a whole number or literal, or a character of white space.  A    *)
(* value is the sequence of its nodes in the order of the text; holder is  *)
(* the array or object a node is in, 0 for the value itself.               *)
(***************************************************************************)
EXTENDS Integers, SequencesExt

CONSTANT Strings    \* tokens that are strings

Punctuators == {"{", "}", "[", "]", ":", ","}
Literals == {"number", "true", "false", "null"}
Skipped == {"sp", "tab", "cr", "lf", "comment"}

\* "none" is no name.
ASSUME StringsAssumption ==
    Strings \cap (Punctuators \cup Literals \cup Skipped \cup {"none"}) = {}

TypeOf(c) == IF c \in Strings THEN "str" ELSE c

-----------------------------------------------------------------------------
(* Semantic_actions *)

\* current is current_p_, stack is stack_, name is name_; expect says what the
\* grammar is looking for.
NewReader == [expect |-> "value", nodes |-> <<>>, current |-> 0, stack |-> <<>>, name |-> "none"]

InObject(r) == r.current # 0 /\ r.nodes[r.current].type = "obj"

\* add_to_current and, for the first value, add_first.
AddToCurrent(r, type, c) ==
    [r EXCEPT !.nodes = Append(@, [type |-> type, holder |-> r.current, token |-> c,
                                   name |-> IF InObject(r) THEN r.name ELSE "none"]),
              !.current = IF @ = 0 THEN 1 ELSE @]

BeginCompound(r, type, c) ==
    [AddToCurrent(r, type, c) EXCEPT
        !.stack = IF r.current = 0 THEN @ ELSE Append(@, r.current),
        !.current = Len(r.nodes) + 1]

\* Mutated: the stack is not consulted.
EndCompoundToTop(r) == [r EXCEPT !.current = 1, !.stack = <<>>]

EndCompound(r) ==
    IF r.current = 1 THEN r
    ELSE [r EXCEPT !.current = Last(r.stack), !.stack = Front(@)]

-----------------------------------------------------------------------------
(* The grammar *)

AtValue(r) == r.expect \in {"value", "element"}
Follows(whole) == IF whole THEN "done" ELSE "next"

\* Mutated: either bracket closes what is open.
ClosesAny(r, c) == c \in {"]", "}"} /\ r.expect \in {"element", "member", "next"}

Closes(r, c) ==
    \/ c = "]" /\ (r.expect = "element" \/ (r.expect = "next" /\ ~ InObject(r)))
    \/ c = "}" /\ (r.expect = "member" \/ (r.expect = "next" /\ InObject(r)))

\* What follows is not looked at when the value is complete.
Token(r, c) ==
    CASE r.expect \in {"done", "failed"} \/ c \in Skipped -> r
      [] AtValue(r) /\ c \in Strings \cup Literals ->
            [AddToCurrent(r, TypeOf(c), c) EXCEPT !.expect = Follows(r.current = 0)]
      [] AtValue(r) /\ c = "{" -> [BeginCompound(r, "obj", c) EXCEPT !.expect = "member"]
      [] AtValue(r) /\ c = "[" -> [BeginCompound(r, "array", c) EXCEPT !.expect = "element"]
      [] Closes(r, c) -> [EndCompound(r) EXCEPT !.expect = Follows(r.current = 1)]
      [] r.expect \in {"member", "pair"} /\ c \in Strings ->
            [r EXCEPT !.name = c, !.expect = "colon"]
      [] r.expect = "colon" /\ c = ":" -> [r EXCEPT !.expect = "value"]
      [] r.expect = "next" /\ c = "," ->
            [r EXCEPT !.expect = IF InObject(r) THEN "pair" ELSE "value"]
      [] OTHER -> [r EXCEPT !.expect = "failed"]

\* The reader after each token, as a set of one: TLC then computes it once.
ReadText(text) ==
    LET after[i \in 0 .. Len(text)] ==
            IF i = 0 THEN {NewReader} ELSE {Token(r, text[i]) : r \in after[i - 1]}
    IN  CHOOSE r \in after[Len(text)] : TRUE

\* read_string: its answer, and the value when that is true.
IsRead(text) == ReadText(text).expect = "done"
ValueOf(text) == ReadText(text).nodes

-----------------------------------------------------------------------------
(* Generator *)

\* The members of s that are in P, in their order.
Only(s, P) ==
    LET upTo[i \in 0 .. Len(s)] ==
            IF i = 0 THEN <<>> ELSE IF s[i] \in P THEN Append(upTo[i - 1], s[i]) ELSE upTo[i - 1]
    IN  upTo[Len(s)]

Held(nodes, k) == Only([i \in DOMAIN nodes |-> i], {i \in DOMAIN nodes : nodes[i].holder = k})

Opening(node) == IF node.type = "obj" THEN "{" ELSE "["
Closing(node) == IF node.type = "obj" THEN "}" ELSE "]"

\* output_array_or_obj with output_composite_item; options 0, so no white space.
Composite(node, items) ==
    <<Opening(node)>>
    \o FlattenSeq([i \in DOMAIN items |-> IF i = 1 THEN items[i] ELSE <<",">> \o items[i]])
    \o <<Closing(node)>>

WriteText(nodes) ==
    LET item(k) == IF nodes[k].name = "none" THEN <<>> ELSE <<nodes[k].name, ":">>
        output[k \in DOMAIN nodes] ==
            item(k) \o
            IF nodes[k].type \in {"obj", "array"}
            THEN Composite(nodes[k], [i \in DOMAIN Held(nodes, k) |-> output[Held(nodes, k)[i]]])
            ELSE <<nodes[k].token>>
    IN  output[1]

-----------------------------------------------------------------------------
(* The characters of a string, as numbers of a char *)

Quote == 34
Backslash == 92

\* The character after the backslash, for the characters that have one.
EscapeOf == [c \in {Quote, Backslash, 8, 12, 10, 13, 9} |->
    CASE c = 8 -> 98 [] c = 12 -> 102 [] c = 10 -> 110 [] c = 13 -> 114 [] c = 9 -> 116
      [] OTHER -> c]

\* iswprint in the "C" locale.
Prints(c) == c \in 32 .. 126

\* to_hex_char, and hex_to_num, which takes small letters too.
HexChar(n) == IF n < 10 THEN 48 + n ELSE 55 + n
HexNum(c) ==
    CASE c \in 48 .. 57 -> c - 48
      [] c \in 97 .. 102 -> c - 87
      [] c \in 65 .. 70 -> c - 55
      [] OTHER -> 0

\* non_printable_to_string; 117 is "u".
NonPrintable(c) == <<Backslash, 117, 48, 48, HexChar(c \div 16), HexChar(c % 16)>>

AddEscChar(c) ==
    IF c \in DOMAIN EscapeOf THEN <<Backslash, EscapeOf[c]>>
    ELSE IF Prints(c) THEN <<c>> ELSE NonPrintable(c)

AddEscChars(s) == FlattenSeq([i \in DOMAIN s |-> AddEscChar(s[i])])

WriteString(s) == <<Quote>> \o AddEscChars(s) \o <<Quote>>

\* append_esc_char_and_incr_iter for the character after a backslash at s[i]: what it
\* appends, and how many characters it has used.  120 is "x", 47 is "/".
Unescaped(s, i) ==
    LET hex(j) == HexNum(s[j])
        rest == Len(s) - i
        Simple == {c \in DOMAIN EscapeOf : EscapeOf[c] = s[i + 1]}
    IN  CASE Simple # {} -> <<SetToSeq(Simple), 2>>
          [] s[i + 1] = 47 -> <<<<47>>, 2>>
          [] s[i + 1] = 120 /\ rest >= 3 -> <<<<16 * hex(i + 2) + hex(i + 3)>>, 4>>
          [] s[i + 1] = 117 /\ rest >= 5 ->
                <<<<(256 * (16 * hex(i + 2) + hex(i + 3)) + 16 * hex(i + 4) + hex(i + 5)) % 256>>, 6>>
          [] OTHER -> <<<<>>, 2>>

\* substitute_esc_chars; a backslash at the very end stays.
SubstituteEscChars(s) ==
    LET from[i \in 1 .. Len(s) + 1] ==
            CASE i = Len(s) + 1 -> <<>>
              [] i <= Len(s) /\ (s[i] # Backslash \/ i = Len(s)) -> <<s[i]>> \o from[i + 1]
              [] OTHER -> Unescaped(s, i)[1] \o from[i + Unescaped(s, i)[2]]
    IN  from[1]

\* Where string_ ends in a text that starts with its quote, 0 if it does not: at the
\* first quote that no backslash takes with it.
EndOfString(text) ==
    LET end[i \in 2 .. Len(text) + 2] ==
            CASE i > Len(text) -> 0
              [] i <= Len(text) /\ text[i] = Quote -> i
              [] i <= Len(text) /\ text[i] = Backslash -> end[i + 2]
              [] OTHER -> end[i + 1]
    IN  IF text # <<>> /\ text[1] = Quote THEN end[2] ELSE 0

\* get_str of the string a text starts with.
ReadString(text) == SubstituteEscChars(SubSeq(text, 2, EndOfString(text) - 1))

=============================================================================
