---------------------------- MODULE RequestParser ----------------------------
(***************************************************************************)
(* The automaton that reads the head of an HTTP request: class             *)
(* basic_request_parser of cpp-netlib (boost/network/protocol/http/        *)
(* request_parser.hpp and impl/request_parser.ipp).                        *)
(*                                                                         *)
(* A text is a sequence of tokens.  A token is one character, or a run of  *)
(* characters the automaton treats all alike, so that a text cut between   *)
(* two tokens says all there is to say about a text cut within one.        *)
(***************************************************************************)
EXTENDS Integers, SequencesExt

CONSTANTS
    Characters, \* the tokens texts are made of
    Words       \* those made of characters that may stand in a name: letters, "-", ...

\* Decimal digits, single characters.
DigitOf == [x \in {"0", "1", "2", "3", "4", "5", "6", "7", "8", "9"} |->
    CASE x = "0" -> 0 [] x = "1" -> 1 [] x = "2" -> 2 [] x = "3" -> 3 [] x = "4" -> 4
      [] x = "5" -> 5 [] x = "6" -> 6 [] x = "7" -> 7 [] x = "8" -> 8 [] x = "9" -> 9]
Digits == DOMAIN DigitOf

\* Letters the automaton knows by name, and what else may stand in a name.
NameTokens == Words \cup Digits \cup {"H", "T", "P", "."}

\* is_ctl.  The name "ctl" is for all control characters but these three.
Controls == {"cr", "lf", "tab", "ctl"}

\* All but controls, and also characters above 127 (no is_char, and no is_ctl):
\* what a URI or the value of a header may hold.
Printable(c) == c \notin Controls

\* is_char and neither is_ctl nor is_tspecial.
NameChar(c) == c \in NameTokens

Blank(c) == c \in {"sp", "tab"}

ASSUME TokensAssumption ==
    /\ NameTokens \cup Controls \cup {"sp", ":", "/"} \subseteq Characters
    /\ Words \cap (Controls \cup {"sp", ":", "/"}) = {}

\* A request under construction: the part of basic_request the parser fills in, the
\* state of the automaton, and how many characters of the last read it has taken.
\* "true" and "false" are the answers of consume() when it is not indeterminate.
NewParser == [state |-> "method_start", method |-> <<>>, destination |-> <<>>,
              headers |-> <<>>, used |-> 0]

Decided(p) == p.state \in {"true", "false"}

\* The switch over state_ of consume(), for the request line ...
InRequestLine(p, c) ==
    CASE p.state \in {"method_start", "method"} /\ NameChar(c) -> "method"
      [] p.state = "method" /\ c = "sp" -> "uri"
      [] p.state = "uri" /\ c = "sp" -> "http_version_h"
      [] p.state = "uri" /\ c # "sp" /\ Printable(c) -> "uri"
      [] p.state = "http_version_h" /\ c = "H" -> "http_version_t_1"
      [] p.state = "http_version_t_1" /\ c = "T" -> "http_version_t_2"
      [] p.state = "http_version_t_2" /\ c = "T" -> "http_version_p"
      [] p.state = "http_version_p" /\ c = "P" -> "http_version_slash"
      [] p.state = "http_version_slash" /\ c = "/" -> "http_version_major_start"
      [] p.state \in {"http_version_major_start", "http_version_major"} /\ c \in Digits
            -> "http_version_major"
      [] p.state = "http_version_major" /\ c = "." -> "http_version_minor_start"
      [] p.state \in {"http_version_minor_start", "http_version_minor"} /\ c \in Digits
            -> "http_version_minor"
      [] p.state = "http_version_minor" /\ c = "cr" -> "expecting_newline_1"
      [] p.state = "expecting_newline_1" /\ c = "lf" -> "header_line_start"
      [] OTHER -> "false"

\* ... and for the headers and the empty line after them.
HeaderStates == {"header_line_start", "header_lws", "header_name", "space_before_header_value",
                 "header_value", "expecting_newline_2", "expecting_newline_3"}

InHeaders(p, c) ==
    CASE p.state = "header_line_start" /\ c = "cr" -> "expecting_newline_3"
      [] p.state = "header_line_start" /\ p.headers # <<>> /\ Blank(c) -> "header_lws"
      [] p.state \in {"header_line_start", "header_name"} /\ NameChar(c) -> "header_name"
      [] p.state = "header_lws" /\ Blank(c) -> "header_lws"
      [] p.state \in {"header_lws", "header_value"} /\ c = "cr" -> "expecting_newline_2"
      [] p.state = "header_lws" /\ ~ Blank(c) /\ Printable(c) -> "header_value"
      [] p.state = "header_name" /\ c = ":" -> "space_before_header_value"
      [] p.state = "space_before_header_value" /\ c = "sp" -> "header_value"
      [] p.state = "header_value" /\ Printable(c) -> "header_value"
      [] p.state = "expecting_newline_2" /\ c = "lf" -> "header_line_start"
      [] p.state = "expecting_newline_3" /\ c = "lf" -> "true"
      [] OTHER -> "false"

NextState(p, c) == IF p.state \in HeaderStates THEN InHeaders(p, c) ELSE InRequestLine(p, c)

\* What of the request the character belongs to.
Stored(p, c) ==
    LET next == NextState(p, c)
        last == Len(p.headers)
    IN  CASE next = "method" -> [p EXCEPT !.method = Append(@, c)]
          [] next = "uri" /\ p.state = "uri" -> [p EXCEPT !.destination = Append(@, c)]
          [] next = "header_name" /\ p.state = "header_line_start" ->
                [p EXCEPT !.headers = Append(@, [name |-> <<c>>, value |-> <<>>])]
          [] next = "header_name" /\ p.state = "header_name" ->
                [p EXCEPT !.headers[last].name = Append(@, c)]
          [] next = "header_value" /\ p.state \in {"header_lws", "header_value"} ->
                [p EXCEPT !.headers[last].value = Append(@, c)]
          [] OTHER -> p

Consume(p, c) == [Stored(p, c) EXCEPT !.state = NextState(p, c), !.used = p.used + 1]

\* parse_headers: until consume() decides or the characters of this read are used up.
Taking(p, c) == IF Decided(p) THEN p ELSE Consume(p, c)

\* The parser after each token is kept as a set of one: TLC then computes it once.
ParseHeaders(p, chars) ==
    LET after[i \in 0 .. Len(chars)] ==
            IF i = 0 THEN {[p EXCEPT !.used = 0]} ELSE {Taking(q, chars[i]) : q \in after[i - 1]}
    IN  CHOOSE q \in after[Len(chars)] : TRUE

-----------------------------------------------------------------------------

\* boost::lexical_cast<size_t> of the value of a header: a sign, which it takes for
\* unsigned types too, and digits, nothing else, within the 2^w numbers of the type.
Signed(value) == value # <<>> /\ Head(value) \in {"+", "-"}
Magnitude(value) == IF Signed(value) THEN Tail(value) ELSE value
Decimal(digits) == FoldLeft(LAMBDA n, d : 10 * n + DigitOf[d], 0, digits)

IsNumber(value, sizes) ==
    /\ Magnitude(value) # <<>>
    /\ \A i \in DOMAIN Magnitude(value) : Magnitude(value)[i] \in Digits
    /\ Decimal(Magnitude(value)) \in 0 .. sizes - 1

Number(value, sizes) ==
    IF Head(value) = "-" THEN (sizes - Decimal(Magnitude(value))) % sizes
    ELSE Decimal(Magnitude(value))

=============================================================================
