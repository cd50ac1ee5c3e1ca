------------------------- MODULE HttpParsingProofs -------------------------
(***************************************************************************)
(* What the handler of a request gets is what its client sent: for all     *)
(* well-formed requests, whatever their length, and every way the network  *)
(* cuts them into reads.                                                   *)
(*                                                                         *)
(* The automaton reads the head piece by piece (ReadsHead).  Where it is   *)
(* after each token of a text is a function of the text (Reading), and a   *)
(* read of any size takes it from one of these places to another           *)
(* (CutsDoNotMatter).  With this, each step of the server keeps what       *)
(* ReadProgress says of a connection.                                      *)
(***************************************************************************)
EXTENDS HttpServerProofs, SequenceFacts

-----------------------------------------------------------------------------
(* One character of the automaton *)

ParserStates == {"method_start", "method", "uri", "http_version_h", "http_version_t_1",
    "http_version_t_2", "http_version_p", "http_version_slash", "http_version_major_start",
    "http_version_major", "http_version_minor_start", "http_version_minor", "expecting_newline_1",
    "true", "false"} \cup HeaderStates

Parsers ==
    [state : ParserStates, method : Seq(Characters), destination : Seq(Characters),
     headers : Seq([name : Seq(Characters), value : Seq(Characters)]), used : {0}]

\* A parser whose count of characters is not looked at.
In(st, m, d, h) ==
    [state |-> st, method |-> m, destination |-> d, headers |-> h, used |-> 0]

\* consume(), but for that count.
Fed(p, c) == [Stored(p, c) EXCEPT !.state = NextState(p, c)]

\* x takes the parser p to q, and no character of it comes after the decision.
Reads(p, x, q) ==
    \E P \in [0 .. Len(x) -> Parsers] :
        /\ P[0] = p /\ P[Len(x)] = q
        /\ \A i \in 1 .. Len(x) : ~ Decided(P[i - 1]) /\ P[i] = Fed(P[i - 1], x[i])

\* The empty text leaves the parser where it is.
LEMMA ReadsNothing ==
    ASSUME NEW p \in Parsers
    PROVE  Reads(p, <<>>, p)
<1> DEFINE P == [i \in 0 .. Len(<<>>) |-> p]
<1>1. P \in [0 .. Len(<<>>) -> Parsers]
  OBVIOUS
<1>2. P[0] = p /\ P[Len(<<>>)] = p
  OBVIOUS
<1>3. \A i \in 1 .. Len(<<>>) : FALSE
  OBVIOUS
<1> QED BY <1>1, <1>2, <1>3 DEF Reads

\* One token is read by one step.
LEMMA ReadsOne ==
    ASSUME NEW p \in Parsers, NEW c, NEW q \in Parsers, ~ Decided(p), q = Fed(p, c)
    PROVE  Reads(p, <<c>>, q)
<1> DEFINE P == [i \in 0 .. 1 |-> IF i = 0 THEN p ELSE q]
           x == <<c>>
<1>1. Len(x) = 1 /\ x[1] = c
  OBVIOUS
<1>2. P \in [0 .. 1 -> Parsers] /\ P[0] = p /\ P[1] = q
  OBVIOUS
<1> HIDE DEF P, x
<1>3. \A i \in 1 .. Len(x) : ~ Decided(P[i - 1]) /\ P[i] = Fed(P[i - 1], x[i])
  <2> SUFFICES ASSUME NEW i \in 1 .. Len(x)
               PROVE  ~ Decided(P[i - 1]) /\ P[i] = Fed(P[i - 1], x[i])
    OBVIOUS
  <2>1. i = 1 /\ i - 1 = 0
    BY <1>1
  <2> QED BY <1>1, <1>2, <2>1
<1>4. Reads(p, x, q)
  BY <1>1, <1>2, <1>3 DEF Reads
<1> QED BY <1>4 DEF x

\* Two texts are read one after the other.
LEMMA ReadsThen ==
    ASSUME NEW p, NEW x \in Seq(Characters), NEW q, NEW y \in Seq(Characters), NEW s,
           Reads(p, x, q), Reads(q, y, s)
    PROVE  Reads(p, x \o y, s)
<1>1. PICK P \in [0 .. Len(x) -> Parsers] :
        /\ P[0] = p /\ P[Len(x)] = q
        /\ \A i \in 1 .. Len(x) : ~ Decided(P[i - 1]) /\ P[i] = Fed(P[i - 1], x[i])
  BY DEF Reads
<1>2. PICK Q \in [0 .. Len(y) -> Parsers] :
        /\ Q[0] = q /\ Q[Len(y)] = s
        /\ \A i \in 1 .. Len(y) : ~ Decided(Q[i - 1]) /\ Q[i] = Fed(Q[i - 1], y[i])
  BY DEF Reads
<1> DEFINE z == x \o y
           R == [i \in 0 .. Len(z) |-> IF i <= Len(x) THEN P[i] ELSE Q[i - Len(x)]]
<1>3. /\ z \in Seq(Characters) /\ Len(z) = Len(x) + Len(y) /\ Len(x) \in Nat /\ Len(y) \in Nat
      /\ \A i \in 1 .. Len(x) + Len(y) : z[i] = IF i <= Len(x) THEN x[i] ELSE y[i - Len(x)]
  BY ConcatProperties
<1> HIDE DEF z
<1>4. R \in [0 .. Len(z) -> Parsers] /\ R[0] = p
  BY <1>1, <1>3
<1>5. R[Len(z)] = s
  <2>1. CASE Len(y) = 0
    BY <1>1, <1>2, <1>3, <2>1
  <2>2. CASE Len(y) # 0
    BY <1>1, <1>2, <1>3, <2>2
  <2> QED BY <2>1, <2>2
<1>6. ASSUME NEW i \in 1 .. Len(z)
      PROVE  ~ Decided(R[i - 1]) /\ R[i] = Fed(R[i - 1], z[i])
  <2>1. CASE i <= Len(x)
    <3>1. R[i] = P[i] /\ R[i - 1] = P[i - 1] /\ z[i] = x[i] /\ i \in 1 .. Len(x)
      BY <1>3, <2>1
    <3> HIDE DEF R
    <3> QED BY <1>1, <3>1
  <2>2. CASE i > Len(x)
    <3> DEFINE j == i - Len(x)
    <3>1. j \in 1 .. Len(y) /\ R[i] = Q[j] /\ z[i] = y[j]
      BY <1>3, <2>2
    <3>2. R[i - 1] = Q[j - 1]
      <4>1. CASE j = 1
        BY <1>1, <1>2, <1>3, <4>1
      <4>2. CASE j # 1
        BY <1>3, <3>1, <4>2
      <4> QED BY <4>1, <4>2
    <3> HIDE DEF R, j
    <3> QED BY <1>2, <3>1, <3>2
  <2> QED BY <1>3, <2>1, <2>2
<1> HIDE DEF R
<1>7. Reads(p, z, s)
  BY <1>4, <1>5, <1>6 DEF Reads
<1> QED BY <1>7 DEF z

\* Pieces that are read one after the other.
LEMMA ReadsPieces ==
    ASSUME NEW s \in Seq(Seq(Characters)), NEW q, q[0] \in Parsers,
           \A j \in 1 .. Len(s) : Reads(q[j - 1], s[j], q[j])
    PROVE  Reads(q[0], FlattenSeq(s), q[Len(s)])
<1>1. PICK F \in [0 .. Len(s) -> Seq(Characters)] :
        /\ F[0] = <<>>
        /\ \A j \in 1 .. Len(s) : F[j] = F[j - 1] \o s[j]
        /\ FlattenSeq(s) = F[Len(s)]
  BY Flattening
<1> DEFINE T == {n \in Nat : n <= Len(s) => Reads(q[0], F[n], q[n])}
<1>2. Nat \subseteq T
  <2>1. 0 \in T
    BY <1>1, ReadsNothing
  <2>2. ASSUME NEW n \in Nat, n \in T PROVE n + 1 \in T
    <3> SUFFICES ASSUME n + 1 <= Len(s) PROVE Reads(q[0], F[n + 1], q[n + 1])
      OBVIOUS
    <3>1. n + 1 \in 1 .. Len(s) /\ (n + 1) - 1 = n /\ n \in 0 .. Len(s)
      OBVIOUS
    <3>2. /\ Reads(q[0], F[n], q[n])
          /\ Reads(q[n], s[n + 1], q[n + 1]) /\ F[n + 1] = F[n] \o s[n + 1]
      <4>1. Reads(q[0], F[n], q[n])
        BY <2>2, <3>1
      <4> QED BY <1>1, <3>1, <4>1, Zenon
    <3>3. F[n] \in Seq(Characters) /\ s[n + 1] \in Seq(Characters)
      <4>1. \A j \in 1 .. Len(s) : s[j] \in Seq(Characters)
        OBVIOUS
      <4> QED BY <1>1, <3>1, <4>1, Zenon
    <3> QED BY <3>2, <3>3, ReadsThen
  <2> HIDE DEF T
  <2> QED BY <2>1, <2>2, Induction
<1>3. Len(s) \in Nat
  OBVIOUS
<1> QED BY <1>1, <1>2, <1>3

-----------------------------------------------------------------------------
(* What each kind of character does *)

\* Parsers by their parts.
LEMMA InIsParser ==
    ASSUME NEW st \in ParserStates, NEW m \in Seq(Characters), NEW d \in Seq(Characters),
           NEW h \in Seq([name : Seq(Characters), value : Seq(Characters)])
    PROVE  In(st, m, d, h) \in Parsers
BY DEF In, Parsers

\* The kinds of tokens do not meet.
LEMMA Apart ==
    /\ \A c \in NameTokens : c \notin Controls /\ c # "sp" /\ c # ":" /\ c # "/" /\ ~ Blank(c)
    /\ NameTokens \subseteq Characters
    /\ \A c \in Visible : c \in Characters /\ c \notin Controls
    /\ {"sp", "tab", "cr", "lf", ":", "/", "H", "T", "P", ".", "1"} \subseteq Characters
BY TokensAssumption DEF NameTokens, Controls, Digits, DigitOf, Blank, Visible, Printable

\* A step in the method, in the URI, and one that stores nothing.
LEMMA FedMethod ==
    ASSUME NEW st \in {"method_start", "method"}, NEW m, NEW d, NEW h, NEW c \in NameTokens
    PROVE  Fed(In(st, m, d, h), c) = In("method", Append(m, c), d, h)
<1> DEFINE p == In(st, m, d, h)
<1>1. p.state = st /\ p.method = m
  BY DEF In
<1>2. NextState(p, c) = "method"
  BY <1>1, Apart DEF NextState, InRequestLine, HeaderStates, NameChar
<1>3. Stored(p, c) = [p EXCEPT !.method = Append(m, c)]
  BY <1>1, <1>2 DEF Stored
<1> QED BY <1>2, <1>3, SMTT(30) DEF Fed, In

\* A character of the destination.
LEMMA FedUri ==
    ASSUME NEW m, NEW d, NEW h, NEW c \in Visible \ {"sp"}
    PROVE  Fed(In("uri", m, d, h), c) = In("uri", m, Append(d, c), h)
<1> DEFINE p == In("uri", m, d, h)
<1>1. p.state = "uri" /\ p.destination = d
  BY DEF In
<1>2. NextState(p, c) = "uri"
  BY <1>1 DEF NextState, InRequestLine, HeaderStates, Visible
<1>3. Stored(p, c) = [p EXCEPT !.destination = Append(d, c)]
  BY <1>1, <1>2 DEF Stored
<1> QED BY <1>2, <1>3 DEF Fed, In

Storing == {"method", "header_name", "header_value"}

\* A character that only moves the parser on.
LEMMA FedPlain ==
    ASSUME NEW st, NEW m, NEW d, NEW h, NEW c, NEW next,
           NextState(In(st, m, d, h), c) = next, next \notin Storing, st # "uri" \/ next # "uri"
    PROVE  Fed(In(st, m, d, h), c) = In(next, m, d, h)
<1> DEFINE p == In(st, m, d, h)
<1>1. p.state = st
  BY DEF In
<1>2. Stored(p, c) = p
  BY <1>1 DEF Stored, Storing
<1> QED BY <1>2 DEF Fed, In

\* The space before a value.
LEMMA FedSpace ==
    ASSUME NEW m, NEW d, NEW h, NEW c,
           NextState(In("space_before_header_value", m, d, h), c) = "header_value"
    PROVE  Fed(In("space_before_header_value", m, d, h), c) = In("header_value", m, d, h)
<1> DEFINE p == In("space_before_header_value", m, d, h)
<1>1. p.state = "space_before_header_value"
  BY DEF In
<1>2. Stored(p, c) = p
  BY <1>1 DEF Stored
<1> QED BY <1>2 DEF Fed, In

\* The characters of HTTP/1.1 and the ends of lines.
LEMMA NextPlain ==
    ASSUME NEW m, NEW d, NEW h
    PROVE  /\ NextState(In("method", m, d, h), "sp") = "uri"
           /\ NextState(In("uri", m, d, h), "sp") = "http_version_h"
           /\ NextState(In("http_version_h", m, d, h), "H") = "http_version_t_1"
           /\ NextState(In("http_version_t_1", m, d, h), "T") = "http_version_t_2"
           /\ NextState(In("http_version_t_2", m, d, h), "T") = "http_version_p"
           /\ NextState(In("http_version_p", m, d, h), "P") = "http_version_slash"
           /\ NextState(In("http_version_slash", m, d, h), "/") = "http_version_major_start"
           /\ NextState(In("http_version_major_start", m, d, h), "1") = "http_version_major"
           /\ NextState(In("http_version_major", m, d, h), ".") = "http_version_minor_start"
           /\ NextState(In("http_version_minor_start", m, d, h), "1") = "http_version_minor"
           /\ NextState(In("http_version_minor", m, d, h), "cr") = "expecting_newline_1"
           /\ NextState(In("expecting_newline_1", m, d, h), "lf") = "header_line_start"
BY Apart DEF NextState, InRequestLine, HeaderStates, NameChar, In, Digits, DigitOf, Printable, Controls

\* Where the tokens of a header lead.
LEMMA NextInHeaders ==
    ASSUME NEW m, NEW d, NEW h
    PROVE  /\ NextState(In("header_name", m, d, h), ":") = "space_before_header_value"
           /\ NextState(In("space_before_header_value", m, d, h), "sp") = "header_value"
           /\ NextState(In("header_value", m, d, h), "cr") = "expecting_newline_2"
           /\ NextState(In("header_lws", m, d, h), "cr") = "expecting_newline_2"
           /\ NextState(In("expecting_newline_2", m, d, h), "lf") = "header_line_start"
           /\ NextState(In("header_line_start", m, d, h), "cr") = "expecting_newline_3"
           /\ NextState(In("expecting_newline_3", m, d, h), "lf") = "true"
           /\ \A c \in {"sp", "tab"} :
                /\ h # <<>> => NextState(In("header_line_start", m, d, h), c) = "header_lws"
                /\ NextState(In("header_lws", m, d, h), c) = "header_lws"
BY Apart DEF NextState, InHeaders, HeaderStates, NameChar, In, Blank, Printable, Controls

Pairs == [name : Seq(Characters), value : Seq(Characters)]

\* A header begins, its name grows, its value grows.
LEMMA FedNewName ==
    ASSUME NEW m, NEW d, NEW h, NEW c \in NameTokens
    PROVE  Fed(In("header_line_start", m, d, h), c)
             = In("header_name", m, d, Append(h, [name |-> <<c>>, value |-> <<>>]))
<1> DEFINE p == In("header_line_start", m, d, h)
<1>1. p.state = "header_line_start" /\ p.headers = h
  BY DEF In
<1>2. NextState(p, c) = "header_name"
  BY <1>1, Apart DEF NextState, InHeaders, HeaderStates, NameChar
<1> DEFINE g == Append(h, [name |-> <<c>>, value |-> <<>>])
<1>3. Stored(p, c) = [p EXCEPT !.headers = g]
  BY <1>1, <1>2 DEF Stored
<1> HIDE DEF g
<1>4. Fed(p, c) = In("header_name", m, d, g)
  BY <1>2, <1>3 DEF Fed, In
<1> QED BY <1>4 DEF g

\* A list whose last element is changed.
LEMMA ChangeLast ==
    ASSUME NEW h \in Seq(Pairs), NEW a \in Pairs, NEW z \in Pairs, NEW g, g = Append(h, a),
           NEW k \in [DOMAIN g -> Pairs], \A j \in DOMAIN g : k[j] = IF j = Len(g) THEN z ELSE g[j]
    PROVE  k = Append(h, z)
<1> DEFINE r == Append(h, z)
<1>1. /\ g \in Seq(Pairs) /\ Len(g) = Len(h) + 1 /\ g[Len(g)] = a
      /\ \A i \in 1 .. Len(h) : g[i] = h[i]
  BY AppendProperties
<1>2. r \in Seq(Pairs) /\ Len(r) = Len(h) + 1 /\ r[Len(h) + 1] = z /\ \A j \in 1 .. Len(h) : r[j] = h[j]
  BY AppendProperties
<1>3. DOMAIN g = 1 .. Len(g) /\ DOMAIN r = 1 .. Len(g)
  BY <1>1, <1>2
<1> HIDE DEF r
<1>4. r = [j \in 1 .. Len(g) |-> r[j]]
  BY <1>2, <1>3
<1>5. \A j \in 1 .. Len(g) : r[j] = IF j = Len(g) THEN z ELSE g[j]
  BY <1>1, <1>2
<1>6. k = [j \in 1 .. Len(g) |-> k[j]] /\ \A j \in 1 .. Len(g) : k[j] = r[j]
  BY <1>3, <1>5
<1>7. k = r
  BY <1>4, <1>6
<1> QED BY <1>7 DEF r

\* The parser within the headers: h are those before this one, n and v are what it has of
\* the name and the value of this one.
At(st, m, d, h, n, v) == In(st, m, d, Append(h, [name |-> n, value |-> v]))

\* A character of the name of the header in progress.
LEMMA FedName ==
    ASSUME NEW m, NEW d, NEW h \in Seq(Pairs), NEW n \in Seq(Characters), NEW v \in Seq(Characters),
           NEW c \in NameTokens
    PROVE  Fed(At("header_name", m, d, h, n, v), c) = At("header_name", m, d, h, Append(n, c), v)
<1> DEFINE g == Append(h, [name |-> n, value |-> v])
           p == In("header_name", m, d, g)
<1>0. c \in Characters
  BY Apart
<1>1. p.state = "header_name" /\ p.headers = g
  BY DEF In
<1>2. NextState(p, c) = "header_name"
  BY <1>1, Apart DEF NextState, InHeaders, HeaderStates, NameChar
<1> DEFINE k == [g EXCEPT ![Len(g)].name = Append(@, c)]
<1>9. g = Append(h, [name |-> n, value |-> v])
  OBVIOUS
<1> HIDE DEF g
<1>3. Stored(p, c) = [p EXCEPT !.headers = k]
  BY <1>1, <1>2 DEF Stored
<1> HIDE DEF k
<1>4. Fed(p, c) = In("header_name", m, d, k)
  BY <1>2, <1>3 DEF Fed, In
<1> DEFINE a == [name |-> n, value |-> v]
           z == [name |-> Append(n, c), value |-> v]
<1>5. a \in Pairs /\ z \in Pairs
  BY <1>0 DEF Pairs
<1>6. g[Len(g)] = a
  BY <1>5, <1>9, AppendProperties
<1>7. z = [a EXCEPT !.name = Append(@, c)]
  <2> DEFINE w == Append(n, c)
  <2>1. w = Append(a.name, c)
    OBVIOUS
  <2> HIDE DEF w
  <2>2. [name |-> w, value |-> v] = [a EXCEPT !.name = w]
    OBVIOUS
  <2>3. z = [name |-> w, value |-> v]
    BY DEF w
  <2> HIDE DEF a, z
  <2>4. z = [a EXCEPT !.name = w]
    BY <2>2, <2>3
  <2> QED BY <2>1, <2>4
<1> HIDE DEF a, z
<1>8. k = [j \in DOMAIN g |-> IF j = Len(g) THEN z ELSE g[j]]
  BY <1>6, <1>7 DEF k
<1>10. k = Append(h, z)
  <2>1. g = Append(h, a)
    BY <1>9 DEF a
  <2>2. g \in Seq(Pairs)
    BY <1>5, <2>1
  <2>3. k \in [DOMAIN g -> Pairs] /\ \A j \in DOMAIN g : k[j] = IF j = Len(g) THEN z ELSE g[j]
    BY <1>5, <1>8, <2>2
  <2> HIDE <1>8
  <2> QED BY <1>5, <2>1, <2>3, ChangeLast
<1> QED BY <1>4, <1>10 DEF At, g, z, a

\* A character of its value.
LEMMA FedValue ==
    ASSUME NEW st \in {"header_lws", "header_value"}, NEW m, NEW d, NEW h \in Seq(Pairs),
           NEW n \in Seq(Characters), NEW v \in Seq(Characters),
           NEW c \in Visible, st = "header_lws" => c # "sp"
    PROVE  Fed(At(st, m, d, h, n, v), c) = At("header_value", m, d, h, n, Append(v, c))
<1> DEFINE g == Append(h, [name |-> n, value |-> v])
           p == In(st, m, d, g)
<1>0. c \in Characters
  BY Apart
<1>1. p.state = st /\ p.headers = g
  BY DEF In
<1>2. NextState(p, c) = "header_value"
  BY <1>1 DEF NextState, InHeaders, HeaderStates, Visible, Printable, Controls, Blank, NameChar
<1> DEFINE k == [g EXCEPT ![Len(g)].value = Append(@, c)]
<1>9. g = Append(h, [name |-> n, value |-> v])
  OBVIOUS
<1> HIDE DEF g
<1>3. Stored(p, c) = [p EXCEPT !.headers = k]
  BY <1>1, <1>2 DEF Stored
<1> HIDE DEF k
<1>4. Fed(p, c) = In("header_value", m, d, k)
  BY <1>2, <1>3 DEF Fed, In
<1> DEFINE a == [name |-> n, value |-> v]
           z == [name |-> n, value |-> Append(v, c)]
<1>5. a \in Pairs /\ z \in Pairs
  BY <1>0 DEF Pairs
<1>6. g[Len(g)] = a
  BY <1>5, <1>9, AppendProperties
<1>7. z = [a EXCEPT !.value = Append(@, c)]
  <2> DEFINE w == Append(v, c)
  <2>1. w = Append(a.value, c)
    OBVIOUS
  <2> HIDE DEF w
  <2>2. [name |-> n, value |-> w] = [a EXCEPT !.value = w]
    OBVIOUS
  <2>3. z = [name |-> n, value |-> w]
    BY DEF w
  <2> HIDE DEF a, z
  <2>4. z = [a EXCEPT !.value = w]
    BY <2>2, <2>3
  <2> QED BY <2>1, <2>4
<1> HIDE DEF a, z
<1>8. k = [j \in DOMAIN g |-> IF j = Len(g) THEN z ELSE g[j]]
  BY <1>6, <1>7 DEF k
<1>10. k = Append(h, z)
  <2>1. g = Append(h, a)
    BY <1>9 DEF a
  <2>2. g \in Seq(Pairs)
    BY <1>5, <2>1
  <2>3. k \in [DOMAIN g -> Pairs] /\ \A j \in DOMAIN g : k[j] = IF j = Len(g) THEN z ELSE g[j]
    BY <1>5, <1>8, <2>2
  <2> HIDE <1>8
  <2> QED BY <1>5, <2>1, <2>3, ChangeLast
<1> QED BY <1>4, <1>10 DEF At, g, z, a

-----------------------------------------------------------------------------
(* Runs of characters *)

Pre(x, i) == SubSeq(x, 1, i)

\* A sequence is each of its prefixes and one element more.
LEMMA PrefixByPrefix ==
    ASSUME NEW S, NEW x \in Seq(S)
    PROVE  /\ Pre(x, 0) = <<>> /\ Pre(x, Len(x)) = x
           /\ \A i \in 0 .. Len(x) : Pre(x, i) \in Seq(S)
           /\ \A i \in 1 .. Len(x) : x[i] \in S /\ Pre(x, i) = Append(Pre(x, i - 1), x[i])
<1>1. Pre(x, 0) = <<>>
  BY SubSeqProperties DEF Pre
<1>2. Pre(x, Len(x)) = x
  BY SubSeqProperties DEF Pre
<1>3. \A i \in 0 .. Len(x) : Pre(x, i) \in Seq(S) /\ Len(Pre(x, i)) = i
                             /\ \A j \in 1 .. i : Pre(x, i)[j] = x[j]
  BY SubSeqProperties DEF Pre
<1>4. ASSUME NEW i \in 1 .. Len(x)
      PROVE  x[i] \in S /\ Pre(x, i) = Append(Pre(x, i - 1), x[i])
  <2>0. x[i] \in S
    OBVIOUS
  <2> DEFINE a == Pre(x, i)
             b == Pre(x, i - 1)
             e == Append(b, x[i])
  <2>1. a \in Seq(S) /\ Len(a) = i /\ \A j \in 1 .. i : a[j] = x[j]
    BY <1>3
  <2>2. b \in Seq(S) /\ Len(b) = i - 1 /\ \A j \in 1 .. i - 1 : b[j] = x[j]
    <3>1. i - 1 \in 0 .. Len(x)
      OBVIOUS
    <3> QED BY <1>3, <3>1
  <2> HIDE DEF a, b
  <2>3. e \in Seq(S) /\ Len(e) = i /\ e[i] = x[i] /\ \A j \in 1 .. i - 1 : e[j] = b[j]
    <3>1. e \in Seq(S) /\ Len(e) = Len(b) + 1 /\ e[Len(b) + 1] = x[i]
          /\ \A j \in 1 .. Len(b) : e[j] = b[j]
      BY <2>0, <2>2, AppendProperties
    <3> QED BY <2>2, <3>1
  <2> HIDE DEF e
  <2>4. \A j \in 1 .. i : a[j] = e[j]
    BY <2>1, <2>2, <2>3
  <2>5. a = e
    BY <2>1, <2>3, <2>4, SeqEqual
  <2> QED BY <2>0, <2>5 DEF a, b, e
<1>5. \A i \in 0 .. Len(x) : Pre(x, i) \in Seq(S)
  BY <1>3
<1>6. \A i \in 1 .. Len(x) : x[i] \in S /\ Pre(x, i) = Append(Pre(x, i - 1), x[i])
  BY <1>4
<1> QED BY <1>1, <1>2, <1>5, <1>6

\* The parts of the request line.
LEMMA ReadsMethod ==
    ASSUME NEW x \in Seq(NameTokens), x # <<>>
    PROVE  Reads(NewParser, x, In("method", x, <<>>, <<>>))
<1> DEFINE P == [i \in 0 .. Len(x) |->
                   In(IF i = 0 THEN "method_start" ELSE "method", Pre(x, i), <<>>, <<>>)]
<1>0. x \in Seq(Characters) /\ Len(x) \in Nat /\ Len(x) # 0 /\ <<>> \in Seq(Characters) /\ <<>> \in Seq(Pairs)
  BY Apart
<1>1. Pre(x, 0) = <<>> /\ Pre(x, Len(x)) = x
  BY PrefixByPrefix, Zenon
<1>2. \A i \in 0 .. Len(x) : Pre(x, i) \in Seq(Characters)
  BY <1>0, PrefixByPrefix, Zenon
<1>3. \A i \in 1 .. Len(x) : x[i] \in NameTokens /\ Pre(x, i) = Append(Pre(x, i - 1), x[i])
  BY PrefixByPrefix, Zenon
<1>4. P \in [0 .. Len(x) -> Parsers]
  <2>1. ASSUME NEW i \in 0 .. Len(x) PROVE P[i] \in Parsers
    <3>1. (IF i = 0 THEN "method_start" ELSE "method") \in ParserStates
      BY DEF ParserStates
    <3> QED BY <1>0, <1>2, <3>1, InIsParser DEF Pairs
  <2> QED BY <2>1
<1>5. P[0] = NewParser /\ P[Len(x)] = In("method", x, <<>>, <<>>)
  <2>1. P[0] = In("method_start", <<>>, <<>>, <<>>)
    BY <1>0, <1>1
  <2>2. P[Len(x)] = In("method", x, <<>>, <<>>)
    BY <1>0, <1>1
  <2> QED BY <2>1, <2>2 DEF In, NewParser
<1>6. ASSUME NEW i \in 1 .. Len(x)
      PROVE  ~ Decided(P[i - 1]) /\ P[i] = Fed(P[i - 1], x[i])
  <2> DEFINE st == IF i - 1 = 0 THEN "method_start" ELSE "method"
             q == Pre(x, i - 1)
  <2>1. P[i - 1] = In(st, q, <<>>, <<>>)
    <3>1. i - 1 \in 0 .. Len(x)
      OBVIOUS
    <3> QED BY <3>1
  <2>2. P[i] = In("method", Append(q, x[i]), <<>>, <<>>)
    <3>1. P[i] = In("method", Pre(x, i), <<>>, <<>>)
      BY <1>0
    <3> QED BY <1>3, <3>1, Zenon
  <2>3. st \in {"method_start", "method"}
    OBVIOUS
  <2> HIDE DEF P, st, q
  <2>4. ~ Decided(In(st, q, <<>>, <<>>))
    BY <2>3 DEF Decided, In
  <2>5. Fed(In(st, q, <<>>, <<>>), x[i]) = In("method", Append(q, x[i]), <<>>, <<>>)
    BY <1>3, <2>3, FedMethod
  <2> QED BY <2>1, <2>2, <2>4, <2>5
<1> HIDE DEF P
<1> QED BY <1>4, <1>5, <1>6 DEF Reads

\* The destination, character by character.
LEMMA ReadsDestination ==
    ASSUME NEW m \in Seq(Characters), NEW x \in Seq(Visible \ {"sp"})
    PROVE  Reads(In("uri", m, <<>>, <<>>), x, In("uri", m, x, <<>>))
<1> DEFINE P == [i \in 0 .. Len(x) |-> In("uri", m, Pre(x, i), <<>>)]
<1>0. x \in Seq(Characters) /\ Len(x) \in Nat /\ <<>> \in Seq(Pairs)
  BY Apart
<1>1. Pre(x, 0) = <<>> /\ Pre(x, Len(x)) = x
  BY PrefixByPrefix, Zenon
<1>2. \A i \in 0 .. Len(x) : Pre(x, i) \in Seq(Characters)
  BY <1>0, PrefixByPrefix, Zenon
<1>3. \A i \in 1 .. Len(x) : x[i] \in Visible \ {"sp"} /\ Pre(x, i) = Append(Pre(x, i - 1), x[i])
  BY PrefixByPrefix, Zenon
<1>4. P \in [0 .. Len(x) -> Parsers]
  <2>1. ASSUME NEW i \in 0 .. Len(x) PROVE P[i] \in Parsers
    <3>1. "uri" \in ParserStates
      BY DEF ParserStates
    <3> QED BY <1>0, <1>2, <3>1, InIsParser DEF Pairs
  <2> QED BY <2>1
<1>5. P[0] = In("uri", m, <<>>, <<>>) /\ P[Len(x)] = In("uri", m, x, <<>>)
  BY <1>0, <1>1
<1>6. ASSUME NEW i \in 1 .. Len(x)
      PROVE  ~ Decided(P[i - 1]) /\ P[i] = Fed(P[i - 1], x[i])
  <2> DEFINE q == Pre(x, i - 1)
  <2>1. P[i - 1] = In("uri", m, q, <<>>)
    <3>1. i - 1 \in 0 .. Len(x)
      OBVIOUS
    <3> QED BY <3>1
  <2>2. P[i] = In("uri", m, Append(q, x[i]), <<>>)
    <3>1. P[i] = In("uri", m, Pre(x, i), <<>>)
      BY <1>0
    <3> QED BY <1>3, <3>1, Zenon
  <2> HIDE DEF P, q
  <2>4. ~ Decided(In("uri", m, q, <<>>))
    BY DEF Decided, In
  <2>5. Fed(In("uri", m, q, <<>>), x[i]) = In("uri", m, Append(q, x[i]), <<>>)
    BY <1>3, FedUri
  <2> QED BY <2>1, <2>2, <2>4, <2>5
<1> HIDE DEF P
<1> QED BY <1>4, <1>5, <1>6 DEF Reads

\* The rest of the request line after its method and destination.
VersionLine == <<"sp", "H", "T", "T", "P", "/", "1", ".", "1", "cr", "lf">>

\* That line is read as a whole.
LEMMA ReadsVersion ==
    ASSUME NEW m \in Seq(Characters), NEW d \in Seq(Characters)
    PROVE  Reads(In("uri", m, d, <<>>), VersionLine, In("header_line_start", m, d, <<>>))
<1> DEFINE st == <<"uri", "http_version_h", "http_version_t_1", "http_version_t_2",
                   "http_version_p", "http_version_slash", "http_version_major_start",
                   "http_version_major", "http_version_minor_start", "http_version_minor",
                   "expecting_newline_1", "header_line_start">>
           P == [i \in 0 .. 11 |-> In(st[i + 1], m, d, <<>>)]
<1>0. <<>> \in Seq(Pairs)
  OBVIOUS
<1>1. \A i \in 0 .. 11 : st[i + 1] \in ParserStates
  BY DEF ParserStates, HeaderStates
<1>2. \A i \in 1 .. 11 :
        /\ NextState(In(st[i], m, d, <<>>), VersionLine[i]) = st[i + 1]
        /\ st[i] \notin {"true", "false"} /\ st[i + 1] \notin Storing
        /\ st[i] # "uri" \/ st[i + 1] # "uri"
  <2> DEFINE h == <<>>
             Line(i) == /\ NextState(In(st[i], m, d, h), VersionLine[i]) = st[i + 1]
                        /\ st[i] \notin {"true", "false"} /\ st[i + 1] \notin Storing
                        /\ st[i] # "uri" \/ st[i + 1] # "uri"
  <2> HIDE DEF h
  <2>1. Line(1) /\ Line(2) /\ Line(3) /\ Line(4) /\ Line(5) /\ Line(6)
    BY NextPlain DEF VersionLine, Storing
  <2>2. Line(7) /\ Line(8) /\ Line(9) /\ Line(10) /\ Line(11)
    BY NextPlain DEF VersionLine, Storing
  <2>3. \A i \in 1 .. 11 : i = 1 \/ i = 2 \/ i = 3 \/ i = 4 \/ i = 5 \/ i = 6 \/ i = 7 \/ i = 8
                           \/ i = 9 \/ i = 10 \/ i = 11
    OBVIOUS
  <2> HIDE DEF Line
  <2>4. \A i \in 1 .. 11 : Line(i)
    BY <2>1, <2>2, <2>3
  <2> QED BY <2>4 DEF Line, h
<1>3. Len(VersionLine) = 11
  BY DEF VersionLine
<1>4. P[0] = In("uri", m, d, <<>>) /\ P[11] = In("header_line_start", m, d, <<>>)
  OBVIOUS
<1> HIDE DEF st
<1>5. P \in [0 .. 11 -> Parsers]
  <2>1. ASSUME NEW i \in 0 .. 11 PROVE P[i] \in Parsers
    BY <1>0, <1>1, InIsParser DEF Pairs
  <2> QED BY <2>1
<1>6. ASSUME NEW i \in 1 .. 11
      PROVE  ~ Decided(P[i - 1]) /\ P[i] = Fed(P[i - 1], VersionLine[i])
  <2>1. P[i - 1] = In(st[i], m, d, <<>>) /\ P[i] = In(st[i + 1], m, d, <<>>)
    OBVIOUS
  <2> HIDE DEF P
  <2>2. ~ Decided(In(st[i], m, d, <<>>))
    BY <1>2 DEF Decided, In
  <2>3. Fed(In(st[i], m, d, <<>>), VersionLine[i]) = In(st[i + 1], m, d, <<>>)
    BY <1>2, FedPlain, SMTT(30)
  <2> QED BY <2>1, <2>2, <2>3
<1> HIDE DEF P
<1> QED BY <1>3, <1>4, <1>5, <1>6 DEF Reads

\* It is a parser, with the types of its fields.
LEMMA AtIsParser ==
    ASSUME NEW st \in HeaderStates, NEW m \in Seq(Characters), NEW d \in Seq(Characters),
           NEW h \in Seq(Pairs), NEW n \in Seq(Characters), NEW v \in Seq(Characters)
    PROVE  At(st, m, d, h, n, v) \in Parsers
<1>1. [name |-> n, value |-> v] \in Pairs
  BY DEF Pairs
<1>2. Append(h, [name |-> n, value |-> v]) \in Seq(Pairs)
  BY <1>1
<1>3. st \in ParserStates
  BY DEF ParserStates
<1> QED BY <1>2, <1>3, InIsParser DEF At, Pairs

\* The parts of a header.
LEMMA ReadsName ==
    ASSUME NEW m \in Seq(Characters), NEW d \in Seq(Characters), NEW h \in Seq(Pairs),
           NEW x \in Seq(NameTokens), x # <<>>
    PROVE  Reads(In("header_line_start", m, d, h), x, At("header_name", m, d, h, x, <<>>))
<1> DEFINE P == [i \in 0 .. Len(x) |-> IF i = 0 THEN In("header_line_start", m, d, h)
                                       ELSE At("header_name", m, d, h, Pre(x, i), <<>>)]
<1>0. x \in Seq(Characters) /\ Len(x) \in Nat /\ Len(x) # 0 /\ <<>> \in Seq(Characters)
  BY Apart
<1>1. Pre(x, 0) = <<>> /\ Pre(x, Len(x)) = x
  BY PrefixByPrefix, Zenon
<1>2. \A i \in 0 .. Len(x) : Pre(x, i) \in Seq(Characters)
  BY <1>0, PrefixByPrefix, Zenon
<1>3. \A i \in 1 .. Len(x) : x[i] \in NameTokens /\ Pre(x, i) = Append(Pre(x, i - 1), x[i])
  BY PrefixByPrefix, Zenon
<1>4. P \in [0 .. Len(x) -> Parsers]
  <2>1. ASSUME NEW i \in 0 .. Len(x) PROVE P[i] \in Parsers
    <3>1. "header_name" \in HeaderStates /\ "header_line_start" \in ParserStates
      BY DEF ParserStates, HeaderStates
    <3>2. In("header_line_start", m, d, h) \in Parsers
      BY <3>1, InIsParser DEF Pairs
    <3>3. At("header_name", m, d, h, Pre(x, i), <<>>) \in Parsers
      BY <1>0, <1>2, <3>1, AtIsParser
    <3> QED BY <3>2, <3>3
  <2> QED BY <2>1
<1>5. /\ P[0] = In("header_line_start", m, d, h)
      /\ P[Len(x)] = At("header_name", m, d, h, x, <<>>)
  BY <1>0, <1>1
<1>6. ASSUME NEW i \in 1 .. Len(x)
      PROVE  ~ Decided(P[i - 1]) /\ P[i] = Fed(P[i - 1], x[i])
  <2>0. P[i] = At("header_name", m, d, h, Pre(x, i), <<>>) /\ x[i] \in NameTokens
    BY <1>0, <1>3
  <2>1. CASE i = 1
    <3>1. P[i - 1] = In("header_line_start", m, d, h) /\ i - 1 = 0
      BY <2>1
    <3> HIDE DEF P
    <3>2. Pre(x, i) = Append(<<>>, x[i])
      BY <1>1, <1>3, <3>1, Zenon
    <3>3. Pre(x, i) = <<x[i]>>
      BY <3>2
    <3>4. ~ Decided(In("header_line_start", m, d, h))
      BY DEF Decided, In
    <3>5. Fed(In("header_line_start", m, d, h), x[i])
            = In("header_name", m, d, Append(h, [name |-> <<x[i]>>, value |-> <<>>]))
      BY <2>0, FedNewName
    <3> QED BY <2>0, <3>1, <3>3, <3>4, <3>5 DEF At
  <2>2. CASE i # 1
    <3> DEFINE n == Pre(x, i - 1)
    <3>1. P[i - 1] = At("header_name", m, d, h, n, <<>>)
      BY <2>2
    <3>2. Pre(x, i) = Append(n, x[i])
      BY <1>3
    <3>3. n \in Seq(Characters)
      <4>1. i - 1 \in 0 .. Len(x)
        OBVIOUS
      <4> QED BY <1>2, <4>1
    <3> HIDE DEF P, n
    <3>4. ~ Decided(At("header_name", m, d, h, n, <<>>))
      BY DEF Decided, In, At
    <3>5. Fed(At("header_name", m, d, h, n, <<>>), x[i])
            = At("header_name", m, d, h, Append(n, x[i]), <<>>)
      <4>1. <<>> \in Seq(Characters) /\ x[i] \in NameTokens /\ n \in Seq(Characters)
        BY <1>0, <2>0, <3>3
      <4>2. \A v \in Seq(Characters), c \in NameTokens :
              Fed(At("header_name", m, d, h, n, v), c) = At("header_name", m, d, h, Append(n, c), v)
        BY <4>1, FedName
      <4> HIDE <1>0
      <4>3. \A c \in NameTokens : Fed(At("header_name", m, d, h, n, <<>>), c) = At("header_name", m, d, h, Append(n, c), <<>>)
        BY <4>1, <4>2, Zenon
      <4> QED BY <4>1, <4>3, Zenon
    <3> QED BY <2>0, <3>1, <3>2, <3>4, <3>5
  <2> QED BY <2>1, <2>2
<1> HIDE DEF P
<1> QED BY <1>4, <1>5, <1>6 DEF Reads

\* The text of a value, or of a line that continues one.
LEMMA ReadsText ==
    ASSUME NEW st \in {"header_lws", "header_value"}, NEW m \in Seq(Characters),
           NEW d \in Seq(Characters), NEW h \in Seq(Pairs), NEW n \in Seq(Characters),
           NEW v \in Seq(Characters), NEW x \in Seq(Visible),
           st = "header_lws" => x = <<>> \/ x[1] # "sp"
    PROVE  Reads(At(st, m, d, h, n, v), x,
                 At(IF x = <<>> THEN st ELSE "header_value", m, d, h, n, v \o x))
<1> DEFINE P == [i \in 0 .. Len(x) |->
                   At(IF i = 0 THEN st ELSE "header_value", m, d, h, n, v \o Pre(x, i))]
<1>0. x \in Seq(Characters) /\ Len(x) \in Nat /\ (Len(x) = 0 <=> x = <<>>)
  BY Apart
<1>1. Pre(x, 0) = <<>> /\ Pre(x, Len(x)) = x
  BY PrefixByPrefix, Zenon
<1>2. \A i \in 0 .. Len(x) : Pre(x, i) \in Seq(Characters)
  BY <1>0, PrefixByPrefix, Zenon
<1>3. \A i \in 1 .. Len(x) : x[i] \in Visible /\ Pre(x, i) = Append(Pre(x, i - 1), x[i])
  BY PrefixByPrefix, Zenon
<1>4. P \in [0 .. Len(x) -> Parsers]
  <2>1. ASSUME NEW i \in 0 .. Len(x) PROVE P[i] \in Parsers
    <3> DEFINE s == IF i = 0 THEN st ELSE "header_value"
               w == v \o Pre(x, i)
    <3>1. s \in HeaderStates
      BY DEF HeaderStates
    <3>2. w \in Seq(Characters)
      BY <1>2
    <3>3. P[i] = At(s, m, d, h, n, w)
      OBVIOUS
    <3> HIDE DEF s, w, P
    <3> QED BY <3>1, <3>2, <3>3, AtIsParser
  <2> QED BY <2>1
<1>5. /\ P[0] = At(st, m, d, h, n, v)
      /\ P[Len(x)] = At(IF x = <<>> THEN st ELSE "header_value", m, d, h, n, v \o x)
  <2>1. v \o <<>> = v
    OBVIOUS
  <2>2. P[0] = At(st, m, d, h, n, v \o Pre(x, 0))
    BY <1>0
  <2>3. P[Len(x)] = At(IF Len(x) = 0 THEN st ELSE "header_value", m, d, h, n, v \o Pre(x, Len(x)))
    BY <1>0
  <2> HIDE DEF P
  <2> QED BY <1>0, <1>1, <2>1, <2>2, <2>3
<1>6. ASSUME NEW i \in 1 .. Len(x)
      PROVE  ~ Decided(P[i - 1]) /\ P[i] = Fed(P[i - 1], x[i])
  <2> DEFINE s == IF i - 1 = 0 THEN st ELSE "header_value"
             w == v \o Pre(x, i - 1)
  <2>1. i - 1 \in 0 .. Len(x) /\ i # 0
    OBVIOUS
  <2>2. P[i - 1] = At(s, m, d, h, n, w)
    BY <2>1
  <2>3. w \in Seq(Characters) /\ Pre(x, i - 1) \in Seq(Characters)
    BY <1>2, <2>1
  <2>4. x[i] \in Visible /\ x[i] \in Characters
    BY <1>3, Apart
  <2>5. v \o Pre(x, i) = Append(w, x[i])
    <3>1. Pre(x, i) = Append(Pre(x, i - 1), x[i])
      BY <1>3
    <3>2. v \o Append(Pre(x, i - 1), x[i]) = Append(w, x[i])
      BY <2>3, <2>4, AppendAfter, SMTT(30)
    <3> QED BY <3>1, <3>2
  <2>6. P[i] = At("header_value", m, d, h, n, Append(w, x[i]))
    <3>1. P[i] = At("header_value", m, d, h, n, v \o Pre(x, i))
      BY <2>1
    <3> QED BY <2>5, <3>1
  <2>7. s \in {"header_lws", "header_value"} /\ (s = "header_lws" => x[i] # "sp")
    BY <1>0
  <2> HIDE DEF P, s, w
  <2>8. ~ Decided(At(s, m, d, h, n, w))
    BY <2>7 DEF Decided, In, At
  <2>9. Fed(At(s, m, d, h, n, w), x[i]) = At("header_value", m, d, h, n, Append(w, x[i]))
    BY <2>3, <2>4, <2>7, FedValue
  <2> QED BY <2>2, <2>6, <2>8, <2>9
<1> HIDE DEF P
<1> QED BY <1>4, <1>5, <1>6 DEF Reads

\* One more character after a text.
LEMMA ReadsMore ==
    ASSUME NEW p, NEW x \in Seq(Characters), NEW q, NEW c \in Characters, NEW s \in Parsers,
           Reads(p, x, q), q \in Parsers, ~ Decided(q), s = Fed(q, c)
    PROVE  Reads(p, Append(x, c), s)
<1>1. Reads(q, <<c>>, s)
  BY ReadsOne
<1>2. <<c>> \in Seq(Characters) /\ Append(x, c) = x \o <<c>>
  BY AppendIsConcat
<1> QED BY <1>1, <1>2, ReadsThen

\* Two characters.
LEMMA ReadsTwo ==
    ASSUME NEW p \in Parsers, NEW c \in Characters, NEW q \in Parsers, NEW e \in Characters,
           NEW s \in Parsers,
           ~ Decided(p), q = Fed(p, c), ~ Decided(q), s = Fed(q, e)
    PROVE  Reads(p, <<c, e>>, s)
<1>1. Reads(p, <<c>>, q)
  BY ReadsOne
<1>2. <<c>> \in Seq(Characters) /\ Append(<<c>>, e) = <<c, e>>
  BY OneMore
<1> QED BY <1>1, <1>2, ReadsMore

\* A line end within the headers.
LEMMA ReadsLineEnd ==
    ASSUME NEW st \in {"header_lws", "header_value"}, NEW m \in Seq(Characters),
           NEW d \in Seq(Characters), NEW h \in Seq(Pairs)
    PROVE  Reads(In(st, m, d, h), <<"cr", "lf">>, In("header_line_start", m, d, h))
<1> DEFINE p == In(st, m, d, h)
           q == In("expecting_newline_2", m, d, h)
           s == In("header_line_start", m, d, h)
<1>1. {st, "expecting_newline_2", "header_line_start"} \subseteq ParserStates
  BY DEF ParserStates, HeaderStates
<1>2. p \in Parsers /\ q \in Parsers /\ s \in Parsers
  BY <1>1, InIsParser DEF Pairs
<1>3. ~ Decided(p) /\ ~ Decided(q)
  BY DEF Decided, In
<1>4. q = Fed(p, "cr") /\ s = Fed(q, "lf")
  BY NextInHeaders, FedPlain DEF Storing
<1>5. "cr" \in Characters /\ "lf" \in Characters
  BY Apart
<1> QED BY <1>2, <1>3, <1>4, <1>5, ReadsTwo

\* The blanks a continued line starts with.
LEMMA ReadsBlanks ==
    ASSUME NEW m \in Seq(Characters), NEW d \in Seq(Characters), NEW h \in Seq(Pairs), h # <<>>,
           NEW x \in Seq({"sp", "tab"}), x # <<>>
    PROVE  Reads(In("header_line_start", m, d, h), x, In("header_lws", m, d, h))
<1> DEFINE P == [i \in 0 .. Len(x) |->
                   In(IF i = 0 THEN "header_line_start" ELSE "header_lws", m, d, h)]
<1>0. Len(x) \in Nat /\ Len(x) # 0
  OBVIOUS
<1>1. P \in [0 .. Len(x) -> Parsers]
  <2>1. {"header_line_start", "header_lws"} \subseteq ParserStates
    BY DEF ParserStates, HeaderStates
  <2>2. ASSUME NEW i \in 0 .. Len(x) PROVE P[i] \in Parsers
    BY <2>1, InIsParser DEF Pairs
  <2> QED BY <2>2
<1>2. P[0] = In("header_line_start", m, d, h) /\ P[Len(x)] = In("header_lws", m, d, h)
  BY <1>0
<1>3. ASSUME NEW i \in 1 .. Len(x)
      PROVE  ~ Decided(P[i - 1]) /\ P[i] = Fed(P[i - 1], x[i])
  <2> DEFINE st == IF i - 1 = 0 THEN "header_line_start" ELSE "header_lws"
  <2>1. P[i - 1] = In(st, m, d, h) /\ P[i] = In("header_lws", m, d, h)
    OBVIOUS
  <2>2. x[i] \in {"sp", "tab"}
    OBVIOUS
  <2>3. st \in {"header_line_start", "header_lws"}
    OBVIOUS
  <2> HIDE DEF P, st
  <2>4. NextState(In(st, m, d, h), x[i]) = "header_lws"
    BY <2>2, <2>3, NextInHeaders
  <2>5. ~ Decided(In(st, m, d, h))
    BY <2>3 DEF Decided, In
  <2>6. Fed(In(st, m, d, h), x[i]) = In("header_lws", m, d, h)
    BY <2>4, FedPlain DEF Storing
  <2> QED BY <2>1, <2>5, <2>6
<1> HIDE DEF P
<1> QED BY <1>1, <1>2, <1>3 DEF Reads

\* The line end, the blanks and the text of a line that goes on with a value.
LEMMA ReadsFold ==
    ASSUME NEW st \in {"header_lws", "header_value"}, NEW m \in Seq(Characters),
           NEW d \in Seq(Characters), NEW h \in Seq(Pairs), NEW n \in Seq(Characters),
           NEW v \in Seq(Characters), NEW f \in Folds
    PROVE  Reads(At(st, m, d, h, n, v), FoldText(f),
                 At(IF f.text = <<>> THEN "header_lws" ELSE "header_value", m, d, h, n, v \o f.text))
<1> DEFINE a == [name |-> n, value |-> v]
           g == Append(h, a)
<1>1. a \in Pairs
  BY DEF Pairs
<1> HIDE DEF a
<1>2. g \in Seq(Pairs) /\ g # <<>>
  BY <1>1, AppendProperties
<1>3. \A s : At(s, m, d, h, n, v) = In(s, m, d, g)
  BY DEF At, a
<1> HIDE DEF g
<1>4. /\ f.blanks \in Seq({"sp", "tab"}) /\ f.blanks # <<>>
      /\ f.text \in Seq(Visible) /\ (f.text = <<>> \/ f.text[1] # "sp")
  BY DEF Folds
<1>5. Reads(At(st, m, d, h, n, v), <<"cr", "lf">>, In("header_line_start", m, d, g))
  BY <1>2, <1>3, ReadsLineEnd
<1>6. Reads(In("header_line_start", m, d, g), f.blanks, At("header_lws", m, d, h, n, v))
  BY <1>2, <1>3, <1>4, ReadsBlanks
<1> DEFINE last == At(IF f.text = <<>> THEN "header_lws" ELSE "header_value", m, d, h, n, v \o f.text)
<1>7. Reads(At("header_lws", m, d, h, n, v), f.text, last)
  BY <1>4, ReadsText
<1>8. <<"cr", "lf">> \in Seq(Characters) /\ f.blanks \in Seq(Characters) /\ f.text \in Seq(Characters)
  <2>1. {"sp", "tab"} \subseteq Characters /\ Visible \subseteq Characters
    BY Apart
  <2>2. f.blanks \in Seq(Characters) /\ f.text \in Seq(Characters)
    BY <1>4, <2>1, Wider
  <2> QED BY <2>2, Apart
<1> HIDE DEF last
<1>9. Reads(At(st, m, d, h, n, v), <<"cr", "lf">> \o f.blanks, At("header_lws", m, d, h, n, v))
  BY <1>5, <1>6, <1>8, ReadsThen
<1>10. <<"cr", "lf">> \o f.blanks \in Seq(Characters)
  BY <1>8
<1>11. Reads(At(st, m, d, h, n, v), FoldText(f), last)
  BY <1>7, <1>8, <1>9, <1>10, ReadsThen DEF FoldText
<1> QED BY <1>11 DEF last

\* All lines of a value.
LEMMA ReadsValue ==
    ASSUME NEW m \in Seq(Characters), NEW d \in Seq(Characters), NEW h \in Seq(Pairs),
           NEW n \in Seq(Characters), NEW x \in Headers
    PROVE  /\ Value(x) \in Seq(Characters) /\ ValueText(x) \in Seq(Characters)
           /\ \E st \in {"header_lws", "header_value"} :
                Reads(At("header_value", m, d, h, n, <<>>), ValueText(x),
                      At(st, m, d, h, n, Value(x)))
<1> DEFINE fs == x.folds
           texts == [i \in DOMAIN fs |-> fs[i].text]
           lines == [i \in DOMAIN fs |-> FoldText(fs[i])]
<1>1. x.first \in Seq(Visible) /\ fs \in Seq(Folds)
  BY DEF Headers
<1>2. \A i \in DOMAIN fs : fs[i] \in Folds
  BY <1>1
<1>3. \A i \in DOMAIN fs : fs[i].text \in Seq(Characters) /\ FoldText(fs[i]) \in Seq(Characters)
  <2> SUFFICES ASSUME NEW i \in DOMAIN fs
               PROVE  fs[i].text \in Seq(Characters) /\ FoldText(fs[i]) \in Seq(Characters)
    OBVIOUS
  <2> DEFINE f == fs[i]
  <2>1. f \in Folds
    BY <1>2
  <2> HIDE DEF f
  <2>2. f.blanks \in Seq(Characters) /\ f.text \in Seq(Characters) /\ <<"cr", "lf">> \in Seq(Characters)
    <3>1. Visible \subseteq Characters /\ {"sp", "tab"} \subseteq Characters
      BY Apart
    <3>2. f.blanks \in Seq({"sp", "tab"}) /\ f.text \in Seq(Visible)
      BY <2>1 DEF Folds
    <3>3. f.blanks \in Seq(Characters) /\ f.text \in Seq(Characters)
      BY <3>1, <3>2, Wider
    <3>4. <<"cr", "lf">> \in Seq(Characters)
      BY Apart
    <3> QED BY <3>3, <3>4
  <2>3. FoldText(f) \in Seq(Characters)
    BY <2>2 DEF FoldText
  <2> QED BY <2>2, <2>3 DEF f
<1>4. /\ texts \in Seq(Seq(Characters)) /\ Len(texts) = Len(fs)
      /\ lines \in Seq(Seq(Characters)) /\ Len(lines) = Len(fs) /\ Len(fs) \in Nat
      /\ \A i \in 1 .. Len(fs) : texts[i] = fs[i].text /\ lines[i] = FoldText(fs[i])
  <2>1. Len(fs) \in Nat /\ DOMAIN fs = 1 .. Len(fs)
    BY <1>1
  <2>2. texts \in Seq(Seq(Characters)) /\ Len(texts) = Len(fs)
    BY <1>3, <2>1
  <2>3. lines \in Seq(Seq(Characters)) /\ Len(lines) = Len(fs)
    BY <1>3, <2>1
  <2>4. \A i \in 1 .. Len(fs) : texts[i] = fs[i].text /\ lines[i] = FoldText(fs[i])
    BY <2>1
  <2> QED BY <2>1, <2>2, <2>3, <2>4
<1>5. Value(x) = x.first \o FlattenSeq(texts) /\ ValueText(x) = x.first \o FlattenSeq(lines)
  BY DEF Value, ValueText
<1> HIDE DEF texts, lines, fs
<1>6. PICK F \in [0 .. Len(fs) -> Seq(Characters)] :
        /\ F[0] = <<>>
        /\ \A j \in 1 .. Len(fs) : F[j] = F[j - 1] \o texts[j]
        /\ FlattenSeq(texts) = F[Len(fs)]
  <2>1. \E F \in [0 .. Len(texts) -> Seq(Characters)] :
          /\ F[0] = <<>>
          /\ \A j \in 1 .. Len(texts) : F[j] = F[j - 1] \o texts[j]
          /\ FlattenSeq(texts) = F[Len(texts)]
    BY <1>4, Flattening
  <2> QED BY <1>4, <2>1
<1>7. FlattenSeq(lines) \in Seq(Characters)
  <2>1. \E G \in [0 .. Len(lines) -> Seq(Characters)] : FlattenSeq(lines) = G[Len(lines)]
    BY <1>4, Flattening
  <2> QED BY <1>4, <2>1, SMTT(30)
<1>8. x.first \in Seq(Characters) /\ FlattenSeq(texts) \in Seq(Characters)
  <2>1. Visible \subseteq Characters
    BY Apart
  <2>2. x.first \in Seq(Characters)
    BY <1>1, <2>1, Wider
  <2>3. F[Len(fs)] \in Seq(Characters)
    <3>1. Len(fs) \in Nat
      BY <1>4
    <3> QED BY <3>1
  <2> QED BY <1>6, <2>2, <2>3
<1> DEFINE stOf(j) == IF j = 0 THEN "header_value"
                      ELSE IF texts[j] = <<>> THEN "header_lws" ELSE "header_value"
           q == [j \in 0 .. Len(fs) |-> At(stOf(j), m, d, h, n, x.first \o F[j])]
<1>9. \A j \in 0 .. Len(fs) : stOf(j) \in {"header_lws", "header_value"}
  OBVIOUS
<1> HIDE DEF stOf
<1>10. ASSUME NEW j \in 1 .. Len(lines) PROVE Reads(q[j - 1], lines[j], q[j])
  <2> DEFINE v == x.first \o F[j - 1]
             f == fs[j]
             st == stOf(j - 1)
  <2>0. j \in 1 .. Len(fs) /\ j - 1 \in 0 .. Len(fs)
    BY <1>4
  <2>1. f \in Folds /\ lines[j] = FoldText(f) /\ texts[j] = f.text /\ f.text \in Seq(Characters)
    BY <1>1, <1>2, <1>3, <1>4, <2>0
  <2>2. F[j - 1] \in Seq(Characters) /\ v \in Seq(Characters)
    <3>1. F[j - 1] \in Seq(Characters)
      BY <1>6, <2>0
    <3> QED BY <1>8, <3>1
  <2>3. st \in {"header_lws", "header_value"}
    BY <1>9, <2>0
  <2>4. q[j - 1] = At(st, m, d, h, n, v)
    BY <2>0
  <2>5. x.first \o F[j] = v \o f.text
    <3>1. F[j] = F[j - 1] \o f.text
      BY <1>6, <2>0, <2>1
    <3>2. x.first \o (F[j - 1] \o f.text) = v \o f.text
      <4> DEFINE a == x.first
                 b == F[j - 1]
                 e == f.text
      <4>1. a \in Seq(Characters) /\ b \in Seq(Characters) /\ e \in Seq(Characters)
        BY <1>8, <2>1, <2>2
      <4> HIDE DEF a, b, e
      <4>3. a \o (b \o e) = a \o b \o e
        BY <4>1, Regrouped, SMTT(30)
      <4> QED BY <4>3 DEF a, b, e
    <3> QED BY <3>1, <3>2
  <2>6. q[j] = At(stOf(j), m, d, h, n, x.first \o F[j])
    BY <2>0
  <2>7. stOf(j) = IF f.text = <<>> THEN "header_lws" ELSE "header_value"
    BY <2>0, <2>1 DEF stOf
  <2> HIDE DEF q, v, st, f
  <2>8. Reads(At(st, m, d, h, n, v), FoldText(f),
              At(IF f.text = <<>> THEN "header_lws" ELSE "header_value", m, d, h, n, v \o f.text))
    BY <2>1, <2>2, <2>3, ReadsFold
  <2> QED BY <2>1, <2>4, <2>5, <2>6, <2>7, <2>8
<1>11. q[0] = At("header_value", m, d, h, n, x.first) /\ q[0] \in Parsers
  <2>1. x.first \o <<>> = x.first
    BY <1>8
  <2>2. stOf(0) = "header_value"
    BY DEF stOf
  <2>3. q[0] = At(stOf(0), m, d, h, n, x.first \o F[0])
    BY <1>4
  <2>4. q[0] = At("header_value", m, d, h, n, x.first)
    BY <1>6, <2>1, <2>2, <2>3
  <2>5. "header_value" \in HeaderStates
    BY DEF HeaderStates
  <2> HIDE DEF q
  <2> QED BY <1>8, <2>4, <2>5, AtIsParser
<1>12. q[Len(lines)] = At(stOf(Len(fs)), m, d, h, n, Value(x))
  BY <1>4, <1>5, <1>6
<1> HIDE DEF q
<1>13. Reads(At("header_value", m, d, h, n, x.first), FlattenSeq(lines),
             At(stOf(Len(fs)), m, d, h, n, Value(x)))
  BY <1>4, <1>10, <1>11, <1>12, ReadsPieces
<1>14. Reads(At("header_value", m, d, h, n, <<>>), x.first, At("header_value", m, d, h, n, x.first))
  <2> DEFINE none == <<>>
  <2>1. none \in Seq(Characters) /\ none \o x.first = x.first
    BY <1>8
  <2> HIDE DEF none
  <2>2. \A v \in Seq(Characters) : Reads(At("header_value", m, d, h, n, v), x.first,
          At(IF x.first = <<>> THEN "header_value" ELSE "header_value", m, d, h, n, v \o x.first))
    BY <1>1, ReadsText
  <2>3. Reads(At("header_value", m, d, h, n, none), x.first, At("header_value", m, d, h, n, x.first))
    BY <2>1, <2>2
  <2> QED BY <2>3 DEF none
<1>15. Reads(At("header_value", m, d, h, n, <<>>), ValueText(x), At(stOf(Len(fs)), m, d, h, n, Value(x)))
  BY <1>5, <1>7, <1>8, <1>13, <1>14, ReadsThen
<1>16. Value(x) \in Seq(Characters) /\ ValueText(x) \in Seq(Characters)
  <2>1. \A a, b \in Seq(Characters) : a \o b \in Seq(Characters)
    OBVIOUS
  <2> QED BY <1>5, <1>7, <1>8, <2>1, Zenon
<1>17. stOf(Len(fs)) \in {"header_lws", "header_value"}
  BY <1>4, <1>9
<1> QED BY <1>15, <1>16, <1>17, Zenon

\* What is between a name and its value.
LEMMA ReadsColon ==
    ASSUME NEW m \in Seq(Characters), NEW d \in Seq(Characters), NEW h \in Seq(Pairs),
           NEW n \in Seq(Characters), NEW v \in Seq(Characters)
    PROVE  Reads(At("header_name", m, d, h, n, v), <<":", "sp">>, At("header_value", m, d, h, n, v))
<1> DEFINE p == At("header_name", m, d, h, n, v)
           q == At("space_before_header_value", m, d, h, n, v)
           s == At("header_value", m, d, h, n, v)
<1>1. {"header_name", "space_before_header_value", "header_value"} \subseteq HeaderStates
  BY DEF HeaderStates
<1>2. p \in Parsers /\ q \in Parsers /\ s \in Parsers
  BY <1>1, AtIsParser
<1>3. ~ Decided(p) /\ ~ Decided(q)
  BY DEF Decided, In, At
<1>4. q = Fed(p, ":") /\ s = Fed(q, "sp")
  <2> DEFINE g == Append(h, [name |-> n, value |-> v])
  <2>1. \A k : /\ Fed(In("header_name", m, d, k), ":") = In("space_before_header_value", m, d, k)
               /\ Fed(In("space_before_header_value", m, d, k), "sp") = In("header_value", m, d, k)
    <3> SUFFICES ASSUME NEW k
                 PROVE  /\ Fed(In("header_name", m, d, k), ":") = In("space_before_header_value", m, d, k)
                        /\ Fed(In("space_before_header_value", m, d, k), "sp") = In("header_value", m, d, k)
      OBVIOUS
    <3>1. /\ NextState(In("header_name", m, d, k), ":") = "space_before_header_value"
          /\ NextState(In("space_before_header_value", m, d, k), "sp") = "header_value"
      BY NextInHeaders
    <3>2. Fed(In("header_name", m, d, k), ":") = In("space_before_header_value", m, d, k)
      BY <3>1, FedPlain DEF Storing
    <3>3. Fed(In("space_before_header_value", m, d, k), "sp") = In("header_value", m, d, k)
      BY <3>1, FedSpace
    <3> QED BY <3>2, <3>3
  <2> HIDE DEF g
  <2>2. /\ Fed(In("header_name", m, d, g), ":") = In("space_before_header_value", m, d, g)
        /\ Fed(In("space_before_header_value", m, d, g), "sp") = In("header_value", m, d, g)
    BY <2>1
  <2> QED BY <2>2 DEF At, g
<1>5. ":" \in Characters /\ "sp" \in Characters
  BY Apart
<1> QED BY <1>2, <1>3, <1>4, <1>5, ReadsTwo

PairOf(x) == [name |-> x.name, value |-> Value(x)]

\* A header, and all of them.
LEMMA ReadsHeader ==
    ASSUME NEW m \in Seq(Characters), NEW d \in Seq(Characters), NEW h \in Seq(Pairs),
           NEW x \in Headers
    PROVE  /\ HeaderText(x) \in Seq(Characters) /\ PairOf(x) \in Pairs
           /\ Reads(In("header_line_start", m, d, h), HeaderText(x),
                    In("header_line_start", m, d, Append(h, PairOf(x))))
<1> DEFINE n == x.name
           none == <<>>
           p == In("header_line_start", m, d, h)
           lineEnd == <<"cr", "lf">>
           colon == <<":", "sp">>
<1>1. n \in Seq(NameTokens) /\ n # <<>> /\ n \in Seq(Characters)
  <2>1. n \in Seq(NameTokens) /\ n # <<>>
    BY DEF Headers
  <2>2. NameTokens \subseteq Characters
    BY Apart
  <2> HIDE DEF n
  <2> QED BY <2>1, <2>2, Wider
<1>2. none \in Seq(Characters) /\ lineEnd \in Seq(Characters) /\ colon \in Seq(Characters)
  BY Apart
<1> HIDE DEF n
<1>3. Reads(p, n, At("header_name", m, d, h, n, none))
  BY <1>1, ReadsName
<1> HIDE DEF none
<1>4. Reads(At("header_name", m, d, h, n, none), colon, At("header_value", m, d, h, n, none))
  BY <1>1, <1>2, ReadsColon
<1>5. Value(x) \in Seq(Characters) /\ ValueText(x) \in Seq(Characters)
  BY <1>1, ReadsValue
<1>6. PICK st \in {"header_lws", "header_value"} :
        Reads(At("header_value", m, d, h, n, none), ValueText(x), At(st, m, d, h, n, Value(x)))
  BY <1>1, ReadsValue DEF none
<1>7. PairOf(x) \in Pairs
  BY <1>1, <1>5 DEF PairOf, Pairs, n
<1> DEFINE g == Append(h, PairOf(x))
<1>8. g \in Seq(Pairs)
  BY <1>7
<1>9. At(st, m, d, h, n, Value(x)) = In(st, m, d, g)
  BY DEF At, PairOf, n
<1> HIDE DEF g
<1>10. Reads(In(st, m, d, g), lineEnd, In("header_line_start", m, d, g))
  BY <1>8, ReadsLineEnd
<1> HIDE DEF p, colon, lineEnd
<1> DEFINE a == n \o colon
           b == a \o ValueText(x)
<1>11. a \in Seq(Characters) /\ b \in Seq(Characters) /\ b \o lineEnd \in Seq(Characters)
  BY <1>1, <1>2, <1>5
<1>12. HeaderText(x) = b \o lineEnd
  BY DEF HeaderText, n, colon, lineEnd
<1>13. Reads(p, a, At("header_value", m, d, h, n, none))
  BY <1>1, <1>2, <1>3, <1>4, ReadsThen
<1> HIDE DEF a
<1>14. Reads(p, b, At(st, m, d, h, n, Value(x)))
  BY <1>5, <1>6, <1>11, <1>13, ReadsThen
<1> HIDE DEF b
<1>15. Reads(p, b \o lineEnd, In("header_line_start", m, d, g))
  BY <1>2, <1>9, <1>10, <1>11, <1>14, ReadsThen
<1> QED BY <1>7, <1>11, <1>12, <1>15 DEF p, g

\* All headers of a request.
LEMMA ReadsHeaders ==
    ASSUME NEW m \in Seq(Characters), NEW d \in Seq(Characters), NEW hs \in Seq(Headers)
    PROVE  LET lines == [i \in DOMAIN hs |-> HeaderText(hs[i])]
               pairs == [i \in DOMAIN hs |-> [name |-> hs[i].name, value |-> Value(hs[i])]]
           IN  /\ FlattenSeq(lines) \in Seq(Characters) /\ pairs \in Seq(Pairs)
               /\ Reads(In("header_line_start", m, d, <<>>), FlattenSeq(lines),
                        In("header_line_start", m, d, pairs))
<1> DEFINE lines == [i \in DOMAIN hs |-> HeaderText(hs[i])]
           pairs == [i \in DOMAIN hs |-> [name |-> hs[i].name, value |-> Value(hs[i])]]
           q == [j \in 0 .. Len(hs) |-> In("header_line_start", m, d, Pre(pairs, j))]
<1>1. Len(hs) \in Nat /\ DOMAIN hs = 1 .. Len(hs) /\ \A i \in DOMAIN hs : hs[i] \in Headers
  OBVIOUS
<1>2. \A x \in Headers : HeaderText(x) \in Seq(Characters) /\ PairOf(x) \in Pairs
  <2>1. <<>> \in Seq(Pairs)
    OBVIOUS
  <2> QED BY <2>1, ReadsHeader
<1>3. pairs = [i \in DOMAIN hs |-> PairOf(hs[i])]
  BY DEF PairOf
<1>4. lines \in Seq(Seq(Characters)) /\ Len(lines) = Len(hs)
  BY <1>1, <1>2
<1>5. pairs \in Seq(Pairs) /\ Len(pairs) = Len(hs)
  <2> HIDE DEF pairs
  <2> QED BY <1>1, <1>2, <1>3
<1>6. \A j \in 1 .. Len(hs) : lines[j] = HeaderText(hs[j]) /\ pairs[j] = PairOf(hs[j])
  <2>1. \A j \in 1 .. Len(hs) : lines[j] = HeaderText(hs[j])
    BY <1>1
  <2> HIDE DEF pairs
  <2>2. \A j \in 1 .. Len(hs) : pairs[j] = PairOf(hs[j])
    BY <1>1, <1>3
  <2> QED BY <2>1, <2>2
<1> HIDE DEF lines, pairs
<1>7. /\ Pre(pairs, 0) = <<>> /\ Pre(pairs, Len(hs)) = pairs
      /\ \A i \in 0 .. Len(hs) : Pre(pairs, i) \in Seq(Pairs)
      /\ \A i \in 1 .. Len(hs) : Pre(pairs, i) = Append(Pre(pairs, i - 1), pairs[i])
  <2>1. /\ Pre(pairs, 0) = <<>> /\ Pre(pairs, Len(pairs)) = pairs
        /\ \A i \in 0 .. Len(pairs) : Pre(pairs, i) \in Seq(Pairs)
        /\ \A i \in 1 .. Len(pairs) : Pre(pairs, i) = Append(Pre(pairs, i - 1), pairs[i])
    BY <1>5, PrefixByPrefix, Zenon
  <2> QED BY <1>5, <2>1
<1>8. ASSUME NEW j \in 1 .. Len(lines) PROVE Reads(q[j - 1], lines[j], q[j])
  <2> DEFINE h == Pre(pairs, j - 1)
             x == hs[j]
  <2>0. j \in 1 .. Len(hs) /\ j - 1 \in 0 .. Len(hs)
    BY <1>4
  <2>1. x \in Headers /\ lines[j] = HeaderText(x)
    BY <1>1, <1>6, <2>0
  <2>2. h \in Seq(Pairs) /\ Pre(pairs, j) = Append(h, PairOf(x))
    BY <1>6, <1>7, <2>0
  <2>3. q[j - 1] = In("header_line_start", m, d, h)
    BY <2>0
  <2>4. q[j] = In("header_line_start", m, d, Append(h, PairOf(x)))
    <3>1. q[j] = In("header_line_start", m, d, Pre(pairs, j))
      BY <2>0
    <3> QED BY <2>2, <3>1
  <2> HIDE DEF q, h, x
  <2>5. Reads(In("header_line_start", m, d, h), HeaderText(x),
              In("header_line_start", m, d, Append(h, PairOf(x))))
    BY <2>1, <2>2, ReadsHeader
  <2> QED BY <2>1, <2>3, <2>4, <2>5
<1>9. q[0] = In("header_line_start", m, d, <<>>) /\ q[Len(lines)] = In("header_line_start", m, d, pairs)
  <2>1. q[0] = In("header_line_start", m, d, Pre(pairs, 0))
    BY <1>1
  <2>2. q[Len(lines)] = In("header_line_start", m, d, Pre(pairs, Len(hs)))
    BY <1>1, <1>4
  <2> HIDE DEF q
  <2> QED BY <1>7, <2>1, <2>2
<1> HIDE DEF q
<1>10. q[0] \in Parsers
  <2>1. "header_line_start" \in ParserStates /\ <<>> \in Seq(Pairs)
    BY DEF ParserStates, HeaderStates
  <2>2. \A k \in Seq(Pairs) : In("header_line_start", m, d, k) \in Parsers
    BY <2>1, InIsParser DEF Pairs
  <2> QED BY <1>9, <2>1, <2>2
<1>11. Reads(q[0], FlattenSeq(lines), q[Len(lines)])
  BY <1>4, <1>8, <1>10, ReadsPieces
<1>12. FlattenSeq(lines) \in Seq(Characters)
  <2>1. \E G \in [0 .. Len(lines) -> Seq(Characters)] : FlattenSeq(lines) = G[Len(lines)]
    BY <1>4, Flattening, Zenon
  <2>2. Len(lines) \in 0 .. Len(lines)
    BY <1>1, <1>4
  <2> QED BY <2>1, <2>2
<1>13. /\ FlattenSeq(lines) \in Seq(Characters) /\ pairs \in Seq(Pairs)
       /\ Reads(In("header_line_start", m, d, <<>>), FlattenSeq(lines),
                In("header_line_start", m, d, pairs))
  BY <1>5, <1>9, <1>11, <1>12
<1> QED BY <1>13, Zenon DEF lines, pairs

\* The parser after the whole head of a request.
Final(r) == In("true", Meant(r).method, Meant(r).destination, Meant(r).headers)

\* The head of a request takes a new parser to the end, and not before its last
\* character, and leaves in it what the request means.
THEOREM ReadsHead ==
    ASSUME NEW r, IsRequest(r)
    PROVE  /\ HeadText(r) \in Seq(Characters)
           /\ Reads(NewParser, HeadText(r), Final(r))
<1> DEFINE m == r.method
           d == r.destination
           hs == r.headers
           lines == [i \in DOMAIN hs |-> HeaderText(hs[i])]
           pairs == [i \in DOMAIN hs |-> [name |-> hs[i].name, value |-> Value(hs[i])]]
           sp == <<"sp">>
           lineEnd == <<"cr", "lf">>
           flat == FlattenSeq(lines)
           none == <<>>
<1>1. m \in Seq(NameTokens) /\ m # <<>> /\ d \in Seq(Visible \ {"sp"}) /\ hs \in Seq(Headers)
  BY DEF IsRequest
<1>2. Final(r) = In("true", m, d, pairs)
  BY DEF Final, Meant
<1>3. HeadText(r) = m \o sp \o d \o VersionLine \o flat \o lineEnd
  BY DEF HeadText, VersionLine
<1> HIDE DEF m, d, hs
<1>4. m \in Seq(Characters) /\ d \in Seq(Characters)
  <2>1. NameTokens \subseteq Characters /\ Visible \ {"sp"} \subseteq Characters
    BY Apart
  <2> QED BY <1>1, <2>1, Wider
<1>5. /\ flat \in Seq(Characters) /\ pairs \in Seq(Pairs)
      /\ Reads(In("header_line_start", m, d, <<>>), flat, In("header_line_start", m, d, pairs))
  BY <1>1, <1>4, ReadsHeaders
<1>6. /\ sp \in Seq(Characters) /\ lineEnd \in Seq(Characters) /\ VersionLine \in Seq(Characters)
      /\ none \in Seq(Characters) /\ none \in Seq(Pairs)
  BY Apart DEF VersionLine
<1>7. Reads(NewParser, m, In("method", m, <<>>, <<>>))
  BY <1>1, ReadsMethod
<1>8. Reads(In("method", m, <<>>, <<>>), sp, In("uri", m, <<>>, <<>>))
  <2> HIDE DEF none
  <2>1. \A st \in {"method", "uri"} : In(st, m, none, none) \in Parsers
    BY <1>4, <1>6, InIsParser DEF Pairs, ParserStates
  <2>2. In("method", m, none, none) \in Parsers /\ In("uri", m, none, none) \in Parsers
    BY <2>1
  <2>3. ~ Decided(In("method", m, none, none))
    BY DEF Decided, In
  <2>4. In("uri", m, none, none) = Fed(In("method", m, none, none), "sp")
    BY NextPlain, FedPlain DEF Storing
  <2>5. Reads(In("method", m, none, none), sp, In("uri", m, none, none))
    BY <2>2, <2>3, <2>4, ReadsOne
  <2> QED BY <2>5 DEF none
<1>9. Reads(In("uri", m, <<>>, <<>>), d, In("uri", m, d, <<>>))
  BY <1>1, <1>4, ReadsDestination
<1>10. Reads(In("uri", m, d, <<>>), VersionLine, In("header_line_start", m, d, <<>>))
  BY <1>4, ReadsVersion
<1> HIDE DEF pairs, flat, sp, none
<1>11. Reads(In("header_line_start", m, d, pairs), lineEnd, In("true", m, d, pairs))
  <2> DEFINE p == In("header_line_start", m, d, pairs)
             q == In("expecting_newline_3", m, d, pairs)
             s == In("true", m, d, pairs)
  <2>1. {"header_line_start", "expecting_newline_3", "true"} \subseteq ParserStates
    BY DEF ParserStates, HeaderStates
  <2>2. p \in Parsers /\ q \in Parsers /\ s \in Parsers
    BY <1>4, <1>5, <2>1, InIsParser DEF Pairs
  <2>3. ~ Decided(p) /\ ~ Decided(q)
    BY DEF Decided, In
  <2>4. q = Fed(p, "cr") /\ s = Fed(q, "lf")
    BY NextInHeaders, FedPlain DEF Storing
  <2>5. "cr" \in Characters /\ "lf" \in Characters
    BY Apart
  <2> QED BY <2>2, <2>3, <2>4, <2>5, ReadsTwo
<1> HIDE DEF lineEnd
<1> DEFINE x1 == m \o sp
           x2 == x1 \o d
           x3 == x2 \o VersionLine
           x4 == x3 \o flat
           x5 == x4 \o lineEnd
<1>12. x1 \in Seq(Characters)
  BY <1>4, <1>6
<1>13. Reads(NewParser, x1, In("uri", m, <<>>, <<>>))
  BY <1>4, <1>6, <1>7, <1>8, ReadsThen
<1> HIDE DEF x1
<1>14. x2 \in Seq(Characters)
  BY <1>4, <1>12
<1>15. Reads(NewParser, x2, In("uri", m, d, <<>>))
  BY <1>4, <1>9, <1>12, <1>13, ReadsThen
<1> HIDE DEF x2
<1>16. x3 \in Seq(Characters)
  BY <1>6, <1>14
<1>17. Reads(NewParser, x3, In("header_line_start", m, d, <<>>))
  BY <1>6, <1>10, <1>14, <1>15, ReadsThen
<1> HIDE DEF x3
<1>18. x4 \in Seq(Characters)
  BY <1>5, <1>16
<1>19. Reads(NewParser, x4, In("header_line_start", m, d, pairs))
  BY <1>5, <1>16, <1>17, <1>18, ReadsThen
<1> HIDE DEF x4
<1>20. x5 \in Seq(Characters)
  BY <1>6, <1>18
<1>21. Reads(NewParser, x5, In("true", m, d, pairs))
  BY <1>6, <1>11, <1>18, <1>19, ReadsThen
<1>22. HeadText(r) = x5
  BY <1>3 DEF x1, x2, x3, x4
<1> QED BY <1>2, <1>20, <1>21, <1>22

-----------------------------------------------------------------------------
(* Reads of a text *)

\* As In, with the count of characters taken of this read.
Full(st, m, d, h, u) == [state |-> st, method |-> m, destination |-> d, headers |-> h, used |-> u]
With(p, u) == [p EXCEPT !.used = u]

\* next_state() leaves a known state.
LEMMA NextIsState ==
    ASSUME NEW p, NEW c
    PROVE  NextState(p, c) \in ParserStates
<1>1. InRequestLine(p, c) \in ParserStates
  BY DEF InRequestLine, ParserStates, HeaderStates
<1>2. InHeaders(p, c) \in ParserStates
  BY DEF InHeaders, ParserStates, HeaderStates
<1> QED BY <1>1, <1>2 DEF NextState

\* A parser is its fields.
LEMMA PartsOfParser ==
    ASSUME NEW p \in Parsers
    PROVE  /\ p = In(p.state, p.method, p.destination, p.headers)
           /\ p.state \in ParserStates /\ p.method \in Seq(Characters)
           /\ p.destination \in Seq(Characters) /\ p.headers \in Seq(Pairs)
           /\ \A u : With(p, u) = Full(p.state, p.method, p.destination, p.headers, u)
<1>1. /\ p = In(p.state, p.method, p.destination, p.headers)
      /\ p.state \in ParserStates /\ p.method \in Seq(Characters)
      /\ p.destination \in Seq(Characters) /\ p.headers \in Seq(Pairs)
  BY DEF Parsers, In, Pairs
<1>2. ASSUME NEW u PROVE With(p, u) = Full(p.state, p.method, p.destination, p.headers, u)
  BY DEF Parsers, With, Full
<1> QED BY <1>1, <1>2

\* What one character changes does not depend on the count.
LEMMA StoredParts ==
    ASSUME NEW st, NEW m \in Seq(Characters), NEW d \in Seq(Characters), NEW h \in Seq(Pairs),
           NEW c \in Characters
    PROVE  \E n \in Seq(Characters), e \in Seq(Characters), g \in Seq(Pairs) :
              \A u : Stored(Full(st, m, d, h, u), c) = Full(st, n, e, g, u)
<1> DEFINE next == NextState(Full(st, m, d, h, 0), c)
<1>1. \A u : NextState(Full(st, m, d, h, u), c) = next
  BY DEF NextState, InHeaders, InRequestLine, Full
<1>2. \A u : LET p == Full(st, m, d, h, u)
             IN  p.state = st /\ p.method = m /\ p.destination = d /\ p.headers = h
  BY DEF Full
<1> HIDE DEF next
<1>3. CASE next = "method"
  <2> DEFINE n == Append(m, c)
  <2>1. n \in Seq(Characters)
    OBVIOUS
  <2>2. ASSUME NEW u PROVE Stored(Full(st, m, d, h, u), c) = Full(st, n, d, h, u)
    <3> DEFINE p == Full(st, m, d, h, u)
    <3>1. Stored(p, c) = [p EXCEPT !.method = n]
      BY <1>1, <1>2, <1>3 DEF Stored
    <3> HIDE DEF n
    <3> QED BY <3>1 DEF Full
  <2> HIDE DEF n
  <2> QED BY <2>1, <2>2
<1>4. CASE next = "uri" /\ st = "uri"
  <2> DEFINE n == Append(d, c)
  <2>1. n \in Seq(Characters)
    OBVIOUS
  <2>2. ASSUME NEW u PROVE Stored(Full(st, m, d, h, u), c) = Full(st, m, n, h, u)
    <3> DEFINE p == Full(st, m, d, h, u)
    <3>1. Stored(p, c) = [p EXCEPT !.destination = n]
      BY <1>1, <1>2, <1>4 DEF Stored
    <3> HIDE DEF n
    <3> QED BY <3>1 DEF Full
  <2> HIDE DEF n
  <2> QED BY <2>1, <2>2
<1>5. CASE next = "header_name" /\ st = "header_line_start"
  <2> DEFINE n == Append(h, [name |-> <<c>>, value |-> <<>>])
  <2>1. n \in Seq(Pairs)
    <3>1. [name |-> <<c>>, value |-> <<>>] \in Pairs
      BY DEF Pairs
    <3> QED BY <3>1
  <2>2. ASSUME NEW u PROVE Stored(Full(st, m, d, h, u), c) = Full(st, m, d, n, u)
    <3> DEFINE p == Full(st, m, d, h, u)
    <3>1. Stored(p, c) = [p EXCEPT !.headers = n]
      BY <1>1, <1>2, <1>5 DEF Stored
    <3> HIDE DEF n
    <3> QED BY <3>1 DEF Full
  <2> HIDE DEF n
  <2> QED BY <2>1, <2>2
<1>6. CASE next = "header_name" /\ st = "header_name"
  <2> DEFINE n == [h EXCEPT ![Len(h)].name = Append(@, c)]
  <2>1. n \in Seq(Pairs)
    <3>1. ASSUME NEW a \in Pairs PROVE [a EXCEPT !.name = Append(@, c)] \in Pairs
      <4> DEFINE w == Append(a.name, c)
      <4>1. w \in Seq(Characters)
        BY DEF Pairs
      <4> HIDE DEF w
      <4>2. [a EXCEPT !.name = w] \in Pairs
        BY <4>1 DEF Pairs
      <4> QED BY <4>2 DEF w
    <3>2. n = [j \in DOMAIN h |-> IF j = Len(h) THEN [h[j] EXCEPT !.name = Append(@, c)] ELSE h[j]]
      OBVIOUS
    <3>3. \A j \in DOMAIN h : h[j] \in Pairs
      OBVIOUS
    <3>4. \A j \in DOMAIN h : n[j] \in Pairs
      BY <3>1, <3>2, <3>3
    <3> HIDE DEF n
    <3>5. n = [j \in DOMAIN h |-> n[j]] /\ DOMAIN h = 1 .. Len(h) /\ Len(h) \in Nat
      BY <3>2
    <3> QED BY <3>4, <3>5
  <2>2. ASSUME NEW u PROVE Stored(Full(st, m, d, h, u), c) = Full(st, m, d, n, u)
    <3> DEFINE p == Full(st, m, d, h, u)
    <3>1. Stored(p, c) = [p EXCEPT !.headers = n]
      BY <1>1, <1>2, <1>6 DEF Stored
    <3> HIDE DEF n
    <3> QED BY <3>1 DEF Full
  <2> HIDE DEF n
  <2> QED BY <2>1, <2>2
<1>7. CASE next = "header_value" /\ st \in {"header_lws", "header_value"}
  <2> DEFINE n == [h EXCEPT ![Len(h)].value = Append(@, c)]
  <2>1. n \in Seq(Pairs)
    <3>1. ASSUME NEW a \in Pairs PROVE [a EXCEPT !.value = Append(@, c)] \in Pairs
      <4> DEFINE w == Append(a.value, c)
      <4>1. w \in Seq(Characters)
        BY DEF Pairs
      <4> HIDE DEF w
      <4>2. [a EXCEPT !.value = w] \in Pairs
        BY <4>1 DEF Pairs
      <4> QED BY <4>2 DEF w
    <3>2. n = [j \in DOMAIN h |-> IF j = Len(h) THEN [h[j] EXCEPT !.value = Append(@, c)] ELSE h[j]]
      OBVIOUS
    <3>3. \A j \in DOMAIN h : h[j] \in Pairs
      OBVIOUS
    <3>4. \A j \in DOMAIN h : n[j] \in Pairs
      BY <3>1, <3>2, <3>3
    <3> HIDE DEF n
    <3>5. n = [j \in DOMAIN h |-> n[j]] /\ DOMAIN h = 1 .. Len(h) /\ Len(h) \in Nat
      BY <3>2
    <3> QED BY <3>4, <3>5
  <2>2. ASSUME NEW u PROVE Stored(Full(st, m, d, h, u), c) = Full(st, m, d, n, u)
    <3> DEFINE p == Full(st, m, d, h, u)
    <3>1. Stored(p, c) = [p EXCEPT !.headers = n]
      BY <1>1, <1>2, <1>7 DEF Stored
    <3> HIDE DEF n
    <3> QED BY <3>1 DEF Full
  <2> HIDE DEF n
  <2> QED BY <2>1, <2>2
<1>8. CASE /\ next # "method" /\ ~ (next = "uri" /\ st = "uri")
           /\ ~ (next = "header_name" /\ st \in {"header_line_start", "header_name"})
           /\ ~ (next = "header_value" /\ st \in {"header_lws", "header_value"})
  <2>1. ASSUME NEW u PROVE Stored(Full(st, m, d, h, u), c) = Full(st, m, d, h, u)
    BY <1>1, <1>2, <1>8 DEF Stored
  <2> QED BY <2>1
<1> QED BY <1>3, <1>4, <1>5, <1>6, <1>7, <1>8

\* consume() is a step of the automaton and counts the token.
LEMMA ConsumeFeeds ==
    ASSUME NEW p \in Parsers, NEW c \in Characters
    PROVE  /\ Fed(p, c) \in Parsers
           /\ \A u \in Nat : Consume(With(p, u), c) = With(Fed(p, c), u + 1)
<1> DEFINE st == p.state
           m == p.method
           d == p.destination
           h == p.headers
<1>1. /\ p = Full(st, m, d, h, 0) /\ m \in Seq(Characters) /\ d \in Seq(Characters) /\ h \in Seq(Pairs)
      /\ \A u : With(p, u) = Full(st, m, d, h, u)
  BY PartsOfParser DEF In, Full
<1> HIDE DEF st, m, d, h
<1>2. PICK n \in Seq(Characters), e \in Seq(Characters), g \in Seq(Pairs) :
        \A u : Stored(Full(st, m, d, h, u), c) = Full(st, n, e, g, u)
  BY <1>1, StoredParts
<1> DEFINE next == NextState(p, c)
<1>3. \A u : NextState(Full(st, m, d, h, u), c) = next
  BY <1>1 DEF NextState, InHeaders, InRequestLine, Full
<1>4. next \in ParserStates
  BY NextIsState
<1> HIDE DEF next
<1>5. Fed(p, c) = In(next, n, e, g)
  <2>1. Stored(p, c) = Full(st, n, e, g, 0)
    BY <1>1, <1>2
  <2>2. NextState(p, c) = next
    BY DEF next
  <2>3. [Full(st, n, e, g, 0) EXCEPT !.state = next] = In(next, n, e, g)
    BY DEF Full, In
  <2> QED BY <2>1, <2>2, <2>3 DEF Fed
<1>6. In(next, n, e, g) \in Parsers
  BY <1>4, InIsParser DEF Pairs
<1>7. ASSUME NEW u \in Nat PROVE Consume(With(p, u), c) = With(Fed(p, c), u + 1)
  <2> DEFINE q == Full(st, m, d, h, u)
             v == u + 1
  <2>1. With(p, u) = q /\ Stored(q, c) = Full(st, n, e, g, u) /\ NextState(q, c) = next
    BY <1>1, <1>2, <1>3
  <2>2. q.used + 1 = v
    BY DEF Full
  <2> HIDE DEF q, v
  <2>3. Consume(q, c) = [Full(st, n, e, g, u) EXCEPT !.state = next, !.used = v]
    BY <2>1, <2>2 DEF Consume
  <2>4. [Full(st, n, e, g, u) EXCEPT !.state = next, !.used = v] = With(In(next, n, e, g), v)
    <3>1. With(In(next, n, e, g), v) = Full(next, n, e, g, v)
      BY DEF Full, In, With
    <3>2. [Full(st, n, e, g, u) EXCEPT !.state = next] = Full(next, n, e, g, u)
      BY DEF Full
    <3>3. [Full(next, n, e, g, u) EXCEPT !.used = v] = Full(next, n, e, g, v)
      BY DEF Full
    <3>4. [Full(st, n, e, g, u) EXCEPT !.state = next, !.used = v]
            = [[Full(st, n, e, g, u) EXCEPT !.state = next] EXCEPT !.used = v]
      OBVIOUS
    <3> QED BY <3>1, <3>2, <3>3, <3>4
  <2> QED BY <1>5, <2>1, <2>3, <2>4 DEF v
<1> QED BY <1>5, <1>6, <1>7

\* parse_headers, character by character.
LEMMA Stages ==
    ASSUME NEW p, NEW x \in Seq(Characters)
    PROVE  \E A : /\ A[0] = With(p, 0)
                  /\ \A i \in 1 .. Len(x) : A[i] = Taking(A[i - 1], x[i])
                  /\ ParseHeaders(p, x) = A[Len(x)]
<1> DEFINE Eq(G, n) ==
             G = [i \in 0 .. n |-> IF i = 0 THEN {[p EXCEPT !.used = 0]}
                                   ELSE {Taking(q, x[i]) : q \in G[i - 1]}]
           T == {n \in Nat : \E G : Eq(G, n)}
<1>1. 0 \in T
  <2> DEFINE G == [i \in 0 .. 0 |-> {[p EXCEPT !.used = 0]}]
  <2>1. Eq(G, 0)
    OBVIOUS
  <2> QED BY <2>1
<1>2. ASSUME NEW n \in Nat, n \in T PROVE n + 1 \in T
  <2>1. PICK G : Eq(G, n)
    BY <1>2
  <2> DEFINE F == [i \in 0 .. n + 1 |-> IF i <= n THEN G[i] ELSE {Taking(q, x[i]) : q \in G[i - 1]}]
  <2>2. \A i \in 0 .. n + 1 : F[i] = IF i = 0 THEN {[p EXCEPT !.used = 0]}
                                     ELSE {Taking(q, x[i]) : q \in F[i - 1]}
    <3> SUFFICES ASSUME NEW i \in 0 .. n + 1
                 PROVE  F[i] = IF i = 0 THEN {[p EXCEPT !.used = 0]}
                               ELSE {Taking(q, x[i]) : q \in F[i - 1]}
      OBVIOUS
    <3>1. CASE i <= n
      <4>1. i \in 0 .. n
        BY <3>1
      <4>2. G[i] = IF i = 0 THEN {[p EXCEPT !.used = 0]} ELSE {Taking(q, x[i]) : q \in G[i - 1]}
        BY <2>1, <4>1, Zenon
      <4>3. F[i] = G[i] /\ (i # 0 => F[i - 1] = G[i - 1])
        BY <3>1
      <4> HIDE DEF F
      <4> QED BY <4>2, <4>3
    <3>2. CASE i = n + 1
      <4>1. F[i] = {Taking(q, x[i]) : q \in G[i - 1]} /\ i # 0 /\ F[i - 1] = G[i - 1]
        BY <3>2
      <4> HIDE DEF F
      <4> QED BY <4>1
    <3> QED BY <3>1, <3>2
  <2>3. Eq(F, n + 1)
    <3>1. F = [i \in 0 .. n + 1 |-> F[i]]
      OBVIOUS
    <3> HIDE DEF F
    <3> QED BY <2>2, <3>1
  <2> HIDE DEF F, Eq
  <2> QED BY <2>3
<1> HIDE DEF T
<1>3. Len(x) \in Nat /\ Len(x) \in T
  <2>1. Nat \subseteq T
    BY <1>1, <1>2, Induction
  <2>2. Len(x) \in Nat
    OBVIOUS
  <2> QED BY <2>1, <2>2
<1>4. \E G : Eq(G, Len(x))
  BY <1>3 DEF T
<1> DEFINE after == CHOOSE G : Eq(G, Len(x))
<1>5. Eq(after, Len(x))
  BY <1>4
<1>6. ParseHeaders(p, x) = CHOOSE q \in after[Len(x)] : TRUE
  BY DEF ParseHeaders
<1> HIDE DEF after
<1>7. after[0] = {With(p, 0)}
  <2>1. 0 \in 0 .. Len(x)
    BY <1>3
  <2> QED BY <1>5, <2>1 DEF With
<1>8. \A i \in 1 .. Len(x) : after[i] = {Taking(q, x[i]) : q \in after[i - 1]}
  <2> SUFFICES ASSUME NEW i \in 1 .. Len(x) PROVE after[i] = {Taking(q, x[i]) : q \in after[i - 1]}
    OBVIOUS
  <2>1. i \in 0 .. Len(x) /\ i # 0
    BY <1>3
  <2> QED BY <1>5, <2>1
<1> HIDE DEF Eq
<1> DEFINE A == [i \in 0 .. Len(x) |-> CHOOSE q \in after[i] : TRUE]
           One == {n \in Nat : n <= Len(x) => after[n] = {A[n]}}
<1>9. Nat \subseteq One
  <2>1. 0 \in One
    BY <1>3, <1>7
  <2>2. ASSUME NEW n \in Nat, n \in One PROVE n + 1 \in One
    <3> HIDE DEF A
    <3> SUFFICES ASSUME n + 1 <= Len(x) PROVE after[n + 1] = {A[n + 1]}
      OBVIOUS
    <3>1. n + 1 \in 1 .. Len(x) /\ (n + 1) - 1 = n /\ after[n] = {A[n]}
      BY <1>3, <2>2
    <3>2. after[n + 1] = {Taking(q, x[n + 1]) : q \in after[n]}
      BY <1>8, <3>1, Zenon
    <3>3. after[n + 1] = {Taking(A[n], x[n + 1])}
      BY <3>1, <3>2
    <3>4. A[n + 1] = CHOOSE q \in after[n + 1] : TRUE
      BY <3>1 DEF A
    <3> QED BY <3>3, <3>4
  <2> HIDE DEF One
  <2> QED BY <2>1, <2>2, Induction
<1> HIDE DEF A
<1>10. \A i \in 0 .. Len(x) : after[i] = {A[i]}
  BY <1>3, <1>9
<1>11. A[0] = With(p, 0)
  BY <1>3, <1>7, <1>10
<1>12. ASSUME NEW i \in 1 .. Len(x) PROVE A[i] = Taking(A[i - 1], x[i])
  <2>1. i \in 0 .. Len(x) /\ i - 1 \in 0 .. Len(x)
    BY <1>3
  <2>2. after[i] = {A[i]} /\ after[i - 1] = {A[i - 1]}
    BY <1>10, <2>1
  <2> QED BY <1>8, <2>2
<1>13. ParseHeaders(p, x) = A[Len(x)]
  BY <1>3, <1>6, <1>10
<1> QED BY <1>11, <1>12, <1>13

\* The parser after each prefix of a text, however it is cut.
Runs(R, x) ==
    /\ R \in [0 .. Len(x) -> Parsers]
    /\ R[0] = NewParser
    /\ \A i \in 1 .. Len(x) : R[i] = IF Decided(R[i - 1]) THEN R[i - 1] ELSE Fed(R[i - 1], x[i])

Reading(x) == CHOOSE R : Runs(R, x)

\* The count of used tokens is no part of the decision.
LEMMA Counting ==
    ASSUME NEW p \in Parsers, NEW u \in Nat
    PROVE  /\ With(With(p, u), 0) = p /\ With(p, 0) = p /\ With(p, u).used = u
           /\ Decided(With(p, u)) <=> Decided(p)
<1> DEFINE f(w) == Full(p.state, p.method, p.destination, p.headers, w)
<1>1. p = f(0) /\ With(p, u) = f(u) /\ With(p, 0) = f(0)
  BY PartsOfParser DEF In, Full
<1>2. With(f(u), 0) = f(0)
  BY DEF With, Full
<1>3. f(u).used = u /\ f(u).state = p.state
  BY DEF Full
<1> HIDE DEF f
<1> QED BY <1>1, <1>2, <1>3 DEF Decided

\* parse_one() on a character, with the count of those used.
LEMMA TakingOne ==
    ASSUME NEW p \in Parsers, NEW u \in Nat, NEW c \in Characters
    PROVE  Taking(With(p, u), c) = IF Decided(p) THEN With(p, u) ELSE With(Fed(p, c), u + 1)
BY Counting, ConsumeFeeds DEF Taking

\* The parser of a new connection.
LEMMA NewIsParser == NewParser \in Parsers
BY DEF NewParser, Parsers, ParserStates

\* Such a function exists.
LEMMA ReadingRuns ==
    ASSUME NEW x \in Seq(Characters)
    PROVE  Runs(Reading(x), x)
<1>1. PICK A : /\ A[0] = With(NewParser, 0)
               /\ \A i \in 1 .. Len(x) : A[i] = Taking(A[i - 1], x[i])
  <2>1. \E A : /\ A[0] = With(NewParser, 0)
                /\ \A i \in 1 .. Len(x) : A[i] = Taking(A[i - 1], x[i])
                /\ ParseHeaders(NewParser, x) = A[Len(x)]
    BY Stages, Zenon
  <2> QED BY <2>1
<1> DEFINE R == [i \in 0 .. Len(x) |-> With(A[i], 0)]
           T == {n \in Nat : n <= Len(x) =>
                   R[n] \in Parsers /\ \E u \in Nat : A[n] = With(R[n], u)}
<1>0. Len(x) \in Nat /\ \A i \in 1 .. Len(x) : x[i] \in Characters
  OBVIOUS
<1>2. R[0] = NewParser
  <2>1. R[0] = With(With(NewParser, 0), 0)
    BY <1>0, <1>1
  <2> HIDE DEF R
  <2> QED BY <2>1, NewIsParser, Counting
<1>3. ASSUME NEW i \in 1 .. Len(x), NEW p \in Parsers, NEW u \in Nat, A[i - 1] = With(p, u)
      PROVE  /\ R[i - 1] = p
             /\ R[i] = IF Decided(p) THEN p ELSE Fed(p, x[i])
             /\ R[i] \in Parsers /\ \E v \in Nat : A[i] = With(R[i], v)
  <2>1. A[i] = IF Decided(p) THEN With(p, u) ELSE With(Fed(p, x[i]), u + 1)
    BY <1>0, <1>1, <1>3, TakingOne
  <2>2. R[i - 1] = With(A[i - 1], 0) /\ R[i] = With(A[i], 0)
    BY <1>0
  <2>3. Fed(p, x[i]) \in Parsers
    BY <1>0, ConsumeFeeds
  <2> HIDE DEF R
  <2>4. R[i - 1] = p
    BY <1>3, <2>2, Counting
  <2>5. CASE Decided(p)
    <3>1. A[i] = With(p, u)
      BY <2>1, <2>5
    <3>2. R[i] = p
      BY <2>2, <3>1, Counting
    <3> QED BY <2>4, <2>5, <3>1, <3>2
  <2>6. CASE ~ Decided(p)
    <3>1. A[i] = With(Fed(p, x[i]), u + 1) /\ u + 1 \in Nat
      BY <2>1, <2>6
    <3>2. R[i] = Fed(p, x[i])
      BY <2>2, <2>3, <3>1, Counting
    <3> QED BY <2>3, <2>4, <2>6, <3>1, <3>2
  <2> QED BY <2>4, <2>5, <2>6
<1>4. Nat \subseteq T
  <2>1. 0 \in T
    BY <1>1, <1>2, NewIsParser
  <2>2. ASSUME NEW n \in Nat, n \in T PROVE n + 1 \in T
    <3> HIDE DEF R
    <3> SUFFICES ASSUME n + 1 <= Len(x)
                 PROVE  R[n + 1] \in Parsers /\ \E u \in Nat : A[n + 1] = With(R[n + 1], u)
      OBVIOUS
    <3>1. n + 1 \in 1 .. Len(x) /\ (n + 1) - 1 = n
      BY <1>0
    <3>2. PICK u \in Nat : R[n] \in Parsers /\ A[n] = With(R[n], u)
      BY <1>0, <2>2
    <3>3. A[(n + 1) - 1] = With(R[n], u)
      BY <3>1, <3>2
    <3> QED BY <1>3, <3>1, <3>2, <3>3
  <2> HIDE DEF T
  <2> QED BY <2>1, <2>2, Induction
<1>5. ASSUME NEW i \in 1 .. Len(x)
      PROVE  R[i] = IF Decided(R[i - 1]) THEN R[i - 1] ELSE Fed(R[i - 1], x[i])
  <2> HIDE DEF R
  <2>1. i - 1 \in Nat /\ i - 1 <= Len(x)
    BY <1>0
  <2>2. PICK u \in Nat : R[i - 1] \in Parsers /\ A[i - 1] = With(R[i - 1], u)
    BY <1>4, <2>1
  <2> QED BY <1>3, <2>2
<1>6. R \in [0 .. Len(x) -> Parsers]
  <2>1. R = [i \in 0 .. Len(x) |-> R[i]]
    OBVIOUS
  <2> HIDE DEF R
  <2>2. \A i \in 0 .. Len(x) : R[i] \in Parsers
    BY <1>0, <1>4
  <2> QED BY <2>1, <2>2
<1> HIDE DEF R
<1>7. Runs(R, x)
  BY <1>2, <1>5, <1>6 DEF Runs
<1> QED BY <1>7 DEF Reading

\* A read takes the parser as far along the text as if the text came in one, and counts
\* up to the character that decides: for every cut of a text into reads.
THEOREM CutsDoNotMatter ==
    ASSUME NEW x \in Seq(Characters), NEW t \in 0 .. Len(x), NEW k \in 0 .. Len(x) - t
    PROVE  LET R == Reading(x)
               q == ParseHeaders(R[t], SubSeq(x, t + 1, t + k))
           IN  /\ [q EXCEPT !.used = 0] = R[t + k]
               /\ ~ Decided(R[t]) /\ Decided(R[t + k]) =>
                    /\ q.used \in 1 .. k
                    /\ ~ Decided(R[t + q.used - 1]) /\ Decided(R[t + q.used])
<1> DEFINE R == Reading(x)
           y == SubSeq(x, t + 1, t + k)
<1>0. Len(x) \in Nat /\ t \in Nat /\ k \in Nat /\ t + k <= Len(x)
  OBVIOUS
<1>1. /\ R \in [0 .. Len(x) -> Parsers]
      /\ \A i \in 1 .. Len(x) : R[i] = IF Decided(R[i - 1]) THEN R[i - 1] ELSE Fed(R[i - 1], x[i])
  BY ReadingRuns DEF Runs
<1>2. y \in Seq(Characters) /\ Len(y) = k /\ \A i \in 1 .. k : y[i] = x[t + i] /\ y[i] \in Characters
  BY <1>0, SubSeqProperties
<1> HIDE DEF R, y
<1>3. PICK A : /\ A[0] = With(R[t], 0)
               /\ \A i \in 1 .. Len(y) : A[i] = Taking(A[i - 1], y[i])
               /\ ParseHeaders(R[t], y) = A[Len(y)]
  BY <1>2, Stages, Zenon
<1> DEFINE Counted(n, u) ==
             /\ A[n] = With(R[t + n], u)
             /\ ~ Decided(R[t]) /\ ~ Decided(R[t + n]) => u = n
             /\ ~ Decided(R[t]) /\ Decided(R[t + n]) =>
                  u \in 1 .. n /\ ~ Decided(R[t + u - 1]) /\ Decided(R[t + u])
           T == {n \in Nat : n <= k => \E u \in Nat : Counted(n, u)}
<1>4. Nat \subseteq T
  <2>1. 0 \in T
    <3>1. t + 0 = t
      BY <1>0
    <3>2. Counted(0, 0)
      BY <1>3, <3>1
    <3> HIDE DEF Counted
    <3> QED BY <3>2
  <2>2. ASSUME NEW n \in Nat, n \in T PROVE n + 1 \in T
    <3> HIDE DEF Counted
    <3> SUFFICES ASSUME n + 1 <= k PROVE \E u \in Nat : Counted(n + 1, u)
      OBVIOUS
    <3>1. PICK u \in Nat : Counted(n, u)
      BY <1>0, <2>2
    <3> DEFINE i == t + (n + 1)
               p == R[t + n]
    <3>2. i \in 1 .. Len(x) /\ i - 1 = t + n /\ t + n \in 0 .. Len(x) /\ n + 1 \in 1 .. Len(y) /\ (n + 1) - 1 = n
      BY <1>0, <1>2
    <3>3. p \in Parsers
      BY <1>1, <3>2
    <3>4. R[i] = IF Decided(p) THEN p ELSE Fed(p, x[i])
      BY <1>1, <3>2, Zenon
    <3>5. A[n + 1] = Taking(A[n], x[i])
      <4>1. A[n + 1] = Taking(A[(n + 1) - 1], y[n + 1])
        BY <1>3, <3>2, Zenon
      <4>2. y[n + 1] = x[i]
        BY <1>2, <3>2
      <4> QED BY <3>2, <4>1, <4>2
    <3>6. x[i] \in Characters
      BY <3>2
    <3>7. A[n] = With(p, u)
      BY <3>1 DEF Counted
    <3> HIDE DEF i, p
    <3>8. A[n + 1] = IF Decided(p) THEN With(p, u) ELSE With(Fed(p, x[i]), u + 1)
      BY <3>3, <3>5, <3>6, <3>7, TakingOne
    <3>9. CASE Decided(p)
      <4>1. A[n + 1] = With(R[t + (n + 1)], u) /\ R[t + (n + 1)] = R[t + n]
        BY <3>4, <3>8, <3>9 DEF i, p
      <4>2. Counted(n + 1, u)
        BY <1>0, <3>1, <3>9, <4>1 DEF Counted, p
      <4> QED BY <4>2
    <3>10. CASE ~ Decided(p)
      <4>1. A[n + 1] = With(R[t + (n + 1)], u + 1)
        BY <3>4, <3>8, <3>10 DEF i
      <4>2. ~ Decided(R[t]) => u = n
        BY <3>1, <3>10 DEF Counted, p
      <4>3. t + (n + 1) - 1 = t + n
        BY <1>0
      <4>4. Counted(n + 1, u + 1)
        BY <1>0, <3>10, <4>1, <4>2, <4>3 DEF Counted, p
      <4> QED BY <4>4
    <3> QED BY <3>9, <3>10
  <2> HIDE DEF T
  <2> QED BY <2>1, <2>2, Induction
<1> HIDE DEF Counted
<1>5. PICK u \in Nat : Counted(k, u)
  BY <1>0, <1>4
<1> DEFINE q == ParseHeaders(R[t], y)
<1>6. q = With(R[t + k], u)
  BY <1>2, <1>3, <1>5 DEF Counted
<1>7. R[t + k] \in Parsers
  BY <1>0, <1>1
<1> HIDE DEF q
<1>8. With(q, 0) = R[t + k] /\ q.used = u
  BY <1>6, <1>7, Counting
<1>9. /\ [q EXCEPT !.used = 0] = R[t + k]
      /\ ~ Decided(R[t]) /\ Decided(R[t + k]) =>
           /\ q.used \in 1 .. k
           /\ ~ Decided(R[t + q.used - 1]) /\ Decided(R[t + q.used])
  BY <1>5, <1>8 DEF Counted, With
<1> QED BY <1>9 DEF q, y, R

\* After the decision nothing changes.
LEMMA StaysDecided ==
    ASSUME NEW x \in Seq(Characters), NEW i \in 0 .. Len(x), Decided(Reading(x)[i]),
           NEW j \in i .. Len(x)
    PROVE  Reading(x)[j] = Reading(x)[i]
<1> DEFINE R == Reading(x)
           T == {n \in Nat : i + n <= Len(x) => R[i + n] = R[i]}
<1>0. Len(x) \in Nat /\ i \in Nat
  OBVIOUS
<1>1. \A k \in 1 .. Len(x) : R[k] = IF Decided(R[k - 1]) THEN R[k - 1] ELSE Fed(R[k - 1], x[k])
  BY ReadingRuns DEF Runs
<1> HIDE DEF R
<1>2. Nat \subseteq T
  <2>1. 0 \in T
    BY <1>0
  <2>2. ASSUME NEW n \in Nat, n \in T PROVE n + 1 \in T
    <3> SUFFICES ASSUME i + (n + 1) <= Len(x) PROVE R[i + (n + 1)] = R[i]
      OBVIOUS
    <3> DEFINE k == i + (n + 1)
    <3>1. k \in 1 .. Len(x) /\ k - 1 = i + n /\ R[i + n] = R[i]
      BY <1>0, <2>2
    <3> HIDE DEF k
    <3>2. R[k] = IF Decided(R[k - 1]) THEN R[k - 1] ELSE Fed(R[k - 1], x[k])
      BY <1>1, <3>1
    <3>3. Decided(R[i])
      BY DEF R
    <3> QED BY <3>1, <3>2, <3>3 DEF k
  <2> HIDE DEF T
  <2> QED BY <2>1, <2>2, Induction
<1> DEFINE n == j - i
<1>3. n \in Nat /\ i + n = j /\ j <= Len(x)
  BY <1>0
<1> HIDE DEF n
<1>4. n \in T
  BY <1>2, <1>3
<1>5. R[j] = R[i]
  BY <1>3, <1>4
<1> QED BY <1>5 DEF R

\* As far as a text is the head of a request, so is the parser.
LEMMA FollowsHead ==
    ASSUME NEW r, IsRequest(r), NEW x \in Seq(Characters), NEW n \in 0 .. Len(x),
           n <= Len(HeadText(r)), \A i \in 1 .. n : x[i] = HeadText(r)[i]
    PROVE  /\ Len(HeadText(r)) \in Nat /\ HeadText(r) \in Seq(Characters)
           /\ \A i \in 0 .. n : IF i < Len(HeadText(r)) THEN ~ Decided(Reading(x)[i])
                                ELSE Reading(x)[i] = Final(r)
<1> DEFINE R == Reading(x)
           H == HeadText(r)
<1>1. PICK P \in [0 .. Len(H) -> Parsers] :
        /\ P[0] = NewParser /\ P[Len(H)] = Final(r)
        /\ \A i \in 1 .. Len(H) : ~ Decided(P[i - 1]) /\ P[i] = Fed(P[i - 1], H[i])
  BY ReadsHead DEF Reads
<1>2. H \in Seq(Characters) /\ Len(H) \in Nat
  BY ReadsHead
<1>3. /\ R[0] = NewParser
      /\ \A k \in 1 .. Len(x) : R[k] = IF Decided(R[k - 1]) THEN R[k - 1] ELSE Fed(R[k - 1], x[k])
  BY ReadingRuns DEF Runs
<1> HIDE DEF R, H
<1>4. Len(x) \in Nat /\ n \in Nat /\ n <= Len(H) /\ n <= Len(x) /\ \A i \in 1 .. n : x[i] = H[i]
  BY DEF H
<1> DEFINE T == {k \in Nat : k <= n => R[k] = P[k]}
<1>5. Nat \subseteq T
  <2>1. 0 \in T
    BY <1>1, <1>3
  <2>2. ASSUME NEW k \in Nat, k \in T PROVE k + 1 \in T
    <3> SUFFICES ASSUME k + 1 <= n PROVE R[k + 1] = P[k + 1]
      OBVIOUS
    <3> DEFINE j == k + 1
    <3>1. j \in 1 .. n /\ j \in 1 .. Len(H) /\ j \in 1 .. Len(x) /\ j - 1 = k /\ R[k] = P[k]
      BY <1>2, <1>4, <2>2
    <3> HIDE DEF j
    <3>2. R[j] = IF Decided(R[j - 1]) THEN R[j - 1] ELSE Fed(R[j - 1], x[j])
      BY <1>3, <3>1
    <3>3. ~ Decided(P[j - 1]) /\ P[j] = Fed(P[j - 1], H[j]) /\ x[j] = H[j]
      BY <1>1, <1>4, <3>1
    <3>4. R[j] = P[j]
      BY <3>1, <3>2, <3>3
    <3> QED BY <3>4 DEF j
  <2> HIDE DEF T
  <2> QED BY <2>1, <2>2, Induction
<1>6. ASSUME NEW i \in 0 .. n
      PROVE  IF i < Len(H) THEN ~ Decided(R[i]) ELSE R[i] = Final(r)
  <2>1. R[i] = P[i]
    BY <1>4, <1>5
  <2>2. CASE i < Len(H)
    <3>1. i + 1 \in 1 .. Len(H) /\ (i + 1) - 1 = i
      BY <1>2, <1>4, <2>2
    <3>2. ~ Decided(P[i])
      BY <1>1, <3>1, Zenon
    <3> QED BY <2>1, <2>2, <3>2
  <2>3. CASE ~ (i < Len(H))
    <3>1. i = Len(H)
      BY <1>2, <1>4, <2>3
    <3> QED BY <1>1, <2>1, <2>3, <3>1
  <2> QED BY <2>2, <2>3
<1> QED BY <1>2, <1>6 DEF R, H

\* A control character ends the reading in refusal, wherever it comes in a head.
LEMMA ControlRefused ==
    ASSUME NEW p
    PROVE  NextState(p, "ctl") = "false"
<1>1. "ctl" \in Controls /\ ~ NameChar("ctl") /\ ~ Printable("ctl") /\ ~ Blank("ctl")
      /\ "ctl" \notin Digits
  BY Apart DEF Controls, NameChar, Printable, Blank, NameTokens
<1>2. InRequestLine(p, "ctl") = "false"
  BY <1>1 DEF InRequestLine
<1>3. InHeaders(p, "ctl") = "false"
  BY <1>1 DEF InHeaders
<1> QED BY <1>2, <1>3 DEF NextState

\* Once nothing fits, the parser has failed.
LEMMA FedFalse ==
    ASSUME NEW p \in Parsers, NEW c \in Characters, NextState(p, c) = "false"
    PROVE  Fed(p, c).state = "false"
<1> DEFINE q == Stored(p, c)
<1>1. q = p
  BY DEF Stored
<1> QED BY <1>1 DEF Fed, Parsers

\* The text of a request.
LEMMA WholeIsText ==
    ASSUME NEW r, IsRequest(r)
    PROVE  /\ HeadText(r) \in Seq(Characters) /\ r.body \in Seq(Characters)
           /\ WholeText(r) \in Seq(Characters)
           /\ Len(WholeText(r)) = Len(HeadText(r)) + Len(r.body)
           /\ Len(HeadText(r)) \in Nat /\ Len(r.body) \in Nat /\ Len(r.body) < Sizes
           /\ \A i \in 1 .. Len(WholeText(r)) :
                WholeText(r)[i] = IF i <= Len(HeadText(r)) THEN HeadText(r)[i]
                                  ELSE r.body[i - Len(HeadText(r))]
<1>1. HeadText(r) \in Seq(Characters)
  BY ReadsHead
<1>2. r.body \in Seq(Characters) /\ Len(r.body) < Sizes
  BY DEF IsRequest
<1> QED BY <1>1, <1>2, ConcatProperties DEF WholeText

\* What may arrive is the text of the request up to where its client went away, or has a
\* control character in the head.
LEMMA TextsOf ==
    ASSUME NEW c, NEW r, IsRequest(r), NEW x \in Texts(c, r)
    PROVE  /\ x \in Seq(Characters)
           /\ \/ /\ Len(x) <= Len(WholeText(r))
                 /\ \A i \in 1 .. Len(x) : x[i] = WholeText(r)[i]
              \/ \E k \in 1 .. Len(HeadText(r)) :
                    /\ k <= Len(x) /\ x[k] = "ctl"
                    /\ \A i \in 1 .. k - 1 : x[i] = HeadText(r)[i]
<1> DEFINE W == WholeText(r)
           H == HeadText(r)
           b == r.body
<1>1. /\ H \in Seq(Characters) /\ b \in Seq(Characters) /\ W \in Seq(Characters)
      /\ Len(H) \in Nat /\ Len(W) \in Nat /\ DOMAIN H = 1 .. Len(H)
  BY WholeIsText
<1> HIDE DEF W, H, b
<1>2. CASE x = W
  BY <1>1, <1>2 DEF W
<1>3. ASSUME NEW n \in 1 .. MaxBegun, n <= Len(W), x = SubSeq(W, 1, n)
      PROVE  x \in Seq(Characters) /\ Len(x) <= Len(W) /\ \A i \in 1 .. Len(x) : x[i] = W[i]
  BY <1>1, <1>3, SubSeqProperties, HttpAssumption, SMTT(30)
<1>4. ASSUME NEW k \in 1 .. Len(H), x = ReplaceAt(H, k, "ctl") \o b
      PROVE  /\ x \in Seq(Characters) /\ k <= Len(x) /\ x[k] = "ctl"
             /\ \A i \in 1 .. k - 1 : x[i] = H[i]
  <2> DEFINE g == ReplaceAt(H, k, "ctl")
  <2>1. "ctl" \in Characters
    BY TokensAssumption DEF Controls
  <2>2. /\ g \in Seq(Characters) /\ Len(g) = Len(H) /\ g[k] = "ctl"
        /\ \A i \in 1 .. Len(H) : i # k => g[i] = H[i]
    BY <1>1, <2>1 DEF ReplaceAt
  <2> HIDE DEF g
  <2>3. /\ g \o b \in Seq(Characters) /\ Len(g \o b) = Len(g) + Len(b) /\ Len(b) \in Nat
        /\ \A i \in 1 .. Len(g) : (g \o b)[i] = g[i]
    BY <1>1, <2>2, SMTT(30)
  <2>4. x = g \o b
    BY <1>4 DEF g
  <2>5. k \in 1 .. Len(g) /\ x[k] = g[k] /\ k <= Len(x)
    BY <1>1, <2>2, <2>3, <2>4
  <2>6. \A i \in 1 .. k - 1 : i \in 1 .. Len(g) /\ i # k
    BY <1>1, <2>2
  <2> QED BY <2>2, <2>3, <2>4, <2>5, <2>6
<1>5. \/ x = W
      \/ \E n \in 1 .. MaxBegun : n <= Len(W) /\ x = SubSeq(W, 1, n)
      \/ \E k \in 1 .. Len(H) : x = ReplaceAt(H, k, "ctl") \o b
  <2>1. CASE c \in Fragile
    <3>1. \E n \in {k \in 1 .. MaxBegun : k <= Len(W)} : x = SubSeq(W, 1, n)
      BY <2>1 DEF Texts, W
    <3> QED BY <3>1
  <2>2. CASE c \notin Fragile
    <3>1. x = W \/ \E k \in IF r \in Garbled THEN DOMAIN H ELSE {} : x = ReplaceAt(H, k, "ctl") \o b
      BY <2>2 DEF Texts, W, H, b
    <3> QED BY <1>1, <3>1
  <2> QED BY <2>1, <2>2
<1>6. CASE \E n \in 1 .. MaxBegun : n <= Len(W) /\ x = SubSeq(W, 1, n)
  BY <1>3, <1>6 DEF W
<1>7. CASE \E k \in 1 .. Len(H) : x = ReplaceAt(H, k, "ctl") \o b
  BY <1>4, <1>7 DEF H
<1> QED BY <1>2, <1>5, <1>6, <1>7

\* When the parser takes what arrived for the head of a request, nothing in it is
\* damaged, the parser has just come to the end of the head, and it has what is meant.
LEMMA HeadInText ==
    ASSUME NEW c, NEW r, IsRequest(r), NEW x \in Texts(c, r),
           NEW i \in 0 .. Len(x), Reading(x)[i].state = "true"
    PROVE  /\ x \in Seq(Characters)
           /\ Len(HeadText(r)) <= i
           /\ Len(x) <= Len(WholeText(r))
           /\ \A k \in 1 .. Len(x) : x[k] = WholeText(r)[k]
           /\ \A j \in 0 .. Len(x) : IF j < Len(HeadText(r)) THEN ~ Decided(Reading(x)[j])
                                     ELSE Reading(x)[j] = Final(r)
<1> DEFINE R == Reading(x)
           H == HeadText(r)
           W == WholeText(r)
<1>1. /\ H \in Seq(Characters) /\ Len(H) \in Nat /\ Len(W) \in Nat /\ Len(H) <= Len(W)
      /\ \A j \in 1 .. Len(H) : W[j] = H[j]
  BY WholeIsText
<1>2. x \in Seq(Characters) /\ Len(x) \in Nat
  BY TextsOf
<1>3. Decided(R[i])
  BY DEF Decided
<1>4. CASE Len(x) <= Len(W) /\ \A j \in 1 .. Len(x) : x[j] = W[j]
  <2>1. Len(H) <= i
    <3> SUFFICES ASSUME i < Len(H) PROVE FALSE
      BY <1>1, <1>2
    <3>1. i \in 0 .. Len(x) /\ i <= Len(H) /\ \A j \in 1 .. i : x[j] = H[j]
      BY <1>1, <1>2, <1>4
    <3>2. \A j \in 0 .. i : IF j < Len(H) THEN ~ Decided(R[j]) ELSE R[j] = Final(r)
      BY <1>2, <3>1, FollowsHead
    <3>3. i \in 0 .. i
      BY <1>2
    <3> QED BY <1>3, <3>2, <3>3
  <2> DEFINE n == Len(H)
  <2>2. n \in 0 .. Len(x) /\ n <= Len(H) /\ \A j \in 1 .. n : x[j] = H[j]
    BY <1>1, <1>2, <1>4, <2>1
  <2>3. \A j \in 0 .. n : IF j < Len(H) THEN ~ Decided(R[j]) ELSE R[j] = Final(r)
    BY <1>2, <2>2, FollowsHead
  <2>4. ASSUME NEW j \in 0 .. Len(x)
        PROVE  IF j < Len(H) THEN ~ Decided(R[j]) ELSE R[j] = Final(r)
    <3>1. CASE j < Len(H)
      BY <1>1, <2>3, <3>1
    <3>2. CASE ~ (j < Len(H))
      <4>1. R[n] = Final(r)
        <5>1. n \in 0 .. n /\ ~ (n < Len(H))
          BY <1>1
        <5> QED BY <2>3, <5>1
      <4>2. Decided(R[n])
        BY <4>1 DEF Decided, Final, In
      <4>3. j \in n .. Len(x)
        BY <1>1, <3>2
      <4>4. R[j] = R[n]
        BY <1>2, <2>2, <4>2, <4>3, StaysDecided
      <4> QED BY <3>2, <4>1, <4>4
    <3> QED BY <3>1, <3>2
  <2> QED BY <1>2, <1>4, <2>1, <2>4
<1>5. ASSUME NEW k \in 1 .. Len(H), k <= Len(x), x[k] = "ctl", \A j \in 1 .. k - 1 : x[j] = H[j]
      PROVE  FALSE
  <2> DEFINE n == k - 1
  <2>1. n \in 0 .. Len(x) /\ n < Len(H) /\ n <= Len(H) /\ n \in 0 .. n /\ \A j \in 1 .. n : x[j] = H[j]
    BY <1>1, <1>2, <1>5
  <2>2. \A j \in 0 .. n : IF j < Len(H) THEN ~ Decided(R[j]) ELSE R[j] = Final(r)
    BY <1>2, <2>1, FollowsHead
  <2>3. \A j \in 0 .. n : ~ Decided(R[j])
    BY <1>1, <2>1, <2>2
  <2>4. k \in 1 .. Len(x) /\ R \in [0 .. Len(x) -> Parsers] /\ x[k] \in Characters
        /\ R[k] = IF Decided(R[k - 1]) THEN R[k - 1] ELSE Fed(R[k - 1], x[k])
    <3>1. k \in 1 .. Len(x)
      BY <1>2, <1>5
    <3>2. /\ R \in [0 .. Len(x) -> Parsers]
          /\ \A j \in 1 .. Len(x) : R[j] = IF Decided(R[j - 1]) THEN R[j - 1] ELSE Fed(R[j - 1], x[j])
      BY <1>2, ReadingRuns DEF Runs
    <3> QED BY <1>2, <3>1, <3>2
  <2>5. R[k] = Fed(R[n], "ctl") /\ R[n] \in Parsers
    BY <1>5, <2>1, <2>3, <2>4
  <2>6. R[k].state = "false"
    BY <1>5, <2>4, <2>5, ControlRefused, FedFalse
  <2>7. CASE i < k
    <3>1. i \in 0 .. n
      BY <1>1, <1>2, <2>7
    <3> QED BY <1>3, <2>3, <3>1
  <2>8. CASE ~ (i < k)
    <3>1. i \in k .. Len(x) /\ k \in 0 .. Len(x)
      BY <1>1, <1>2, <2>4, <2>8
    <3>2. Decided(R[k])
      BY <2>6 DEF Decided
    <3>3. R[i] = R[k]
      BY <1>2, <3>1, <3>2, StaysDecided
    <3> QED BY <2>6, <3>3
  <2> QED BY <2>7, <2>8
<1> QED BY <1>4, <1>5, TextsOf

-----------------------------------------------------------------------------
(* What a read of the server is of the request *)

\* What one read of the first t tokens would give.
LEMMA OneRead ==
    ASSUME NEW x \in Seq(Characters), NEW t \in 0 .. Len(x)
    PROVE  [ParseHeaders(NewParser, SubSeq(x, 1, t)) EXCEPT !.used = 0] = Reading(x)[t]
<1> DEFINE R == Reading(x)
<1>1. R[0] = NewParser
  BY ReadingRuns DEF Runs
<1>2. Len(x) \in Nat /\ 0 \in 0 .. Len(x) /\ t \in 0 .. Len(x) - 0
  OBVIOUS
<1>3. [ParseHeaders(R[0], SubSeq(x, 0 + 1, 0 + t)) EXCEPT !.used = 0] = R[0 + t]
  BY <1>2, CutsDoNotMatter
<1>4. 0 + 1 = 1 /\ 0 + t = t
  OBVIOUS
<1> QED BY <1>1, <1>3, <1>4

\* The read that ends the head: what is left of it is the start of the body.
LEMMA HeadIsRead ==
    ASSUME NEW c, NEW r, IsRequest(r), NEW x \in Texts(c, r),
           NEW t \in 0 .. Len(x), NEW k \in 0 .. Len(x) - t, NEW q, NEW rest,
           q = ParseHeaders(Reading(x)[t], SubSeq(x, t + 1, t + k)),
           rest = SubSeq(SubSeq(x, t + 1, t + k), q.used + 1, k),
           ~ Decided(Reading(x)[t]), Reading(x)[t + k].state = "true"
    PROVE  LET n == t + k - Len(HeadText(r))
           IN  /\ Reading(x)[t + k] = Final(r)
               /\ n \in 0 .. Len(r.body)
               /\ rest = SubSeq(r.body, 1, n)
               /\ IsPrefix(x, WholeText(r))
<1> DEFINE R == Reading(x)
           H == HeadText(r)
           W == WholeText(r)
           b == r.body
           y == SubSeq(x, t + 1, t + k)
           n == t + k - Len(H)
<1>1. x \in Seq(Characters) /\ Len(x) \in Nat /\ t \in Nat /\ k \in Nat /\ t + k <= Len(x)
  <2>1. x \in Seq(Characters)
    BY TextsOf
  <2> QED BY <2>1
<1>2. Decided(R[t + k]) => /\ q.used \in 1 .. k
                           /\ ~ Decided(R[t + q.used - 1]) /\ Decided(R[t + q.used])
  BY <1>1, CutsDoNotMatter
<1>3. R[t + k].state = "true" /\ t + k \in 0 .. Len(x)
  BY <1>1
<1>4. /\ Len(H) <= t + k
      /\ Len(x) <= Len(W)
      /\ \A i \in 1 .. Len(x) : x[i] = W[i]
      /\ \A j \in 0 .. Len(x) : IF j < Len(H) THEN ~ Decided(R[j]) ELSE R[j] = Final(r)
  BY <1>3, HeadInText
<1>5. /\ H \in Seq(Characters) /\ b \in Seq(Characters) /\ W \in Seq(Characters)
      /\ Len(H) \in Nat /\ Len(b) \in Nat /\ Len(W) = Len(H) + Len(b)
      /\ \A i \in 1 .. Len(W) : W[i] = IF i <= Len(H) THEN H[i] ELSE b[i - Len(H)]
  BY WholeIsText
<1> HIDE DEF R, H, W, b
<1>6. R[t + k] = Final(r)
  BY <1>3, <1>4, <1>5
<1>7. q.used \in 1 .. k /\ ~ Decided(R[t + q.used - 1]) /\ Decided(R[t + q.used])
  BY <1>2, <1>3 DEF Decided
<1>8. t + q.used = Len(H)
  <2>1. t + q.used \in 0 .. Len(x) /\ t + q.used - 1 \in 0 .. Len(x)
    BY <1>1, <1>7
  <2>2. ~ (t + q.used < Len(H))
    BY <1>4, <1>7, <2>1
  <2>3. t + q.used - 1 < Len(H)
    <3>1. Decided(Final(r))
      BY DEF Decided, Final, In
    <3> QED BY <1>4, <1>7, <2>1, <3>1
  <2> QED BY <1>1, <1>5, <1>7, <2>2, <2>3, SMTT(30)
<1>9. y \in Seq(Characters) /\ Len(y) = k /\ \A i \in 1 .. k : y[i] = x[t + i]
  BY <1>1, SubSeqProperties
<1> HIDE DEF y
<1> DEFINE u == q.used
           z == SubSeq(y, u + 1, k)
           a == SubSeq(b, 1, n)
<1>10. u \in 1 .. k /\ t + u = Len(H)
  BY <1>7, <1>8
<1> HIDE DEF u
<1>11. u \in 1 .. k /\ n = k - u /\ n \in 0 .. Len(b)
  <2>1. Len(x) <= Len(W) /\ Len(H) \in Nat /\ Len(b) \in Nat /\ Len(W) = Len(H) + Len(b)
    BY <1>4, <1>5
  <2> QED BY <1>1, <1>10, <2>1
<1> HIDE DEF n
<1>12. z \in Seq(Characters) /\ Len(z) = n /\ \A i \in 1 .. n : z[i] = y[u + i]
  <2> DEFINE v == u + 1
  <2>1. v \in 1 .. Len(y) + 1 /\ k \in v - 1 .. Len(y) /\ k - v + 1 = n
        /\ \A i \in 1 .. n : v + i - 1 = u + i
    BY <1>1, <1>9, <1>11
  <2> HIDE DEF v
  <2>2. /\ SubSeq(y, v, k) \in Seq(Characters) /\ Len(SubSeq(y, v, k)) = n
        /\ \A i \in 1 .. n : SubSeq(y, v, k)[i] = y[v + i - 1]
    BY <1>9, <2>1, SubSeqProperties
  <2> QED BY <2>1, <2>2 DEF v
<1>13. a \in Seq(Characters) /\ Len(a) = n /\ \A i \in 1 .. n : a[i] = b[i]
  BY <1>5, <1>11, SubSeqProperties
<1>14. ASSUME NEW i \in 1 .. n PROVE z[i] = a[i]
  <2>1. u + i \in 1 .. k /\ t + (u + i) \in 1 .. Len(x) /\ t + (u + i) = Len(H) + i /\ i \in 1 .. Len(b)
    BY <1>1, <1>11, <1>10
  <2>2. z[i] = x[Len(H) + i]
    BY <1>9, <1>12, <2>1
  <2>3. x[Len(H) + i] = b[i]
    <3>1. Len(H) + i \in 1 .. Len(W) /\ ~ (Len(H) + i <= Len(H)) /\ (Len(H) + i) - Len(H) = i
      BY <1>4, <1>5, <2>1
    <3>2. x[Len(H) + i] = W[Len(H) + i]
      BY <1>4, <2>1
    <3> QED BY <1>5, <3>1, <3>2
  <2> QED BY <1>13, <2>2, <2>3
<1> HIDE DEF z, a
<1>15. z = a
  BY <1>12, <1>13, <1>14, SeqEqual
<1>16. IsPrefix(x, W)
  <2> DEFINE e == SubSeq(x, 1, Len(x))
             f == SubSeq(W, 1, Len(x))
  <2>1. e \in Seq(Characters) /\ Len(e) = Len(x) /\ \A i \in 1 .. Len(x) : e[i] = x[i]
    BY <1>1, SubSeqProperties
  <2>2. f \in Seq(Characters) /\ Len(f) = Len(x) /\ \A i \in 1 .. Len(x) : f[i] = W[i]
    BY <1>1, <1>4, <1>5, SubSeqProperties
  <2> HIDE DEF e, f
  <2>3. e = f
    BY <1>4, <2>1, <2>2, SeqEqual
  <2> QED BY <1>4, <2>3 DEF IsPrefix, e, f
<1> QED BY <1>6, <1>11, <1>15, <1>16 DEF R, y, z, a, n, u, H, W, b

\* A read of the body adds the next tokens of the body.
LEMMA BodyIsRead ==
    ASSUME NEW r, IsRequest(r), NEW x \in Seq(Characters), IsPrefix(x, WholeText(r)),
           NEW t \in Nat, NEW k \in Nat, t + k <= Len(x),
           NEW n \in Nat, Len(HeadText(r)) + n = t
    PROVE  /\ n + k <= Len(r.body)
           /\ SubSeq(r.body, 1, n) \o SubSeq(x, t + 1, t + k) = SubSeq(r.body, 1, n + k)
<1> DEFINE H == HeadText(r)
           W == WholeText(r)
           b == r.body
           y == SubSeq(x, t + 1, t + k)
           a == SubSeq(b, 1, n)
           e == a \o y
           f == SubSeq(b, 1, n + k)
<1>1. /\ H \in Seq(Characters) /\ b \in Seq(Characters) /\ W \in Seq(Characters)
      /\ Len(H) \in Nat /\ Len(b) \in Nat /\ Len(W) = Len(H) + Len(b)
      /\ \A i \in 1 .. Len(W) : W[i] = IF i <= Len(H) THEN H[i] ELSE b[i - Len(H)]
  BY WholeIsText
<1>2. Len(x) \in Nat /\ Len(x) <= Len(W) /\ \A i \in 1 .. Len(x) : x[i] = W[i]
  <2>1. Len(x) <= Len(W) /\ SubSeq(x, 1, Len(x)) = SubSeq(W, 1, Len(x))
    BY DEF IsPrefix
  <2>2. Len(x) \in Nat
    OBVIOUS
  <2> HIDE DEF W
  <2>3. \A i \in 1 .. Len(x) : SubSeq(x, 1, Len(x))[i] = x[i]
    BY <2>2, SubSeqProperties
  <2>4. \A i \in 1 .. Len(x) : SubSeq(W, 1, Len(x))[i] = W[i]
    BY <1>1, <2>1, <2>2, SubSeqProperties
  <2> QED BY <2>1, <2>2, <2>3, <2>4
<1>3. t + k <= Len(x) /\ Len(H) + n = t
  OBVIOUS
<1> HIDE DEF H, W, b
<1>4. n \in Nat /\ n + k <= Len(b) /\ Len(H) + n = t
  BY <1>1, <1>2, <1>3
<1>5. y \in Seq(Characters) /\ Len(y) = k /\ \A i \in 1 .. k : y[i] = x[t + i]
  <2>1. t + k <= Len(x) /\ t \in Nat /\ k \in Nat /\ Len(x) \in Nat
    BY <1>2
  <2> QED BY <2>1, SubSeqProperties
<1> HIDE DEF y
<1>7. a \in Seq(Characters) /\ Len(a) = n /\ \A i \in 1 .. n : a[i] = b[i]
  BY <1>1, <1>4, SubSeqProperties
<1>8. f \in Seq(Characters) /\ Len(f) = n + k /\ \A i \in 1 .. n + k : f[i] = b[i]
  BY <1>1, <1>4, SubSeqProperties
<1> HIDE DEF a, f
<1>9. /\ e \in Seq(Characters) /\ Len(e) = n + k
      /\ \A i \in 1 .. n + k : e[i] = IF i <= n THEN a[i] ELSE y[i - n]
  <2>1. /\ e \in Seq(Characters) /\ Len(e) = Len(a) + Len(y)
        /\ \A i \in 1 .. Len(a) + Len(y) : e[i] = IF i <= Len(a) THEN a[i] ELSE y[i - Len(a)]
    BY <1>5, <1>7, ConcatProperties
  <2> QED BY <1>5, <1>7, <2>1
<1> HIDE DEF e
<1>10. ASSUME NEW i \in 1 .. n + k PROVE e[i] = f[i]
  <2>1. CASE i <= n
    BY <1>4, <1>7, <1>8, <1>9, <2>1
  <2>2. CASE ~ (i <= n)
    <3> DEFINE o == i - n
    <3>1. o \in 1 .. k /\ t + o \in 1 .. Len(x) /\ t + o = Len(H) + i /\ i \in 1 .. Len(b)
      BY <1>2, <1>3, <1>4, <2>2
    <3>2. e[i] = y[o]
      BY <1>9, <2>2
    <3> HIDE DEF o
    <3>3. e[i] = x[Len(H) + i]
      BY <1>5, <3>1, <3>2
    <3>4. Len(H) + i \in 1 .. Len(W) /\ ~ (Len(H) + i <= Len(H)) /\ (Len(H) + i) - Len(H) = i
      BY <1>1, <3>1
    <3>5. x[Len(H) + i] = b[i]
      BY <1>1, <1>2, <3>1, <3>4
    <3> QED BY <1>8, <3>3, <3>5
  <2> QED BY <2>1, <2>2
<1>11. e = f
  BY <1>8, <1>9, <1>10, SeqEqual
<1> QED BY <1>4, <1>11 DEF e, f, a, y, b

\* The subtraction of size_t within its range.
LEMMA MinusValue ==
    ASSUME NEW a \in 0 .. Sizes - 1, NEW b \in 0 .. Sizes - 1
    PROVE  /\ Minus(a, b) = IF b <= a THEN a - b ELSE a - b + Sizes
           /\ Minus(a, b) \in 0 .. Sizes - 1
<1>1. Sizes \in Nat /\ Sizes > 0
  BY HttpAssumption
<1>2. CASE b <= a
  BY <1>1, <1>2 DEF Minus
<1>3. CASE ~ (b <= a)
  BY <1>1, <1>3 DEF Minus
<1> QED BY <1>2, <1>3

\* The declared length is a size_t.
LEMMA LengthInRange ==
    ASSUME NEW p, HasLength(p)
    PROVE  LengthOf(p) \in 0 .. Sizes - 1
<1> DEFINE v == LengthHeaders(p)[1].value
           n == Decimal(Magnitude(v))
<1>1. Sizes \in Nat /\ Sizes > 0
  BY HttpAssumption
<1>2. n \in 0 .. Sizes - 1
  BY DEF HasLength, IsNumber
<1>3. LengthOf(p) = IF Head(v) = "-" THEN (Sizes - n) % Sizes ELSE n
  BY DEF LengthOf, Number
<1> HIDE DEF n, v
<1> QED BY <1>1, <1>2, <1>3

\* Lengths taken off one after the other.
LEMMA MinusTwice ==
    ASSUME NEW a \in 0 .. Sizes - 1, NEW b \in Nat, NEW k \in Nat, b + k <= Sizes - 1
    PROVE  /\ Minus(Minus(a, b), k) = Minus(a, b + k)
           /\ Minus(a, b + k) \in 0 .. Sizes - 1 /\ Minus(a, b) \in 0 .. Sizes - 1
           /\ Minus(a, b + k) = 0 <=> b + k = a
           /\ b + k <= a => Minus(a, b) = a - b
<1>1. Sizes \in Nat /\ Sizes > 0
  BY HttpAssumption
<1>2. b \in 0 .. Sizes - 1 /\ k \in 0 .. Sizes - 1 /\ b + k \in 0 .. Sizes - 1
  BY <1>1
<1> DEFINE e == Minus(a, b)
<1>3. e \in 0 .. Sizes - 1 /\ e = IF b <= a THEN a - b ELSE a - b + Sizes
  BY <1>2, MinusValue
<1> HIDE DEF e
<1>4. Minus(e, k) = IF k <= e THEN e - k ELSE e - k + Sizes
  BY <1>2, <1>3, MinusValue
<1> DEFINE f == b + k
<1>5. Minus(a, f) = (IF f <= a THEN a - f ELSE a - f + Sizes) /\ Minus(a, f) \in 0 .. Sizes - 1
  BY <1>2, MinusValue
<1>6. Minus(e, k) = Minus(a, f)
  BY <1>1, <1>2, <1>3, <1>4, <1>5
<1>7. Minus(a, f) = 0 <=> f = a
  BY <1>1, <1>2, <1>5
<1>8. f <= a => e = a - b
  BY <1>2, <1>3
<1> QED BY <1>3, <1>5, <1>6, <1>7, <1>8 DEF e

\* What the request means and what the parser says of it.
LEMMA FinalParts ==
    ASSUME NEW r
    PROVE  LET p == Final(r)
           IN  /\ [method |-> p.method, destination |-> p.destination, headers |-> p.headers] = Meant(r)
               /\ p.method = r.method /\ (NeedsBody(p) <=> NeedsBody(r))
               /\ p.state = "true"
<1> DEFINE p == Final(r)
<1>1. /\ p.method = Meant(r).method /\ p.destination = Meant(r).destination
      /\ p.headers = Meant(r).headers /\ p.state = "true"
  BY DEF Final, In
<1>2. Meant(r).method = r.method
  BY DEF Meant
<1>3. [method |-> Meant(r).method, destination |-> Meant(r).destination, headers |-> Meant(r).headers]
        = Meant(r)
  BY DEF Meant
<1> HIDE DEF p
<1>4. /\ [method |-> p.method, destination |-> p.destination, headers |-> p.headers] = Meant(r)
      /\ p.method = r.method /\ p.state = "true"
  BY <1>1, <1>2, <1>3
<1>5. NeedsBody(p) <=> NeedsBody(r)
  BY <1>4 DEF NeedsBody
<1> QED BY <1>4, <1>5 DEF p

\* The first tokens of a sequence.
LEMMA StartsWith ==
    ASSUME NEW S, NEW b \in Seq(S), NEW n \in 0 .. Len(b)
    PROVE  Len(SubSeq(b, 1, n)) = n /\ IsPrefix(SubSeq(b, 1, n), b) /\ SubSeq(b, 1, 0) = <<>>
<1> DEFINE a == SubSeq(b, 1, n)
           e == SubSeq(a, 1, n)
<1>1. a \in Seq(S) /\ Len(a) = n /\ n \in Nat /\ n <= Len(b)
  BY SubSeqProperties
<1>2. \A i \in 1 .. n : a[i] = b[i]
  BY SubSeqProperties
<1> HIDE DEF a
<1>3. e \in Seq(S) /\ Len(e) = n /\ \A i \in 1 .. n : e[i] = a[i]
  BY <1>1, SubSeqProperties
<1> HIDE DEF e
<1>4. e = a
  BY <1>1, <1>3, SeqEqual
<1>5. IsPrefix(a, b)
  BY <1>1, <1>4 DEF IsPrefix, e, a
<1>6. SubSeq(b, 1, 0) = <<>>
  BY SubSeqEmpty
<1> QED BY <1>1, <1>5, <1>6 DEF a

-----------------------------------------------------------------------------
(* The inductive invariant *)

\* What is known of the request of a connection.
Read(c) == ReadProgress(c) /\ (Handled(c) => GetsRequest(c))

ServerTypes ==
    /\ proc \in {"up", "stopped", "gone"} /\ listening \in BOOLEAN /\ accepting \in BOOLEAN
    /\ left \in [Conns -> 0 .. Sizes - 1]
    /\ DOMAIN sent = Conns /\ DOMAIN taken = Conns

ReadingInv == Inv /\ ServerTypes /\ \A c \in Conns : Read(c)

\* What the runs check follows.
LEMMA ReadingInvMeans == ReadingInv => TypeOK /\ ReadInv /\ HandlerGetsRequest
BY DEF ReadingInv, Inv, Types, ServerTypes, Read, TypeOK, ReadInv, HandlerGetsRequest

\* The read of a connection stays as it is ...
Unread(d) ==
    /\ sent'[d] = sent[d] /\ taken'[d] = taken[d] /\ parser'[d] = parser[d]
    /\ body'[d] = body[d] /\ left'[d] = left[d]
    /\ step'[d] = "none" \/ step[d] # "none"

\* A step that reads nothing keeps what is known of a connection ...
LEMMA UnreadKeeps ==
    ASSUME NEW d \in Conns, Read(d), Unread(d), conn'[d] = conn[d]
    PROVE  Read(d)'
<1>1. ReadProgress(d)'
  BY DEF Unread, Read, ReadProgress, AsOneRead, Intact
<1>2. Handled(d)' => GetsRequest(d)'
  BY DEF Unread, Read, Handled, GetsRequest, Intact
<1> QED BY <1>1, <1>2 DEF Read

\* ... or is over.
LEMMA OverKeeps ==
    ASSUME NEW d \in Conns, Read(d), Unread(d), conn[d] # "new",
           conn'[d] \notin {"new", "backlog", "headers", "body"}
    PROVE  Read(d)'
<1>1. ReadProgress(d)'
  BY DEF Unread, Read, ReadProgress
<1>2. Handled(d)' => GetsRequest(d)'
  BY DEF Unread, Read, Handled, GetsRequest, Intact
<1> QED BY <1>1, <1>2 DEF Read

\* The request of a connection that has one.
LEMMA Requested ==
    ASSUME NEW c \in Conns, Read(c), conn[c] # "new"
    PROVE  /\ IsRequest(sent[c].request) /\ sent[c].request \in Requests[c]
           /\ sent[c].text \in Texts(c, sent[c].request) /\ sent[c].text \in Seq(Characters)
           /\ taken[c] \in Nat /\ Len(sent[c].text) \in Nat /\ taken[c] <= Len(sent[c].text)
<1>1. /\ sent[c].request \in Requests[c] /\ sent[c].text \in Texts(c, sent[c].request)
      /\ taken[c] \in 0 .. Len(sent[c].text)
  BY DEF Read, ReadProgress
<1>2. IsRequest(sent[c].request)
  BY <1>1, RequestsAssumption
<1>3. sent[c].text \in Seq(Characters)
  BY <1>1, <1>2, TextsOf
<1>4. Len(sent[c].text) \in Nat
  BY <1>3
<1> QED BY <1>1, <1>2, <1>3, <1>4

\* A step of one connection keeps the invariant when it keeps what concerns that one.
LEMMA OneConnection ==
    ASSUME ReadingInv, Inv', ServerTypes', NEW c \in Conns, Read(c)',
           \A d \in Conns \ {c} : Unread(d) /\ conn'[d] = conn[d]
    PROVE  ReadingInv'
BY UnreadKeeps DEF ReadingInv

\* A client connects: nothing has been read.
LEMMA ConnectReads ==
    ASSUME ReadingInv, Inv', NEW c \in Conns, Connect(c)
    PROVE  ReadingInv'
<1>0. PICK r \in Requests[c] :
        \E x \in Texts(c, r) : sent' = [sent EXCEPT ![c] = [request |-> r, text |-> x]]
  BY DEF Connect
<1>1. PICK x \in Texts(c, r) : sent' = [sent EXCEPT ![c] = [request |-> r, text |-> x]]
  BY <1>0
<1>2. /\ conn[c] = "new" /\ conn' = [conn EXCEPT ![c] = "backlog"]
      /\ UNCHANGED <<proc, listening, accepting, taken, parser, body, left, step>>
  BY DEF Connect, serverVars, apiVars
<1>3. DOMAIN conn = Conns /\ DOMAIN sent = Conns /\ Read(c)
  BY DEF ReadingInv, Inv, Types, ServerTypes
<1>4. conn'[c] = "backlog" /\ sent'[c] = [request |-> r, text |-> x]
  BY <1>1, <1>2, <1>3
<1>5. ServerTypes'
  BY <1>1, <1>2 DEF ReadingInv, ServerTypes
<1>6. taken[c] = 0 /\ parser[c] = NewParser /\ step[c] = "none"
  BY <1>2 DEF ReadingInv, Read, ReadProgress, Inv, ConnInv, HandlerProgress
<1>7. Len(x) \in Nat
  <2>1. IsRequest(r)
    BY RequestsAssumption
  <2>2. x \in Seq(Characters)
    BY <2>1, TextsOf
  <2> QED BY <2>2
<1>8. Read(c)'
  BY <1>2, <1>4, <1>6, <1>7 DEF Read, ReadProgress, Handled
<1>9. \A d \in Conns \ {c} : Unread(d) /\ conn'[d] = conn[d]
  BY <1>1, <1>2, <1>3 DEF Unread
<1> QED BY <1>5, <1>8, <1>9, OneConnection

\* Steps that read nothing: a connection is accepted, closed, or stays as it is.
LEMMA AcceptReads ==
    ASSUME ReadingInv, Inv', NEW w \in Workers, NEW c \in Conns, Accept(w, c)
    PROVE  ReadingInv'
<1>1. /\ conn[c] = "backlog"
      /\ conn' = [conn EXCEPT ![c] = "headers"] \/ conn' = [conn EXCEPT ![c] = "closed"]
      /\ UNCHANGED <<proc, listening, accepting, sent, taken, parser, body, left, step>>
  BY DEF Accept, serverVars, apiVars
<1>2. DOMAIN conn = Conns /\ Read(c) /\ ServerTypes
  BY DEF ReadingInv, Inv, Types
<1>3. ServerTypes'
  BY <1>1, <1>2 DEF ServerTypes
<1>4. \A d \in Conns \ {c} : Unread(d) /\ conn'[d] = conn[d]
  BY <1>1, <1>2 DEF Unread
<1>5. CASE conn' = [conn EXCEPT ![c] = "closed"]
  <2>1. conn'[c] = "closed"
    BY <1>2, <1>5
  <2>2. Read(c)'
    BY <1>1, <1>2, <2>1, OverKeeps DEF Unread
  <2> QED BY <1>3, <1>4, <2>2, OneConnection
<1>6. CASE conn' = [conn EXCEPT ![c] = "headers"]
  <2> DEFINE x == sent[c].text
  <2>1. conn'[c] = "headers" /\ taken[c] = 0 /\ parser[c] = NewParser /\ step[c] = "none"
    BY <1>1, <1>2, <1>6 DEF Read, ReadProgress, ReadingInv, Inv, ConnInv, HandlerProgress
  <2>2. x \in Seq(Characters)
    BY <1>1, <1>2, Requested
  <2>3. [ParseHeaders(NewParser, SubSeq(x, 1, 0)) EXCEPT !.used = 0] = NewParser
    <3>1. 0 \in 0 .. Len(x)
      BY <2>2
    <3>2. Reading(x)[0] = NewParser
      BY <2>2, ReadingRuns DEF Runs
    <3> QED BY <2>2, <3>1, <3>2, OneRead
  <2>4. parser[c] = AsOneRead(c) /\ ~ Decided(parser[c])
    BY <2>1, <2>3 DEF AsOneRead, Decided, NewParser
  <2>5. AsOneRead(c)' = AsOneRead(c)
    BY <1>1 DEF AsOneRead
  <2>6. ReadProgress(c)'
    BY <1>1, <1>2, <2>1, <2>4, <2>5 DEF Read, ReadProgress
  <2>7. Read(c)'
    BY <1>1, <2>1, <2>6 DEF Read, Handled
  <2> QED BY <1>3, <1>4, <2>7, OneConnection
<1> QED BY <1>1, <1>5, <1>6

\* A read fails, or the response has been written.
LEMMA CloseReads ==
    ASSUME ReadingInv, Inv', NEW w \in Workers, NEW c \in Conns, ReadFails(w, c) \/ HandleWrite(w, c)
    PROVE  ReadingInv'
<1>1. /\ conn[c] # "new" /\ conn' = [conn EXCEPT ![c] = "closed"]
      /\ UNCHANGED <<proc, listening, accepting, sent, taken, parser, body, left, step>>
  BY DEF ReadFails, HandleWrite, serverVars, apiVars
<1>2. DOMAIN conn = Conns /\ Read(c) /\ ServerTypes
  BY DEF ReadingInv, Inv, Types
<1>3. ServerTypes' /\ conn'[c] = "closed"
  BY <1>1, <1>2 DEF ServerTypes
<1>4. \A d \in Conns \ {c} : Unread(d) /\ conn'[d] = conn[d]
  BY <1>1, <1>2 DEF Unread
<1>5. Read(c)'
  BY <1>1, <1>2, <1>3, OverKeeps DEF Unread
<1> QED BY <1>3, <1>4, <1>5, OneConnection

\* operator() returns, and runs on.
LEMMA AnswerReads ==
    ASSUME ReadingInv, Inv', NEW w \in Workers, Answer(w)
    PROVE  ReadingInv'
<1>0. PICK c \in Conns : c = thread[w]
  BY DEF Answer
<1>1. /\ conn' = [conn EXCEPT ![c] = "writing"]
      /\ UNCHANGED <<proc, listening, accepting, sent, taken, parser, body, left, step>>
  BY <1>0 DEF Answer, Respond, apiVars
<1>2. conn[c] = "handling"
  BY <1>0 DEF ReadingInv, Inv, OneThread
<1>3. DOMAIN conn = Conns /\ Read(c) /\ ServerTypes
  BY <1>1 DEF ReadingInv, Inv, Types
<1>4. ServerTypes' /\ conn'[c] = "writing"
  BY <1>1, <1>3 DEF ServerTypes
<1>5. \A d \in Conns \ {c} : Unread(d) /\ conn'[d] = conn[d]
  BY <1>1, <1>3 DEF Unread
<1>6. Read(c)'
  BY <1>1, <1>2, <1>3, <1>4, OverKeeps DEF Unread
<1> QED BY <1>1, <1>4, <1>5, <1>6, OneConnection

\* A step of a handler reads nothing.
LEMMA WorkReads ==
    ASSUME ReadingInv, Inv', NEW w \in Workers, Work(w)
    PROVE  ReadingInv'
<1> DEFINE c == thread[w]
<1>1. /\ c \in Conns /\ HandlerStep(c, body[c])
      /\ UNCHANGED <<proc, listening, accepting, conn, sent, taken, parser, body, left>>
  BY DEF Work, serverVars, connVars
<1> HIDE DEF c
<1>2. step[c] # "none" /\ \A d \in Conns \ {c} : step'[d] = step[d]
  <2>1. DOMAIN step = Conns
    BY DEF ReadingInv, Inv, Types
  <2> QED BY <1>1, <2>1 DEF HandlerStep, ParseEntry, StartCalls, Call, CallThrows, Succeed, Reply
<1>3. \A d \in Conns : Unread(d) /\ conn'[d] = conn[d]
  BY <1>1, <1>2 DEF Unread
<1>4. ServerTypes'
  BY <1>1 DEF ReadingInv, ServerTypes
<1> QED BY <1>3, <1>4, UnreadKeeps DEF ReadingInv

\* All other steps leave the connections alone.
LEMMA QuietReads ==
    ASSUME ReadingInv, Inv',
           \/ \E c \in Conns : GoAway(c)
           \/ \E w \in Workers : Listen(w) \/ RunReturns(w) \/ \E c \in Conns : EndpointThrows(w, c)
           \/ Stop \/ Exit \/ UNCHANGED vars
    PROVE  ReadingInv'
<1>1. UNCHANGED <<conn, sent, taken, parser, body, left, step>>
  BY DEF GoAway, Listen, RunReturns, EndpointThrows, Stop, Exit, vars, connVars, serverVars, apiVars
<1>2. proc' \in {"up", "stopped", "gone"} /\ listening' \in BOOLEAN /\ accepting' \in BOOLEAN
  BY DEF ReadingInv, ServerTypes, GoAway, Listen, RunReturns, EndpointThrows, Stop, Exit, ProcessEnds,
         vars, connVars, serverVars, apiVars
<1>3. ServerTypes'
  BY <1>1, <1>2 DEF ReadingInv, ServerTypes
<1>4. \A d \in Conns : Unread(d) /\ conn'[d] = conn[d]
  BY <1>1 DEF Unread
<1> QED BY <1>3, <1>4, UnreadKeeps DEF ReadingInv

\* A read of the head.
LEMMA HeadersRead ==
    ASSUME ReadingInv, Inv', NEW w \in Workers, NEW c \in Conns, HandleReadHeaders(w, c)
    PROVE  ReadingInv'
<1>0. PICK x, r, t : x = sent[c].text /\ r = sent[c].request /\ t = taken[c]
  OBVIOUS
<1>1. PICK k \in ReadSizes(c) :
        LET read == ParseHeaders(parser[c], Chunk(c, k))
            p == [read EXCEPT !.used = 0]
        IN  /\ taken' = [taken EXCEPT ![c] = @ + k]
            /\ parser' = [parser EXCEPT ![c] = p]
            /\ \/ /\ p.state = "true"
                  /\ HeadComplete(w, c, p, SubSeq(Chunk(c, k), read.used + 1, k))
               \/ /\ p.state = "false"
                  /\ Respond(c, "bad_request")
                  /\ UNCHANGED <<body, left, serverVars, apiVars>>
               \/ /\ ~ Decided(p)
                  /\ UNCHANGED <<conn, body, left, serverVars, answers, apiVars>>
  BY DEF HandleReadHeaders
<1> DEFINE q == ParseHeaders(parser[c], Chunk(c, k))
           p == [q EXCEPT !.used = 0]
           rest == SubSeq(Chunk(c, k), q.used + 1, k)
<1>2. conn[c] = "headers" /\ sent' = sent
  BY DEF HandleReadHeaders
<1>3. /\ DOMAIN conn = Conns /\ DOMAIN taken = Conns /\ DOMAIN parser = Conns /\ DOMAIN body = Conns
      /\ DOMAIN left = Conns /\ Read(c) /\ ServerTypes
      /\ step[c] = "none" /\ body[c] = <<>>
  BY <1>2 DEF ReadingInv, Inv, Types, ServerTypes, ConnInv, HandlerProgress
<1>4. /\ IsRequest(r) /\ r \in Requests[c] /\ x \in Texts(c, r) /\ x \in Seq(Characters)
      /\ t \in Nat /\ Len(x) \in Nat /\ t <= Len(x)
  BY <1>0, <1>2, <1>3, Requested
<1>5. k \in Nat /\ k # 0 /\ t + k <= Len(x) /\ Chunk(c, k) = SubSeq(x, t + 1, t + k)
  BY <1>0, <1>4, HttpAssumption DEF ReadSizes, Available, Chunk
<1>6. parser[c] = Reading(x)[t] /\ ~ Decided(parser[c])
  <2>1. parser[c] = AsOneRead(c) /\ ~ Decided(parser[c])
    BY <1>2, <1>3 DEF Read, ReadProgress
  <2>2. AsOneRead(c) = Reading(x)[t]
    BY <1>0, <1>4, OneRead DEF AsOneRead
  <2> QED BY <2>1, <2>2
<1>7. p = Reading(x)[t + k]
  <2>1. t \in 0 .. Len(x) /\ k \in 0 .. Len(x) - t
    BY <1>4, <1>5
  <2>2. [ParseHeaders(Reading(x)[t], SubSeq(x, t + 1, t + k)) EXCEPT !.used = 0] = Reading(x)[t + k]
    BY <1>4, <2>1, CutsDoNotMatter
  <2> QED BY <1>5, <1>6, <2>2
<1>8. p = [ParseHeaders(NewParser, SubSeq(x, 1, t + k)) EXCEPT !.used = 0]
  <2> DEFINE u == t + k
  <2>1. u \in 0 .. Len(x)
    BY <1>4, <1>5
  <2> HIDE DEF u, p
  <2>2. [ParseHeaders(NewParser, SubSeq(x, 1, u)) EXCEPT !.used = 0] = Reading(x)[u]
    BY <1>4, <2>1, OneRead
  <2> QED BY <1>7, <2>2 DEF u
<1>9. p.state = "true" => LET n == t + k - Len(HeadText(r))
                          IN  /\ p = Final(r) /\ n \in 0 .. Len(r.body)
                              /\ rest = SubSeq(r.body, 1, n) /\ IsPrefix(x, WholeText(r))
  <2>1. t \in 0 .. Len(x) /\ k \in 0 .. Len(x) - t
    BY <1>4, <1>5
  <2>2. /\ q = ParseHeaders(Reading(x)[t], SubSeq(x, t + 1, t + k)) /\ ~ Decided(Reading(x)[t])
        /\ rest = SubSeq(SubSeq(x, t + 1, t + k), q.used + 1, k)
    BY <1>5, <1>6
  <2> HIDE DEF p, q, rest
  <2> QED BY <1>4, <1>7, <2>1, <2>2, HeadIsRead
<1>10. /\ taken' = [taken EXCEPT ![c] = t + k] /\ parser' = [parser EXCEPT ![c] = p]
       /\ \/ p.state = "true" /\ HeadComplete(w, c, p, rest)
          \/ /\ p.state = "false" /\ Respond(c, "bad_request")
             /\ UNCHANGED <<body, left, serverVars, apiVars>>
          \/ ~ Decided(p) /\ UNCHANGED <<conn, body, left, serverVars, answers, apiVars>>
  BY <1>0, <1>1
<1> HIDE DEF q, p, rest
<1>11. /\ sent'[c].text = x /\ sent'[c].request = r /\ taken'[c] = t + k /\ parser'[c] = p /\ DOMAIN taken' = Conns /\ DOMAIN sent' = Conns
       /\ \A d \in Conns \ {c} : taken'[d] = taken[d] /\ parser'[d] = parser[d] /\ sent'[d] = sent[d]
  BY <1>0, <1>2, <1>3, <1>10 DEF ServerTypes
<1>12. ASSUME DOMAIN conn' = Conns, DOMAIN step' = Conns, ServerTypes', Read(c)',
             \A d \in Conns \ {c} : /\ conn'[d] = conn[d] /\ body'[d] = body[d]
                                    /\ left'[d] = left[d] /\ step'[d] = step[d]
       PROVE  ReadingInv'
  <2>1. \A d \in Conns \ {c} : Unread(d) /\ conn'[d] = conn[d]
    BY <1>11, <1>12 DEF Unread
  <2> QED BY <1>12, <2>1, OneConnection
<1>13. /\ sent'[c].request \in Requests[c] /\ sent'[c].text \in Texts(c, sent'[c].request)
       /\ taken'[c] \in 0 .. Len(sent'[c].text)
  BY <1>2, <1>4, <1>5, <1>11
<1>14. CASE Respond(c, "bad_request") /\ UNCHANGED <<left, serverVars, apiVars>> /\ body' = body
  <2>1. conn' = [conn EXCEPT ![c] = "writing"] /\ step' = step
    BY <1>14 DEF Respond, apiVars
  <2>2. ServerTypes'
    BY <1>3, <1>11, <1>14 DEF ServerTypes, serverVars
  <2>3. conn'[c] = "writing" /\ ~ Handled(c)'
    BY <1>3, <2>1 DEF Handled
  <2>4. ReadProgress(c)'
    BY <1>13, <2>3 DEF ReadProgress
  <2>5. Read(c)'
    BY <2>3, <2>4 DEF Read
  <2> QED BY <1>12, <1>14, <2>1, <2>2, <2>5 DEF ReadingInv, Inv, Types
<1>15. CASE ~ Decided(p) /\ UNCHANGED <<conn, body, left, serverVars, answers, apiVars>>
  <2>1. step' = step /\ conn' = conn
    BY <1>15 DEF apiVars
  <2>2. ServerTypes'
    BY <1>3, <1>11, <1>15 DEF ServerTypes, serverVars
  <2>3. conn'[c] = "headers" /\ ~ Handled(c)'
    BY <1>2, <1>3, <2>1 DEF Handled
  <2>4. parser'[c] = AsOneRead(c)' /\ ~ Decided(parser'[c])
    BY <1>8, <1>11, <1>15 DEF AsOneRead
  <2>5. ReadProgress(c)'
    BY <1>13, <2>3, <2>4 DEF ReadProgress
  <2>6. Read(c)'
    BY <2>3, <2>5 DEF Read
  <2> QED BY <1>12, <1>15, <2>1, <2>2, <2>6 DEF ReadingInv, Inv, Types
<1>16. CASE p.state = "true" /\ HeadComplete(w, c, p, rest)
  <2> DEFINE n == t + k - Len(HeadText(r))
  <2>1. p = Final(r) /\ n \in 0 .. Len(r.body) /\ rest = SubSeq(r.body, 1, n) /\ IsPrefix(x, WholeText(r))
    BY <1>9, <1>16
  <2>2. r.body \in Seq(Characters) /\ Len(r.body) \in Nat /\ Len(r.body) < Sizes
    BY <1>4, WholeIsText
  <2>3. /\ [method |-> p.method, destination |-> p.destination, headers |-> p.headers] = Meant(r)
        /\ NeedsBody(p) <=> NeedsBody(r)
    BY <2>1, FinalParts
  <2>4. /\ Len(rest) = n /\ IsPrefix(rest, r.body)
        /\ IsPrefix(<<>>, r.body)
    <3>1. Len(rest) = n /\ IsPrefix(rest, r.body)
      BY <2>1, <2>2, StartsWith
    <3>2. IsPrefix(SubSeq(r.body, 1, 0), r.body) /\ SubSeq(r.body, 1, 0) = <<>>
      BY <2>2, StartsWith
    <3> QED BY <3>1, <3>2
  <2>5. Intact(c)'
    BY <1>11, <2>1 DEF Intact
  <2>6. ASSUME NEW uri, NEW text, Handle(w, c, uri, text), UNCHANGED left,
               DOMAIN body' = Conns, \A d \in Conns \ {c} : body'[d] = body[d], GetsRequest(c)'
        PROVE  ReadingInv'
    <3>1. conn' = [conn EXCEPT ![c] = "handling"] /\ UNCHANGED <<proc, listening, accepting>>
      BY <2>6 DEF Handle
    <3>2. DOMAIN step' = Conns /\ \A d \in Conns \ {c} : step'[d] = step[d]
      BY <2>6 DEF Handle, Dispatch, Reply, ReadingInv, Inv, Types
    <3>3. conn'[c] = "handling"
      BY <1>3, <3>1
    <3>4. ServerTypes'
      BY <1>3, <1>11, <2>6, <3>1 DEF ServerTypes
    <3>5. ReadProgress(c)'
      BY <1>13, <3>3 DEF ReadProgress
    <3>6. Read(c)'
      BY <2>6, <3>5 DEF Read
    <3> QED BY <1>3, <1>12, <2>6, <3>1, <3>2, <3>4, <3>6
  <2>7. CASE /\ NeedsBody(p) /\ ~ HasLength(p) /\ Respond(c, "bad_request")
             /\ UNCHANGED <<body, left, serverVars, apiVars>>
    BY <1>14, <2>7
  <2>8. ASSUME NeedsBody(p), HasLength(p), LengthOf(p) # 0, body' = [body EXCEPT ![c] = rest]
        PROVE  /\ Wanted(p, rest) \in 0 .. Sizes - 1
               /\ Wanted(p, rest) = Minus(LengthOf(p), n)
               /\ Wanted(p, rest) = 0 => GetsRequest(c)'
               /\ body'[c] = rest /\ DOMAIN body' = Conns /\ \A d \in Conns \ {c} : body'[d] = body[d]
    <3>1. LengthOf(p) \in 0 .. Sizes - 1 /\ n \in 0 .. Sizes - 1
      BY <2>1, <2>2, <2>8, LengthInRange, HttpAssumption
    <3>2. Wanted(p, rest) = Minus(LengthOf(p), n)
      BY <2>4 DEF Wanted
    <3>3. /\ Minus(LengthOf(p), n) \in 0 .. Sizes - 1
          /\ Minus(LengthOf(p), n) = IF n <= LengthOf(p) THEN LengthOf(p) - n ELSE LengthOf(p) - n + Sizes
      BY <3>1, MinusValue
    <3>4. body'[c] = rest /\ DOMAIN body' = Conns /\ \A d \in Conns \ {c} : body'[d] = body[d]
      BY <1>3, <2>8
    <3>5. ASSUME Wanted(p, rest) = 0 PROVE GetsRequest(c)'
      <4>1. n = LengthOf(p)
        BY <3>1, <3>2, <3>3, <3>5, HttpAssumption
      <4>2. sent'[c].request = r /\ parser'[c] = p
        BY <1>11
      <4> QED BY <2>3, <2>4, <2>5, <2>8, <3>4, <4>1, <4>2 DEF GetsRequest
    <3> QED BY <3>2, <3>3, <3>4, <3>5
  <2>9. CASE /\ NeedsBody(p) /\ HasLength(p) /\ LengthOf(p) # 0 /\ body' = [body EXCEPT ![c] = rest]
             /\ Wanted(p, rest) = 0 /\ Handle(w, c, p.destination, rest) /\ UNCHANGED left
    BY <2>6, <2>8, <2>9
  <2>10. CASE /\ NeedsBody(p) /\ HasLength(p) /\ LengthOf(p) # 0 /\ body' = [body EXCEPT ![c] = rest]
              /\ Wanted(p, rest) # 0 /\ conn' = [conn EXCEPT ![c] = "body"]
              /\ left' = [left EXCEPT ![c] = Wanted(p, rest)]
              /\ UNCHANGED <<serverVars, answers, apiVars>>
    <3>1. step' = step /\ conn'[c] = "body" /\ left'[c] = Wanted(p, rest)
      BY <1>3, <2>10 DEF apiVars
    <3>2. ServerTypes'
      BY <1>3, <1>11, <2>8, <2>10 DEF ServerTypes, serverVars
    <3>3. ~ Handled(c)'
      BY <1>3, <3>1 DEF Handled
    <3>4. sent'[c].request = r /\ parser'[c] = p /\ taken'[c] - Len(HeadText(r)) = n
      <4>1. Len(HeadText(r)) \in Nat
        BY <1>4, WholeIsText
      <4> QED BY <1>4, <1>5, <1>11, <4>1
    <3>5. /\ [method |-> parser'[c].method, destination |-> parser'[c].destination,
              headers |-> parser'[c].headers] = Meant(sent'[c].request)
          /\ NeedsBody(parser'[c]) /\ HasLength(parser'[c])
      BY <2>3, <2>10, <3>4
    <3>6. LET N == taken'[c] - Len(HeadText(sent'[c].request))
          IN  /\ 0 <= N /\ left'[c] = Minus(LengthOf(parser'[c]), N) /\ left'[c] # 0
              /\ body'[c] = SubSeq(sent'[c].request.body, 1, N)
      BY <2>1, <2>8, <2>10, <3>1, <3>4
    <3>7. ReadProgress(c)'
      BY <1>13, <2>5, <3>1, <3>5, <3>6 DEF ReadProgress
    <3>8. Read(c)'
      BY <3>3, <3>7 DEF Read
    <3> QED BY <1>3, <1>12, <2>8, <2>10, <3>1, <3>2, <3>8 DEF ReadingInv, Inv, Types
  <2>11. CASE /\ ~ NeedsBody(p) \/ (HasLength(p) /\ LengthOf(p) = 0)
              /\ Handle(w, c, p.destination, <<>>) /\ UNCHANGED <<body, left>>
    <3>1. sent'[c].request = r /\ parser'[c] = p /\ body'[c] = <<>>
      BY <1>3, <1>11, <2>11
    <3>2. GetsRequest(c)'
      BY <2>3, <2>4, <2>5, <2>11, <3>1 DEF GetsRequest
    <3> QED BY <1>3, <2>6, <2>11, <3>2
  <2> QED BY <1>16, <2>7, <2>9, <2>10, <2>11 DEF HeadComplete
<1> QED BY <1>10, <1>14, <1>15, <1>16

\* A read of the body: it goes on, or all of it that the request declares has been read.
LEMMA BodyRead ==
    ASSUME ReadingInv, Inv', NEW w \in Workers, NEW c \in Conns, HandleReadBody(w, c)
    PROVE  ReadingInv'
<1>0. PICK x, r, t, p, n, L : /\ x = sent[c].text /\ r = sent[c].request /\ t = taken[c] /\ p = parser[c]
                            /\ n = t - Len(HeadText(r)) /\ L = LengthOf(p)
  OBVIOUS
<1>1. PICK k \in ReadSizes(c) :
        LET difference == Minus(left[c], k)
            text == body[c] \o SubSeq(Chunk(c, k), 1, IF k < left[c] THEN k ELSE left[c])
        IN  /\ taken' = [taken EXCEPT ![c] = @ + k]
            /\ body' = [body EXCEPT ![c] = text]
            /\ \/ /\ difference = 0
                  /\ Handle(w, c, parser[c].destination, text)
                  /\ UNCHANGED left
               \/ /\ difference # 0
                  /\ left' = [left EXCEPT ![c] = difference]
                  /\ UNCHANGED <<conn, serverVars, answers, apiVars>>
  BY DEF HandleReadBody
<1> DEFINE difference == Minus(left[c], k)
           text == body[c] \o SubSeq(Chunk(c, k), 1, IF k < left[c] THEN k ELSE left[c])
<1>2. conn[c] = "body" /\ sent' = sent /\ parser' = parser
  BY DEF HandleReadBody
<1>3. /\ DOMAIN conn = Conns /\ DOMAIN taken = Conns /\ DOMAIN body = Conns
      /\ DOMAIN left = Conns /\ Read(c) /\ ServerTypes /\ step[c] = "none"
  BY <1>2 DEF ReadingInv, Inv, Types, ServerTypes, ConnInv, HandlerProgress
<1>4. /\ IsRequest(r) /\ r \in Requests[c] /\ x \in Texts(c, r) /\ x \in Seq(Characters)
      /\ t \in Nat /\ Len(x) \in Nat /\ t <= Len(x)
  BY <1>0, <1>2, <1>3, Requested
<1>5. k \in Nat /\ k # 0 /\ t + k <= Len(x) /\ Chunk(c, k) = SubSeq(x, t + 1, t + k)
  BY <1>0, <1>4, HttpAssumption DEF ReadSizes, Available, Chunk
<1>6. /\ IsPrefix(x, WholeText(r))
      /\ [method |-> p.method, destination |-> p.destination, headers |-> p.headers] = Meant(r)
      /\ NeedsBody(p) /\ HasLength(p)
      /\ 0 <= n /\ left[c] = Minus(L, n) /\ left[c] # 0
      /\ n < L => body[c] = SubSeq(r.body, 1, n)
  BY <1>0, <1>2, <1>3 DEF Read, ReadProgress, Intact
<1>7. /\ r.body \in Seq(Characters) /\ Len(r.body) \in Nat /\ Len(r.body) < Sizes
      /\ Len(HeadText(r)) \in Nat
  BY <1>4, WholeIsText
<1>8. /\ n \in Nat /\ n + k <= Len(r.body)
      /\ SubSeq(r.body, 1, n) \o SubSeq(Chunk(c, k), 1, k) = SubSeq(r.body, 1, n + k)
  <2>1. 0 <= n /\ n = t - Len(HeadText(r)) /\ t \in Nat /\ Len(HeadText(r)) \in Nat /\ k \in Nat
    BY <1>0, <1>4, <1>5, <1>6, <1>7
  <2>2. n \in Nat /\ Len(HeadText(r)) + n = t
    BY <2>1
  <2>3. /\ IsRequest(r) /\ x \in Seq(Characters) /\ IsPrefix(x, WholeText(r))
        /\ t \in Nat /\ k \in Nat /\ t + k <= Len(x)
    BY <1>4, <1>5, <1>6
  <2>4. n + k <= Len(r.body) /\ SubSeq(r.body, 1, n) \o SubSeq(x, t + 1, t + k) = SubSeq(r.body, 1, n + k)
    BY <2>2, <2>3, BodyIsRead, SMTT(30)
  <2> DEFINE y == SubSeq(x, t + 1, t + k)
  <2>5. SubSeq(y, 1, k) = y
    <3>1. x \in Seq(Characters) /\ t \in Nat /\ k \in Nat /\ t + k <= Len(x)
      BY <1>4, <1>5
    <3>2. y \in Seq(Characters) /\ Len(y) = k
      BY <3>1, Piece
    <3> HIDE DEF y
    <3> QED BY <3>2, SubSeqFull
  <2> QED BY <1>5, <2>2, <2>4, <2>5
<1>9. /\ taken' = [taken EXCEPT ![c] = t + k] /\ body' = [body EXCEPT ![c] = text]
      /\ \/ difference = 0 /\ Handle(w, c, p.destination, text) /\ UNCHANGED left
         \/ /\ difference # 0 /\ left' = [left EXCEPT ![c] = difference]
            /\ UNCHANGED <<conn, serverVars, answers, apiVars>>
  BY <1>0, <1>1
<1>10. /\ sent'[c].text = x /\ sent'[c].request = r /\ taken'[c] = t + k /\ parser'[c] = p
       /\ body'[c] = text /\ DOMAIN taken' = Conns /\ DOMAIN sent' = Conns
       /\ \A d \in Conns \ {c} : /\ taken'[d] = taken[d] /\ parser'[d] = parser[d] /\ sent'[d] = sent[d]
                                 /\ body'[d] = body[d]
  BY <1>0, <1>2, <1>3, <1>9 DEF ServerTypes
<1>11. ASSUME ServerTypes', Read(c)',
              \A d \in Conns \ {c} : conn'[d] = conn[d] /\ left'[d] = left[d] /\ step'[d] = step[d]
       PROVE  ReadingInv'
  <2>1. \A d \in Conns \ {c} : Unread(d) /\ conn'[d] = conn[d]
    BY <1>10, <1>11 DEF Unread
  <2> QED BY <1>11, <2>1, OneConnection
<1>12. /\ sent'[c].request \in Requests[c] /\ sent'[c].text \in Texts(c, sent'[c].request)
       /\ taken'[c] \in 0 .. Len(sent'[c].text)
  BY <1>4, <1>5, <1>10
<1>13. Intact(c)'
  BY <1>6, <1>10 DEF Intact
<1>14. L \in 0 .. Sizes - 1
  BY <1>0, <1>6, LengthInRange
<1>15. /\ difference = Minus(L, n + k) /\ difference \in 0 .. Sizes - 1
       /\ difference = 0 <=> n + k = L
       /\ n + k <= L => left[c] = L - n
  <2>1. n + k <= Sizes - 1 /\ n \in Nat /\ k \in Nat
    BY <1>5, <1>7, <1>8, HttpAssumption
  <2>2. /\ Minus(Minus(L, n), k) = Minus(L, n + k) /\ Minus(L, n + k) \in 0 .. Sizes - 1
        /\ Minus(L, n + k) = 0 <=> n + k = L
        /\ n + k <= L => Minus(L, n) = L - n
    BY <1>14, <2>1, MinusTwice
  <2> QED BY <1>6, <2>2
<1>16. n + k <= L => text = SubSeq(r.body, 1, n + k)
  <2> SUFFICES ASSUME n + k <= L PROVE text = SubSeq(r.body, 1, n + k)
    OBVIOUS
  <2>1. (IF k < left[c] THEN k ELSE left[c]) = k /\ n < L
    <3>1. left[c] = L - n
      BY <1>15
    <3>2. k \in Nat /\ k # 0 /\ n \in Nat /\ L \in Int /\ n + k <= L
      BY <1>5, <1>8, <1>14
    <3>3. n < L /\ (k < L - n \/ k = L - n)
      BY <3>2
    <3> HIDE DEF difference, text
    <3> QED BY <3>1, <3>3
  <2> QED BY <1>6, <1>8, <2>1
<1> HIDE DEF difference, text
<1>17. CASE difference = 0 /\ Handle(w, c, p.destination, text) /\ UNCHANGED left
  <2>1. conn' = [conn EXCEPT ![c] = "handling"] /\ UNCHANGED <<proc, listening, accepting>>
    BY <1>17 DEF Handle
  <2>2. \A d \in Conns \ {c} : step'[d] = step[d]
    BY <1>17 DEF Handle, Dispatch, Reply, ReadingInv, Inv, Types
  <2>3. conn'[c] = "handling"
    BY <1>3, <2>1
  <2>4. ServerTypes'
    BY <1>3, <1>10, <1>17, <2>1 DEF ServerTypes
  <2>5. ReadProgress(c)'
    BY <1>12, <2>3 DEF ReadProgress
  <2>6. NeedsBody(r)
    <3>1. p.method = r.method
      BY <1>6 DEF Meant
    <3> QED BY <1>6, <3>1 DEF NeedsBody
  <2>7. Len(text) = L /\ IsPrefix(text, r.body)
    <3>1. L \in 0 .. Len(r.body) /\ text = SubSeq(r.body, 1, L)
      BY <1>5, <1>7, <1>8, <1>14, <1>15, <1>16, <1>17
    <3> QED BY <1>7, <3>1, StartsWith
  <2>8. GetsRequest(c)'
    BY <1>0, <1>6, <1>10, <1>13, <2>6, <2>7 DEF GetsRequest
  <2>9. Read(c)'
    BY <2>5, <2>8 DEF Read
  <2> QED BY <1>3, <1>11, <1>17, <2>1, <2>2, <2>4, <2>9
<1>18. CASE /\ difference # 0 /\ left' = [left EXCEPT ![c] = difference]
            /\ UNCHANGED <<conn, serverVars, answers, apiVars>>
  <2>1. step' = step /\ conn'[c] = "body" /\ left'[c] = difference
    BY <1>2, <1>3, <1>18 DEF apiVars
  <2>2. ServerTypes'
    BY <1>3, <1>10, <1>15, <1>18 DEF ServerTypes, serverVars
  <2>3. ~ Handled(c)'
    BY <1>3, <2>1 DEF Handled
  <2>4. taken'[c] - Len(HeadText(sent'[c].request)) = n + k
    BY <1>0, <1>4, <1>5, <1>7, <1>10
  <2>5. LET N == taken'[c] - Len(HeadText(sent'[c].request))
        IN  /\ 0 <= N /\ left'[c] = Minus(LengthOf(parser'[c]), N) /\ left'[c] # 0
            /\ N < LengthOf(parser'[c]) => body'[c] = SubSeq(sent'[c].request.body, 1, N)
    <3> DEFINE m == n + k
    <3>1. m \in Nat /\ (m < L => m <= L)
      BY <1>5, <1>8, <1>14
    <3>2. difference = Minus(L, m) /\ (m <= L => text = SubSeq(r.body, 1, m))
      BY <1>15, <1>16
    <3> HIDE DEF m
    <3>3. /\ 0 <= m /\ left'[c] = Minus(LengthOf(parser'[c]), m) /\ left'[c] # 0
          /\ m < LengthOf(parser'[c]) => body'[c] = SubSeq(sent'[c].request.body, 1, m)
      BY <1>0, <1>10, <1>18, <2>1, <3>1, <3>2
    <3> QED BY <2>4, <3>3 DEF m
  <2>6. /\ [method |-> parser'[c].method, destination |-> parser'[c].destination,
            headers |-> parser'[c].headers] = Meant(sent'[c].request)
        /\ NeedsBody(parser'[c]) /\ HasLength(parser'[c])
    BY <1>6, <1>10
  <2>7. ReadProgress(c)'
    BY <1>12, <1>13, <2>1, <2>5, <2>6 DEF ReadProgress
  <2>8. Read(c)'
    BY <2>3, <2>7 DEF Read
  <2> QED BY <1>3, <1>11, <1>18, <2>1, <2>2, <2>8
<1> QED BY <1>9, <1>17, <1>18

\* The invariant holds at first and after each step.
LEMMA InitReads == Init => ReadingInv
<1> SUFFICES ASSUME Init
             PROVE  ReadingInv
  OBVIOUS
<1>1. ServerTypes
  <2>1. 0 \in 0 .. Sizes - 1
    BY HttpAssumption
  <2>2. DOMAIN sent = Conns /\ DOMAIN taken = Conns /\ left = [c \in Conns |-> 0]
    BY DEF Init
  <2>3. proc = "up" /\ listening = FALSE /\ accepting = FALSE
    BY DEF Init
  <2> QED BY <2>1, <2>2, <2>3 DEF ServerTypes
<1>2. ASSUME NEW c \in Conns
      PROVE  Read(c)
  <2>1. conn[c] = "new" /\ taken[c] = 0 /\ parser[c] = NewParser /\ step[c] = "none"
    BY DEF Init, ApiInit
  <2>2. ReadProgress(c)
    BY <2>1 DEF ReadProgress
  <2> QED BY <2>1, <2>2 DEF Read, Handled
<1> QED BY <1>1, <1>2, InitInv DEF ReadingInv

\* Every step keeps the invariant.
LEMMA NextReads == ReadingInv /\ [Next]_vars => ReadingInv'
<1> SUFFICES ASSUME ReadingInv, [Next]_vars
             PROVE  ReadingInv'
  OBVIOUS
<1>0. Inv'
  BY NextInv DEF ReadingInv
<1>1. ASSUME NEW c \in Conns, Connect(c)
      PROVE  ReadingInv'
  BY <1>0, <1>1, ConnectReads
<1>2. ASSUME NEW w \in Workers, NEW c \in Conns, Completion(w, c)
      PROVE  ReadingInv'
  BY <1>0, <1>2, AcceptReads, HeadersRead, BodyRead, CloseReads, QuietReads DEF Completion
<1>3. ASSUME NEW w \in Workers, WorkerStep(w)
      PROVE  ReadingInv'
  BY <1>0, <1>3, WorkReads, AnswerReads, QuietReads DEF WorkerStep
<1>4. ASSUME NEW c \in Conns, GoAway(c)
      PROVE  ReadingInv'
  BY <1>0, <1>4, QuietReads
<1>5. CASE Stop \/ Exit \/ UNCHANGED vars
  BY <1>0, <1>5, QuietReads
<1> QED BY <1>1, <1>2, <1>3, <1>4, <1>5 DEF Next

-----------------------------------------------------------------------------
(* The theorems *)

\* So it always holds.
LEMMA ReadingKept == Spec => []ReadingInv
BY InitReads, NextReads, PTL DEF Spec

\* The invariant that explains the reads: of every connection, and wherever the network
\* has cut its text, the parser is where one read of it all would have left it, the body
\* holds the tokens after the head, and what is left to read is the declared length less
\* these, in the arithmetic of size_t.
THEOREM ReadsKept == Spec => []ReadInv
BY ReadingKept, ReadingInvMeans, PTL

\* The parts of the server keep their types; the bytes left to read are a size_t.
THEOREM ServerTypesKept == Spec => []TypeOK
BY ReadingKept, ReadingInvMeans, PTL

\* operator() runs only for a request that arrived undamaged, and is given its method,
\* destination and headers, with folded values on one line, and the declared number of
\* bytes of its body: whatever well-formed requests clients send, wherever their text is
\* cut into reads, and if a character of the head arrives garbled or the client goes away.
THEOREM RequestArrives == Spec => []HandlerGetsRequest
BY ReadingKept, ReadingInvMeans, PTL

============================================================================
