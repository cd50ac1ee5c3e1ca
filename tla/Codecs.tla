------------------------------- MODULE Codecs -------------------------------
(***************************************************************************)
(* The three codecs a text of a node goes through: base64 for the tokens   *)
(* of APNS devices, JSON for the characters of a string, and JSON for a    *)
(* value.  Something is written and read again, with whatever follows it   *)
(* in the body of a request; or any text arrives and is read as a value.   *)
(***************************************************************************)
EXTENDS Base64, JsonSpirit

CONSTANTS
    Sources,    \* Sources[x]: what is written with codec x
    Followers,  \* Followers[x]: what may follow it
    Tokens,     \* tokens of a text that arrives
    MaxTokens,  \* bound: how many
    MaxNodes    \* bound: nodes of a value, at least those that fit in MaxTokens

\* Every node takes a token of its own, and all but the first one more.
ASSUME BoundsAssumption == MaxTokens \in Nat /\ MaxNodes \in Nat /\ MaxTokens < 2 * MaxNodes

-----------------------------------------------------------------------------
(* Values *)

\* A value is the sequence of its nodes in the order of the text: what is held by a node
\* follows it, up to the next node that it does not hold, itself or through another.
Compounds == {"obj", "array"}

NodeOK(node) ==
    CASE node.token = "{" -> node.type = "obj"
      [] node.token = "[" -> node.type = "array"
      [] OTHER -> node.token \in Strings \cup Literals /\ node.type = TypeOf(node.token)

NodesOf(tokens, holders) ==
    {node \in [type : Compounds \cup Literals \cup {"str"}, holder : holders,
               token : tokens, name : (tokens \cap Strings) \cup {"none"}] : NodeOK(node)}

HolderOK(nodes, k) ==
    LET h == nodes[k].holder
    IN  /\ k = 1 => h = 0 /\ nodes[k].name = "none"
        /\ k # 1 => /\ h \in 1 .. k - 1 /\ nodes[h].type \in Compounds
                    /\ \A j \in h + 1 .. k - 1 : nodes[j].holder >= h
                    /\ IF nodes[h].type = "obj" THEN nodes[k].name \in Strings
                       ELSE nodes[k].name = "none"

IsValue(nodes) == nodes # <<>> /\ \A k \in DOMAIN nodes : HolderOK(nodes, k)

\* The values of few nodes that the tokens can make.
Values == {nodes \in BoundedSeq(NodesOf(Tokens, 0 .. MaxNodes - 1), MaxNodes) : IsValue(nodes)}
Texts == {[value |-> v, text |-> WriteText(v)] : v \in Values}

-----------------------------------------------------------------------------

\* Texts are of bytes; what follows a base64 text cannot be taken for more of it.
ASSUME TextsAssumption ==
    /\ DOMAIN Sources = {"base64", "string", "value"}
    /\ \A x \in {"base64", "string"} : Sources[x] \subseteq Seq(Bytes) /\ Followers[x] \subseteq Seq(Bytes)
    /\ \A f \in Followers["base64"] : f # <<>> => ~ IsBase64(f[1])
    /\ \A v \in Sources["value"] : v \in Seq(NodesOf(Strings \cup Literals \cup Punctuators, Nat)) /\ IsValue(v)
    /\ \A f \in Followers["value"] : f \in Seq(Range(f))

VARIABLES codec, source, written, follower, result

vars == <<codec, source, written, follower, result>>

WriteAs(x, s) ==
    CASE x = "base64" -> Encode(s)
      [] x = "string" -> WriteString(s)
      [] x = "value" -> WriteText(s)

ReadAs(x, text) ==
    CASE x = "base64" -> Decode(text)
      [] x = "string" -> ReadString(text)
      [] x = "value" -> IF IsRead(text) THEN ValueOf(text) ELSE <<>>

Init ==
    /\ \/ codec \in DOMAIN Sources /\ source \in Sources[codec]
       \/ codec = "any" /\ source = <<>>
    /\ written = <<>>
    /\ follower = <<>>
    /\ result = <<>>

Write ==
    /\ codec # "any"
    /\ written = <<>>
    /\ written' = WriteAs(codec, source)
    /\ UNCHANGED <<codec, source, follower, result>>

\* A text nobody here has written.
Arrive ==
    /\ codec = "any"
    /\ written = <<>>
    /\ \E t \in BoundedSeq(Tokens, MaxTokens) \ {<<>>} : written' = t
    /\ UNCHANGED <<codec, source, follower, result>>

Read ==
    /\ written # <<>>
    /\ result = <<>>
    /\ \/ /\ codec # "any"
          /\ \E f \in Followers[codec] :
                /\ follower' = f
                /\ result' = ReadAs(codec, written \o f)
       \/ /\ codec = "any"
          /\ result' = ReadAs("value", written)
          /\ UNCHANGED follower
    /\ UNCHANGED <<codec, source, written>>

Next == Write \/ Arrive \/ Read

Spec == Init /\ [][Next]_vars

-----------------------------------------------------------------------------
(* What the codecs are measured against *)

\* Bit i of a sequence of bytes, from the most significant one of the first byte on, and
\* zeros after the last byte.
BitWeight == <<128, 64, 32, 16, 8, 4, 2, 1>>
Bit(bytes, i) ==
    IF i < 8 * Len(bytes) THEN (bytes[(i \div 8) + 1] \div BitWeight[(i % 8) + 1]) % 2 ELSE 0

SixBits(bytes, i) ==
    32 * Bit(bytes, i) + 16 * Bit(bytes, i + 1) + 8 * Bit(bytes, i + 2)
    + 4 * Bit(bytes, i + 3) + 2 * Bit(bytes, i + 4) + Bit(bytes, i + 5)

-----------------------------------------------------------------------------
(* Properties *)

\* What is written is read again, whatever follows it: the token of a device reaches the
\* provider as the client had it, and a string comes back with every quote, backslash and
\* character that does not print.
TextsComeBack == codec \in {"base64", "string"} /\ result # <<>> => result = source

\* A value comes back with every nesting and every name, whatever follows it.
ValuesComeBack == codec = "value" /\ result # <<>> => result = source

\* The text of base64 is the bits of the bytes, six to a character, padded to a multiple
\* of four: what other implementations, which produce the tokens, agree on.
WritesSixBits ==
    codec = "base64" /\ written # <<>> =>
        /\ Len(written) = 4 * ((Len(source) + 2) \div 3)
        /\ \A i \in DOMAIN written :
              written[i] = IF 6 * (i - 1) < 8 * Len(source)
                           THEN Alphabet[SixBits(source, 6 * (i - 1))] ELSE Pad

\* A text is accepted when, white space aside, it starts with the text of a value, and
\* is read as that value; nothing else is accepted.
AcceptsValues ==
    codec = "any" /\ written # <<>> =>
        LET text == Only(written, Tokens \ Skipped)
            starts == {w \in Texts : IsPrefix(w.text, text)}
        IN  /\ IsRead(written) <=> starts # {}
            /\ result # <<>> => {w.value : w \in starts} = {result}

=============================================================================
