------------------------------ MODULE MCCodecs ------------------------------
(* Codecs with a few bytes, characters and values. *)
EXTENDS Codecs

UpTo(S, n) == BoundedSeq(S, n) \ {<<>>}

\* Values of n nodes: each node is in a compound its predecessor is in, or is.
Around(nodes) ==
    {h \in DOMAIN nodes : /\ nodes[h].type \in Compounds
                          /\ \A j \in h + 1 .. Len(nodes) : nodes[j].holder >= h}

Leaves == {[type |-> "obj", token |-> "{"], [type |-> "array", token |-> "["]} \cup
          {[type |-> TypeOf(c), token |-> c] : c \in Tokens \cap (Strings \cup Literals)}

Node(leaf, k, name) == [type |-> leaf.type, holder |-> k, token |-> leaf.token, name |-> name]

Names(nodes, k) == IF nodes[k].type = "obj" THEN Tokens \cap Strings ELSE {"none"}

ValuesOf[n \in Nat \ {0}] ==
    IF n = 1 THEN {<<Node(leaf, 0, "none")>> : leaf \in Leaves}
    ELSE UNION {UNION {{Append(nodes, Node(leaf, k, name)) : leaf \in Leaves, name \in Names(nodes, k)}
                       : k \in Around(nodes)} : nodes \in ValuesOf[n - 1]}

\* Bytes with all, no and single bits, and characters of every kind: escaped ones, a
\* printed one that is also an escape ("n"), digits of an escape, none of ASCII.
SomeSources == [x \in {"base64", "string", "value"} |->
    CASE x = "base64" -> UpTo({0, 1, 63, 64, 130, 255}, 4)
      [] x = "string" -> UpTo({34, 92, 47, 9, 110, 117, 48, 65, 0, 127, 200}, 3)
      [] x = "value" -> UNION {ValuesOf[n] : n \in 1 .. 4}]

\* The end of a line, something that looks like the text, something that does not.
SomeFollowers == [x \in {"base64", "string", "value"} |->
    CASE x = "base64" -> {<<>>, <<10>>, <<13, 10, 65, 65>>}
      [] x = "string" -> {<<>>, <<34>>, <<44, 34, 92, 34>>}
      [] x = "value" -> {<<>>, <<"lf">>, <<",", "a">>, <<"]">>, <<"x">>}]

=============================================================================
