------------------------------- MODULE Base64 -------------------------------
(***************************************************************************)
(* util::base64 (src/src/base64.hpp): tokens of APNS devices are kept as   *)
(* base64 text, decoded for a push and encoded when the feedback reports   *)
(* one.  A text is a sequence of bytes, the numbers of its characters.     *)
(***************************************************************************)
EXTENDS Integers, SequencesExt

Bytes == 0 .. 255
Pad == 61   \* "="

\* base64_chars, and find() in it; npos as a byte is 255.
Alphabet == [v \in 0 .. 63 |->
    CASE v < 26 -> 65 + v
      [] v >= 26 /\ v < 52 -> 71 + v
      [] v >= 52 /\ v < 62 -> v - 4
      [] v = 62 -> 43
      [] OTHER -> 47]

Find(c) ==
    CASE c \in 65 .. 90 -> c - 65
      [] c \in 97 .. 122 -> c - 71
      [] c \in 48 .. 57 -> c + 4
      [] c = 43 -> 62
      [] c = 47 -> 63
      [] OTHER -> 255

\* is_base64, in the "C" locale.
IsBase64(c) == c \in 65 .. 90 \cup 97 .. 122 \cup 48 .. 57 \cup {43, 47}

\* Mutated: the second byte is shifted too far.
ToFourShifted(b1, b2, b3) ==
    <<b1 \div 4, (b1 % 4) * 16 + (b2 \div 32), (b2 % 16) * 4 + (b3 \div 64), b3 % 64>>

\* char_array_4 from char_array_3, and back, as the code computes them: in unsigned char.
ToFour(b1, b2, b3) ==
    <<b1 \div 4, (b1 % 4) * 16 + (b2 \div 16), (b2 % 16) * 4 + (b3 \div 64), b3 % 64>>

ToThree(v1, v2, v3, v4) ==
    <<(v1 * 4 + ((v2 \div 16) % 4)) % 256, ((v2 % 16) * 16 + ((v3 \div 4) % 16)) % 256,
      ((v3 % 4) * 64 + v4) % 256>>

At(s, i, default) == IF i <= Len(s) THEN s[i] ELSE default

\* Groups of n, the last one may be shorter.
Group(s, n, g) == SubSeq(s, n * (g - 1) + 1, IF n * g < Len(s) THEN n * g ELSE Len(s))
Groups(s, n) == [g \in 1 .. (Len(s) + n - 1) \div n |-> Group(s, n, g)]

\* One round of encode(), with zeros for what is missing in the last one.
EncodeGroup(b) ==
    LET v == ToFour(b[1], At(b, 2, 0), At(b, 3, 0))
    IN  [i \in 1 .. 4 |-> IF i <= Len(b) + 1 THEN Alphabet[v[i]] ELSE Pad]

Encode(bytes) == FlattenSeq([g \in DOMAIN Groups(bytes, 3) |-> EncodeGroup(Groups(bytes, 3)[g])])

\* What a group stands for; the characters missing in the last one are looked up as 0.
Three(t) == LET v == [i \in 1 .. 4 |-> Find(At(t, i, 0))] IN ToThree(v[1], v[2], v[3], v[4])

\* One round of decode().
DecodeGroup(t) == SubSeq(Three(t), 1, Len(t) - 1)

\* Mutated: only the padding ends the text.
AcceptedToPad(text) == SubSeq(text, 1, SelectInSeq(Append(text, Pad), LAMBDA c : c = Pad) - 1)

\* decode() stops at the first character that is not of the alphabet.
Accepted(text) ==
    SubSeq(text, 1, SelectInSeq(Append(text, Pad), LAMBDA c : ~ IsBase64(c)) - 1)

Decode(text) ==
    LET groups == Groups(Accepted(text), 4)
    IN  FlattenSeq([g \in DOMAIN groups |-> DecodeGroup(groups[g])])

=============================================================================
