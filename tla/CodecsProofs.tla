---------------------------- MODULE CodecsProofs ----------------------------
(***************************************************************************)
(* base64: one round of encode() and one of decode() undo each other, for  *)
(* every group of bytes, whole or cut short at the end of a text; so do    *)
(* the loops around them for any number of groups, and what they write is  *)
(* the bits of the bytes.  The characters of a JSON string: what is        *)
(* written, escapes and codes included, ends where it should and is read   *)
(* as it was.  A JSON value: it is read as it was written, by induction    *)
(* over what its nodes hold; what a reader has is always a value as far as *)
(* it goes, and where it ends tells every token it has needed, so that it  *)
(* reads no text but that of a value.  At the end, all three for the       *)
(* specification.                                                          *)
(***************************************************************************)
EXTENDS Codecs, SequenceFacts, FiniteSetTheorems

(***************************************************************************)
(* The alphabet                                                            *)
(***************************************************************************)

\* find() gives back the number of each character of base64_chars, is_base64 accepts
\* them all, and none of them is the padding.
LEMMA FindAlphabet ==
    \A v \in 0 .. 63 : Find(Alphabet[v]) = v /\ IsBase64(Alphabet[v]) /\ Alphabet[v] # Pad
<1> SUFFICES ASSUME NEW v \in 0 .. 63
             PROVE  Find(Alphabet[v]) = v /\ IsBase64(Alphabet[v]) /\ Alphabet[v] # Pad
  OBVIOUS
<1>1. CASE v < 26
  <2>1. Alphabet[v] = 65 + v
    BY <1>1 DEF Alphabet
  <2>2. 65 + v \in 65 .. 90
    BY <1>1
  <2>3. Find(65 + v) = v
    BY <1>1, <2>2 DEF Find
  <2> QED BY <1>1, <2>1, <2>2, <2>3 DEF IsBase64, Pad
<1>2. CASE v >= 26 /\ v < 52
  <2>1. Alphabet[v] = 71 + v
    BY <1>2 DEF Alphabet
  <2>2. 71 + v \in 97 .. 122 /\ 71 + v \notin 65 .. 90
    BY <1>2
  <2>3. Find(71 + v) = v
    BY <1>2, <2>2 DEF Find
  <2> QED BY <1>2, <2>1, <2>2, <2>3 DEF IsBase64, Pad
<1>3. CASE v >= 52 /\ v < 62
  <2>1. Alphabet[v] = v - 4
    BY <1>3 DEF Alphabet
  <2>2. v - 4 \in 48 .. 57 /\ v - 4 \notin 65 .. 90 /\ v - 4 \notin 97 .. 122
    BY <1>3
  <2>3. Find(v - 4) = v
    BY <1>3, <2>2 DEF Find
  <2> QED BY <1>3, <2>1, <2>2, <2>3 DEF IsBase64, Pad
<1>4. CASE v = 62
  <2>1. Alphabet[v] = 43
    BY <1>4 DEF Alphabet
  <2>2. Find(43) = 62
    BY DEF Find
  <2> QED BY <1>4, <2>1, <2>2 DEF IsBase64, Pad
<1>5. CASE v = 63
  <2>1. Alphabet[v] = 47
    BY <1>5 DEF Alphabet
  <2>2. Find(47) = 63
    BY DEF Find
  <2> QED BY <1>5, <2>1, <2>2 DEF IsBase64, Pad
<1> QED BY <1>1, <1>2, <1>3, <1>4, <1>5

\* The padding ends a text: is_base64 does not accept it.
LEMMA PadEnds == ~ IsBase64(Pad)
BY DEF IsBase64, Pad

(***************************************************************************)
(* The bits                                                                *)
(***************************************************************************)

\* Three bytes give four numbers of six bits.
LEMMA FourAreSixBits ==
    ASSUME NEW b1 \in Bytes, NEW b2 \in Bytes, NEW b3 \in Bytes
    PROVE  \A i \in 1 .. 4 : ToFour(b1, b2, b3)[i] \in 0 .. 63
<1>1. b1 \div 4 \in 0 .. 63
  BY DEF Bytes
<1>2. (b1 % 4) * 16 + (b2 \div 16) \in 0 .. 63
  BY DEF Bytes
<1>3. (b2 % 16) * 4 + (b3 \div 64) \in 0 .. 63
  BY DEF Bytes
<1>4. b3 % 64 \in 0 .. 63
  BY DEF Bytes
<1> QED BY <1>1, <1>2, <1>3, <1>4 DEF ToFour

\* The first byte is in the first two numbers, whatever the others are.
LEMMA FirstByte ==
    ASSUME NEW b1 \in Bytes, NEW b2 \in Bytes
    PROVE  ((b1 \div 4) * 4 + ((((b1 % 4) * 16 + (b2 \div 16)) \div 16) % 4)) % 256 = b1
BY DEF Bytes

\* The second one is in the second and third.
LEMMA SecondByte ==
    ASSUME NEW b1 \in Bytes, NEW b2 \in Bytes, NEW b3 \in Bytes
    PROVE  ((((b1 % 4) * 16 + (b2 \div 16)) % 16) * 16 + ((((b2 % 16) * 4 + (b3 \div 64)) \div 4) % 16)) % 256 = b2
BY DEF Bytes

\* The third one is in the third and fourth.
LEMMA ThirdByte ==
    ASSUME NEW b2 \in Bytes, NEW b3 \in Bytes
    PROVE  ((((b2 % 16) * 4 + (b3 \div 64)) % 4) * 64 + (b3 % 64)) % 256 = b3
BY DEF Bytes

(***************************************************************************)
(* A group                                                                 *)
(***************************************************************************)

\* The bytes of a group and the zeros for those that are missing are bytes.
LEMMA FilledBytes ==
    ASSUME NEW b \in Seq(Bytes), Len(b) \in 1 .. 3
    PROVE  b[1] \in Bytes /\ At(b, 2, 0) \in Bytes /\ At(b, 3, 0) \in Bytes
<1>1. 0 \in Bytes
  BY DEF Bytes
<1>2. \A i \in 1 .. Len(b) : b[i] \in Bytes
  OBVIOUS
<1>3. b[1] \in Bytes
  BY <1>2
<1>4. \A i \in {2, 3} : At(b, i, 0) \in Bytes
  BY <1>1, <1>2 DEF At
<1> QED BY <1>3, <1>4

\* The characters of a group are of the alphabet as far as it has bytes, padding then: what
\* decode() accepts of it, when nothing follows, is one character more than it has bytes.
THEOREM GroupIsPadded ==
    ASSUME NEW b \in Seq(Bytes), Len(b) \in 1 .. 3, NEW i \in 1 .. 4
    PROVE  IsBase64(EncodeGroup(b)[i]) <=> i <= Len(b) + 1
<1> DEFINE v == ToFour(b[1], At(b, 2, 0), At(b, 3, 0))
<1>1. v[i] \in 0 .. 63
  BY FilledBytes, FourAreSixBits
<1>2. EncodeGroup(b)[i] = IF i <= Len(b) + 1 THEN Alphabet[v[i]] ELSE Pad
  BY DEF EncodeGroup
<1> HIDE DEF v
<1> QED BY <1>1, <1>2, FindAlphabet, PadEnds

\* A group has at most four characters.
LEMMA UpToFour ==
    ASSUME NEW n \in 1 .. 3, NEW k, k = n + 1
    PROVE  \A i \in 1 .. k : i \in 1 .. 4 /\ i <= n + 1
OBVIOUS

\* What decode() makes of the accepted characters of a group are its bytes, although it
\* looks the missing characters up as 0 and shifts what find() says of them (npos).
THEOREM GroupRoundTrip ==
    ASSUME NEW b \in Seq(Bytes), Len(b) \in 1 .. 3,
           NEW t \in Seq(Int), Len(t) = Len(b) + 1,
           \A i \in 1 .. Len(t) : t[i] = EncodeGroup(b)[i]
    PROVE  DecodeGroup(t) = b
<1> DEFINE b1 == b[1]
           b2 == At(b, 2, 0)
           b3 == At(b, 3, 0)
           v == ToFour(b1, b2, b3)
           w == [i \in 1 .. 4 |-> Find(At(t, i, 0))]
<1>0. b1 \in Bytes /\ b2 \in Bytes /\ b3 \in Bytes
  BY FilledBytes
<1>1. v = <<b1 \div 4, (b1 % 4) * 16 + (b2 \div 16), (b2 % 16) * 4 + (b3 \div 64), b3 % 64>>
  BY DEF ToFour
<1>2. \A i \in 1 .. Len(t) : w[i] = v[i]
  <2> SUFFICES ASSUME NEW i \in 1 .. Len(t) PROVE w[i] = v[i]
    OBVIOUS
  <2>1. i \in 1 .. 4 /\ i <= Len(b) + 1
    BY UpToFour
  <2>2. v[i] \in 0 .. 63
    BY <1>0, <2>1, FourAreSixBits
  <2>3. EncodeGroup(b)[i] = Alphabet[v[i]]
    BY <2>1 DEF EncodeGroup
  <2>4. w[i] = Find(t[i])
    BY <2>1 DEF At
  <2> QED BY <2>2, <2>3, <2>4, FindAlphabet
<1>3. Three(t) = ToThree(w[1], w[2], w[3], w[4])
  BY DEF Three
<1>4. DecodeGroup(t) = SubSeq(Three(t), 1, Len(b))
  BY DEF DecodeGroup
<1> HIDE DEF w
<1>5. /\ w[1] = b1 \div 4
      /\ w[2] = (b1 % 4) * 16 + (b2 \div 16)
      /\ Len(b) >= 2 => w[3] = (b2 % 16) * 4 + (b3 \div 64)
      /\ Len(b) = 3 => w[4] = b3 % 64
  <2>1. /\ v[1] = b1 \div 4 /\ v[2] = (b1 % 4) * 16 + (b2 \div 16)
        /\ v[3] = (b2 % 16) * 4 + (b3 \div 64) /\ v[4] = b3 % 64
    BY <1>1
  <2>2. w[1] = v[1] /\ w[2] = v[2] /\ (Len(b) >= 2 => w[3] = v[3]) /\ (Len(b) = 3 => w[4] = v[4])
    <3> HIDE DEF v
    <3> QED BY <1>2
  <2> HIDE DEF v, b1, b2, b3
  <2> QED BY <2>1, <2>2
<1> HIDE DEF v
<1>6. /\ (w[1] * 4 + ((w[2] \div 16) % 4)) % 256 = b1
      /\ Len(b) >= 2 => ((w[2] % 16) * 16 + ((w[3] \div 4) % 16)) % 256 = b2
      /\ Len(b) = 3 => ((w[3] % 4) * 64 + w[4]) % 256 = b3
  <2> HIDE DEF b1, b2, b3
  <2> QED BY <1>0, <1>5, FirstByte, SecondByte, ThirdByte
<1>7. /\ Len(Three(t)) = 3
      /\ Three(t)[1] = b1
      /\ Len(b) >= 2 => Three(t)[2] = b2
      /\ Len(b) = 3 => Three(t)[3] = b3
  <2> HIDE DEF b1, b2, b3
  <2> QED BY <1>3, <1>6 DEF ToThree
<1>8. \A i \in 1 .. Len(b) : Three(t)[i] = b[i]
  BY <1>7, SMTT(30) DEF At
<1>9. \A i \in 1 .. Len(b) : DecodeGroup(t)[i] = b[i]
  <2> SUFFICES ASSUME NEW i \in 1 .. Len(b) PROVE DecodeGroup(t)[i] = b[i]
    OBVIOUS
  <2> HIDE DEF b1, b2, b3
  <2>1. SubSeq(Three(t), 1, Len(b))[i] = Three(t)[i]
    OBVIOUS
  <2> QED BY <2>1, <1>4, <1>8
<1>10. DecodeGroup(t) \in Seq(Bytes) /\ Len(DecodeGroup(t)) = Len(b)
  BY <1>4, <1>7, <1>8, SMTT(30)
<1> QED BY <1>9, <1>10

(***************************************************************************)
(* A text and its groups                                                   *)
(***************************************************************************)

\* Where the groups of three and of four of a text of L end.
LEMMA GroupBounds ==
    ASSUME NEW n \in {3, 4}, NEW L \in Nat, NEW g \in 1 .. (L + n - 1) \div n
    PROVE  /\ n * (g - 1) \in Nat /\ n * g \in Nat /\ n * (g - 1) < L /\ n * g = n * (g - 1) + n
           /\ g < (L + n - 1) \div n => n * g < L
           /\ g = (L + n - 1) \div n => n * g >= L
<1>1. CASE n = 3
  <2> SUFFICES /\ 3 * (g - 1) \in Nat /\ 3 * g \in Nat /\ 3 * (g - 1) < L /\ 3 * g = 3 * (g - 1) + 3
               /\ g < (L + 2) \div 3 => 3 * g < L
               /\ g = (L + 2) \div 3 => 3 * g >= L
    BY <1>1
  <2>1. g \in 1 .. (L + 2) \div 3
    BY <1>1
  <2> QED BY <2>1
<1>2. CASE n = 4
  <2> SUFFICES /\ 4 * (g - 1) \in Nat /\ 4 * g \in Nat /\ 4 * (g - 1) < L /\ 4 * g = 4 * (g - 1) + 4
               /\ g < (L + 3) \div 4 => 4 * g < L
               /\ g = (L + 3) \div 4 => 4 * g >= L
    BY <1>2
  <2>1. g \in 1 .. (L + 3) \div 4
    BY <1>2
  <2> QED BY <2>1
<1> QED BY <1>1, <1>2

\* How many groups there are, and none of an empty text.
LEMMA GroupCount ==
    ASSUME NEW n \in {3, 4}, NEW L \in Nat
    PROVE  (L + n - 1) \div n \in Nat /\ ((L + n - 1) \div n = 0 <=> L = 0)
<1>1. CASE n = 3
  <2>1. (L + 2) \div 3 \in Nat /\ ((L + 2) \div 3 = 0 <=> L = 0)
    OBVIOUS
  <2> QED BY <1>1, <2>1
<1>2. CASE n = 4
  <2>1. (L + 3) \div 4 \in Nat /\ ((L + 3) \div 4 = 0 <=> L = 0)
    OBVIOUS
  <2> QED BY <1>2, <2>1
<1> QED BY <1>1, <1>2

\* The loop of encode() and that of decode() go through a text group by group.
LEMMA GroupsMakeText ==
    ASSUME NEW S, NEW b \in Seq(S), NEW n \in {3, 4}
    PROVE  /\ Groups(b, n) \in Seq(Seq(S)) /\ Len(Groups(b, n)) = (Len(b) + n - 1) \div n
           /\ FlattenSeq(Groups(b, n)) = b
<1> DEFINE L == Len(b)
           G == (L + n - 1) \div n
           s == Groups(b, n)
           cut(g) == IF n * g < L THEN n * g ELSE L
<1>1. L \in Nat /\ G \in Nat /\ (G = 0 <=> L = 0)
  BY GroupCount
<1>2. s = [g \in 1 .. G |-> Group(b, n, g)]
  BY DEF Groups
<1>3. ASSUME NEW g \in 1 .. G
      PROVE  /\ Group(b, n, g) = SubSeq(b, cut(g - 1) + 1, cut(g)) /\ Group(b, n, g) \in Seq(S)
             /\ cut(g - 1) \in Nat /\ cut(g) \in Nat /\ cut(g - 1) <= cut(g) /\ cut(g) <= L
  <2>1. /\ n * (g - 1) \in Nat /\ n * g \in Nat /\ n * (g - 1) < L /\ n * g = n * (g - 1) + n
        /\ n \in Nat
    BY <1>1, GroupBounds
  <2>2. /\ cut(g - 1) = n * (g - 1) /\ cut(g - 1) \in Nat /\ cut(g) \in Nat
        /\ cut(g - 1) <= cut(g) /\ cut(g) <= L
    BY <1>1, <2>1
  <2>3. Group(b, n, g) = SubSeq(b, cut(g - 1) + 1, cut(g))
    BY <2>2 DEF Group
  <2>4. \A i \in cut(g - 1) + 1 .. cut(g) : b[i] \in S
    BY <2>2
  <2> HIDE DEF cut
  <2>5. SubSeq(b, cut(g - 1) + 1, cut(g)) \in Seq(S)
    BY <2>2, <2>4, SubSeqProperties
  <2> QED BY <2>2, <2>3, <2>5
<1>4. s \in Seq(Seq(S)) /\ Len(s) = G
  <2>1. \A g \in 1 .. G : Group(b, n, g) \in Seq(S)
    BY <1>3
  <2> HIDE DEF s, G
  <2> QED BY <1>1, <1>2, <2>1
<1>5. cut(0) = 0 /\ cut(G) = L
  <2>1. CASE G = 0
    BY <1>1, <2>1
  <2>2. CASE G # 0
    <3>1. G \in 1 .. G
      BY <1>1, <2>2
    <3>2. n * G >= L /\ n * G \in Nat
      BY <1>1, <3>1, GroupBounds
    <3> QED BY <1>1, <3>2
  <2> QED BY <2>1, <2>2
<1> HIDE DEF s, G, cut
<1>6. PICK F \in [0 .. Len(s) -> Seq(S)] :
        /\ F[0] = <<>>
        /\ \A j \in 1 .. Len(s) : F[j] = F[j - 1] \o s[j]
        /\ FlattenSeq(s) = F[Len(s)]
  BY <1>4, Flattening
<1> DEFINE T == {j \in Nat : j <= G => F[j] = SubSeq(b, 1, cut(j))}
<1>7. 0 \in T
  <2>1. SubSeq(b, 1, 0) = <<>>
    BY SubSeqEmpty
  <2> QED BY <1>5, <1>6, <2>1
<1>8. ASSUME NEW j \in Nat, j \in T PROVE j + 1 \in T
  <2> SUFFICES ASSUME j + 1 <= G PROVE F[j + 1] = SubSeq(b, 1, cut(j + 1))
    OBVIOUS
  <2> DEFINE k == j + 1
  <2>1. k \in 1 .. G /\ k - 1 = j
    BY <1>1
  <2>2. F[j] = SubSeq(b, 1, cut(j))
    BY <1>1, <1>8
  <2>3. s[k] = SubSeq(b, cut(j) + 1, cut(k))
    BY <1>2, <1>3, <2>1
  <2>4. F[k] = F[j] \o s[k]
    BY <1>4, <1>6, <2>1
  <2>5. cut(j) \in Nat /\ cut(k) \in Nat /\ cut(j) <= cut(k) /\ cut(k) <= Len(b)
    BY <1>3, <2>1
  <2> HIDE DEF k
  <2>6. SubSeq(b, 1, cut(j)) \o SubSeq(b, cut(j) + 1, cut(k)) = SubSeq(b, 1, cut(k))
    BY <2>5, Joined
  <2>7. F[k] = SubSeq(b, 1, cut(k))
    BY <2>2, <2>3, <2>4, <2>6
  <2> QED BY <2>7 DEF k
<1> HIDE DEF T
<1>9. G \in T
  BY <1>1, <1>7, <1>8, Induction
<1>10. F[G] = SubSeq(b, 1, L)
  BY <1>1, <1>5, <1>9 DEF T
<1>11. SubSeq(b, 1, L) = b
  BY SubSeqFull
<1> QED BY <1>4, <1>6, <1>10, <1>11 DEF s, G

(***************************************************************************)
(* encode()                                                                *)
(***************************************************************************)

\* The groups encode() goes through.
LEMMA GroupOfBytes ==
    ASSUME NEW b \in Seq(Bytes), NEW g \in 1 .. (Len(b) + 2) \div 3
    PROVE  /\ Group(b, 3, g) \in Seq(Bytes) /\ Len(Group(b, 3, g)) \in 1 .. 3
           /\ g < (Len(b) + 2) \div 3 => Len(Group(b, 3, g)) = 3
           /\ g = (Len(b) + 2) \div 3 => Len(Group(b, 3, g)) = Len(b) - 3 * (g - 1)
           /\ \A i \in 1 .. Len(Group(b, 3, g)) : Group(b, 3, g)[i] = b[3 * (g - 1) + i]
<1> DEFINE L == Len(b)
           p == 3 * (g - 1)
           q == IF 3 * g < L THEN 3 * g ELSE L
           y == SubSeq(b, p + 1, q)
<1>1. L \in Nat /\ p \in Nat /\ p < L /\ 3 * g = p + 3
  OBVIOUS
<1>2. q \in Nat /\ p < q /\ q <= L /\ q <= p + 3 /\ (g < (L + 2) \div 3 => q = p + 3)
      /\ (g = (L + 2) \div 3 => q = L)
  OBVIOUS
<1>3. Group(b, 3, g) = y
  BY DEF Group
<1> HIDE DEF p, q, L
<1>4. \A i \in p + 1 .. q : b[i] \in Bytes
  BY <1>1, <1>2 DEF L
<1>5. y \in Seq(Bytes) /\ Len(y) = q - p /\ \A i \in 1 .. q - p : y[i] = b[p + i]
  BY <1>1, <1>2, <1>4
<1> HIDE DEF y
<1>6. Len(y) \in 1 .. 3 /\ (g < (L + 2) \div 3 => Len(y) = 3) /\ (g = (L + 2) \div 3 => Len(y) = L - p)
  BY <1>1, <1>2, <1>5
<1> QED BY <1>3, <1>5, <1>6 DEF L, p

\* A round of encode() gives four characters.
LEMMA FourCharacters ==
    ASSUME NEW b \in Seq(Bytes), Len(b) \in 1 .. 3
    PROVE  EncodeGroup(b) \in Seq(Bytes) /\ Len(EncodeGroup(b)) = 4
<1> DEFINE v == ToFour(b[1], At(b, 2, 0), At(b, 3, 0))
<1>1. \A i \in 1 .. 4 : v[i] \in 0 .. 63
  BY FilledBytes, FourAreSixBits
<1>2. EncodeGroup(b) = [i \in 1 .. 4 |-> IF i <= Len(b) + 1 THEN Alphabet[v[i]] ELSE Pad]
  BY DEF EncodeGroup
<1> HIDE DEF v
<1>3. \A x \in 0 .. 63 : Alphabet[x] \in Bytes
  <2> SUFFICES ASSUME NEW x \in 0 .. 63 PROVE Alphabet[x] \in Bytes
    OBVIOUS
  <2>1. IsBase64(Alphabet[x])
    BY FindAlphabet
  <2>2. \A c : IsBase64(c) => c \in Bytes
    BY DEF IsBase64, Bytes
  <2> QED BY <2>1, <2>2
<1>4. Pad \in Bytes
  BY DEF Pad, Bytes
<1>5. ASSUME NEW i \in 1 .. 4 PROVE EncodeGroup(b)[i] \in Bytes
  BY <1>1, <1>2, <1>3, <1>4
<1>6. EncodeGroup(b) = [i \in 1 .. 4 |-> EncodeGroup(b)[i]]
  BY <1>2
<1> QED BY <1>5, <1>6

\* Which group a character of the text is of, and where it is in it.
LEMMA PlaceInGroup ==
    ASSUME NEW G \in Nat, NEW k \in 1 .. 4 * G
    PROVE  /\ ((k - 1) \div 4) + 1 \in 1 .. G /\ ((k - 1) % 4) + 1 \in 1 .. 4
           /\ k = 4 * (((k - 1) \div 4) + 1 - 1) + ((k - 1) % 4) + 1
OBVIOUS

\* And the other way round.
LEMMA OfPlace ==
    ASSUME NEW G \in Nat, NEW g \in 1 .. G, NEW i \in 1 .. 4
    PROVE  /\ 4 * (g - 1) + i \in 1 .. 4 * G /\ (4 * (g - 1) + i - 1) \div 4 = g - 1
           /\ (4 * (g - 1) + i - 1) % 4 = i - 1
OBVIOUS

\* The text of encode() is the characters of the groups, one after the other.
LEMMA EncodeText ==
    ASSUME NEW b \in Seq(Bytes)
    PROVE  /\ Encode(b) \in Seq(Bytes) /\ Len(Encode(b)) = 4 * ((Len(b) + 2) \div 3)
           /\ \A g \in 1 .. (Len(b) + 2) \div 3 : \A i \in 1 .. 4 :
                 Encode(b)[4 * (g - 1) + i] = EncodeGroup(Group(b, 3, g))[i]
<1> DEFINE G == (Len(b) + 2) \div 3
           E(g) == EncodeGroup(Group(b, 3, g))
           e == [k \in 1 .. 4 * G |-> E(((k - 1) \div 4) + 1)[((k - 1) % 4) + 1]]
<1>1. G \in Nat
  OBVIOUS
<1>2. ASSUME NEW g \in 1 .. G PROVE E(g) \in Seq(Bytes) /\ Len(E(g)) = 4
  BY GroupOfBytes, FourCharacters
<1>3. DOMAIN Groups(b, 3) = 1 .. G /\ \A g \in 1 .. G : Groups(b, 3)[g] = Group(b, 3, g)
  BY DEF Groups
<1>4. Encode(b) = FlattenSeq([g \in 1 .. G |-> E(g)])
  <2>1. [g \in DOMAIN Groups(b, 3) |-> EncodeGroup(Groups(b, 3)[g])] = [g \in 1 .. G |-> E(g)]
    BY <1>3
  <2> QED BY <2>1 DEF Encode
<1> HIDE DEF E, G
<1>5. ASSUME NEW k \in 1 .. 4 * G PROVE e[k] \in Bytes
  BY <1>1, <1>2, PlaceInGroup
<1>6. e \in Seq(Bytes) /\ Len(e) = 4 * G
  <2>1. 4 * G \in Nat /\ e = [k \in 1 .. 4 * G |-> e[k]]
    BY <1>1
  <2> HIDE DEF e
  <2> QED BY <1>5, <2>1
<1>7. ASSUME NEW g \in 1 .. G, NEW i \in 1 .. 4 PROVE e[4 * (g - 1) + i] = E(g)[i]
  <2> DEFINE k == 4 * (g - 1) + i
  <2>1. k \in 1 .. 4 * G /\ (k - 1) \div 4 = g - 1 /\ (k - 1) % 4 = i - 1
    BY <1>1, OfPlace
  <2> HIDE DEF k
  <2>2. ((k - 1) \div 4) + 1 = g /\ ((k - 1) % 4) + 1 = i
    BY <1>1, <2>1
  <2>3. e[k] = E(g)[i]
    BY <2>1, <2>2
  <2> QED BY <2>3 DEF k
<1> HIDE DEF e
<1>8. Groups(e, 4) = [g \in 1 .. G |-> E(g)]
  <2>1. (Len(e) + 4 - 1) \div 4 = G
    BY <1>1, <1>6
  <2>2. ASSUME NEW g \in 1 .. G PROVE Group(e, 4, g) = E(g)
    <3> DEFINE p == 4 * (g - 1)
               y == SubSeq(e, p + 1, p + 4)
    <3>1. p \in Nat /\ 4 * g = p + 4 /\ p + 4 <= 4 * G
      BY <1>1
    <3>2. Group(e, 4, g) = y
      BY <1>1, <1>6, <3>1 DEF Group
    <3>3. \A i \in 1 .. 4 : e[p + i] = E(g)[i]
      BY <1>7
    <3> HIDE DEF p
    <3>4. y \in Seq(Bytes) /\ Len(y) = 4 /\ \A i \in 1 .. 4 : y[i] = e[p + i]
      BY <1>6, <3>1
    <3> HIDE DEF y
    <3>5. y = E(g)
      BY <1>2, <3>3, <3>4, SeqEqual
    <3> QED BY <3>2, <3>5
  <2> QED BY <2>1, <2>2 DEF Groups
<1>9. Encode(b) = e
  BY <1>4, <1>6, <1>8, GroupsMakeText
<1> QED BY <1>6, <1>7, <1>9 DEF E, G

(***************************************************************************)
(* decode()                                                                *)
(***************************************************************************)

\* decode() takes what comes before the first character that is not of the alphabet.
LEMMA AcceptedUpTo ==
    ASSUME NEW x \in Seq(Bytes), NEW n \in 0 .. Len(x),
           \A i \in 1 .. n : IsBase64(x[i]), n < Len(x) => ~ IsBase64(x[n + 1])
    PROVE  Accepted(x) = SubSeq(x, 1, n)
<1> DEFINE y == Append(x, Pad)
           stops == {i \in 1 .. Len(y) : ~ IsBase64(y[i])}
<1>1. Len(x) \in Nat /\ n \in Nat /\ n <= Len(x)
  OBVIOUS
<1>2. Len(y) = Len(x) + 1 /\ y[Len(x) + 1] = Pad /\ \A i \in 1 .. Len(x) : y[i] = x[i]
  BY DEF Pad, Bytes
<1>3. Accepted(x) = SubSeq(x, 1, (IF stops # {} THEN Min(stops) ELSE 0) - 1)
  BY DEF Accepted, SelectInSeq
<1> HIDE DEF y
<1>4. n + 1 \in stops
  <2>1. CASE n = Len(x)
    BY <1>1, <1>2, <2>1, PadEnds
  <2>2. CASE n < Len(x)
    BY <1>1, <1>2, <2>2
  <2> QED BY <1>1, <2>1, <2>2
<1>5. \A i \in stops : i \in Nat /\ n + 1 <= i
  <2> SUFFICES ASSUME NEW i \in stops, ~ (n + 1 <= i) PROVE FALSE
    OBVIOUS
  <2>1. i \in 1 .. n /\ y[i] = x[i] /\ ~ IsBase64(y[i])
    BY <1>1, <1>2
  <2> QED BY <2>1
<1> HIDE DEF stops
<1>6. Min(stops) = n + 1
  <2>1. \E k \in stops : \A i \in stops : k <= i
    BY <1>4, <1>5
  <2>2. Min(stops) \in stops /\ \A i \in stops : Min(stops) <= i
    BY <2>1 DEF Min
  <2> QED BY <1>1, <1>4, <1>5, <2>2
<1> QED BY <1>1, <1>3, <1>4, <1>6

\* Groups and characters: L bytes have L + G characters before the padding.
LEMMA CharacterCount ==
    ASSUME NEW L \in Nat, NEW G, G = (L + 2) \div 3
    PROVE  /\ G \in Nat /\ L + G \in 0 .. 4 * G /\ (L + G + 3) \div 4 = G
           /\ G # 0 => 4 * (G - 1) < L + G /\ 3 * (G - 1) < L /\ L <= 3 * G
OBVIOUS

\* The characters before the padding are of the alphabet, the next one is not.
LEMMA WherePaddingStarts ==
    ASSUME NEW b \in Seq(Bytes), NEW i \in 1 .. Len(Encode(b))
    PROVE  IsBase64(Encode(b)[i]) <=> i <= Len(b) + (Len(b) + 2) \div 3
<1> DEFINE L == Len(b)
           G == (L + 2) \div 3
           g == ((i - 1) \div 4) + 1
           j == ((i - 1) % 4) + 1
           y == Group(b, 3, g)
<1>1. L \in Nat /\ G \in Nat /\ i \in 1 .. 4 * G
  <2>1. L \in Nat /\ G \in Nat
    OBVIOUS
  <2>2. Len(Encode(b)) = 4 * G
    BY EncodeText
  <2> QED BY <2>1, <2>2
<1>2. g \in 1 .. G /\ j \in 1 .. 4 /\ i = 4 * (g - 1) + j
  BY <1>1, PlaceInGroup
<1> HIDE DEF g, j
<1>3. Encode(b)[i] = EncodeGroup(y)[j]
  BY <1>2, EncodeText
<1>4. /\ y \in Seq(Bytes) /\ Len(y) \in 1 .. 3
      /\ g < G => Len(y) = 3
      /\ g = G => Len(y) = L - 3 * (g - 1)
  BY <1>2, GroupOfBytes
<1> HIDE DEF y
<1>5. IsBase64(Encode(b)[i]) <=> j <= Len(y) + 1
  BY <1>2, <1>3, <1>4, GroupIsPadded
<1>6. j <= Len(y) + 1 <=> i <= L + G
  <2>1. G # 0 => 4 * (G - 1) < L + G /\ 3 * (G - 1) < L
    BY <1>1, CharacterCount
  <2> HIDE DEF G, L
  <2>2. CASE g < G
    <3>1. j <= Len(y) + 1
      <4>1. j \in 1 .. 4
        BY <1>2
      <4>2. Len(y) = 3
        BY <1>4, <2>2
      <4> QED BY <4>1, <4>2
    <3>2. i <= 4 * (G - 1) /\ G # 0
      BY <1>1, <1>2, <2>2
    <3>3. i <= L + G
      BY <1>1, <2>1, <3>2
    <3> QED BY <3>1, <3>3
  <2>3. CASE g = G
    BY <1>1, <1>2, <1>4, <2>3
  <2> QED BY <1>1, <1>2, <2>2, <2>3
<1> QED BY <1>5, <1>6

\* Whatever the bytes of a token are, decode() makes them of what encode() has written,
\* also when something follows it that is not of the alphabet.
THEOREM TextRoundTrip ==
    ASSUME NEW b \in Seq(Bytes), NEW f \in Seq(Bytes), f # <<>> => ~ IsBase64(f[1])
    PROVE  Decode(Encode(b) \o f) = b
<1> DEFINE L == Len(b)
           G == (L + 2) \div 3
           A == L + G
           e == Encode(b)
           x == e \o f
           a == SubSeq(x, 1, A)
<1>1. /\ L \in Nat /\ G \in Nat /\ A \in 0 .. 4 * G /\ (A + 3) \div 4 = G
      /\ G # 0 => 4 * (G - 1) < A
  <2>1. L \in Nat
    OBVIOUS
  <2> HIDE DEF L
  <2> QED BY <2>1, CharacterCount
<1>2. e \in Seq(Bytes) /\ Len(e) = 4 * G
  BY EncodeText
<1>3. \A i \in 1 .. Len(e) : IsBase64(e[i]) <=> i <= A
  BY WherePaddingStarts
<1>4. \A g \in 1 .. G : \A i \in 1 .. 4 : e[4 * (g - 1) + i] = EncodeGroup(Group(b, 3, g))[i]
  BY EncodeText
<1> HIDE DEF e, A, G, L
<1>5. /\ x \in Seq(Bytes) /\ Len(x) = Len(e) + Len(f) /\ Len(f) \in Nat
      /\ \A i \in 1 .. Len(e) : x[i] = e[i]
      /\ Len(f) > 0 => x[Len(e) + 1] = f[1]
  BY <1>2, SMTT(30)
<1>6. A \in 0 .. Len(x) /\ (\A i \in 1 .. A : IsBase64(x[i])) /\ (A < Len(x) => ~ IsBase64(x[A + 1]))
  <2>1. A \in 0 .. Len(x)
    BY <1>1, <1>2, <1>5
  <2>2. ASSUME NEW i \in 1 .. A PROVE IsBase64(x[i])
    BY <1>1, <1>2, <1>3, <1>5
  <2>3. ASSUME A < Len(x) PROVE ~ IsBase64(x[A + 1])
    <3>1. CASE A < 4 * G
      BY <1>1, <1>2, <1>3, <1>5, <3>1
    <3>2. CASE A = 4 * G
      <4>1. Len(f) > 0
        BY <1>1, <1>2, <1>5, <2>3, <3>2
      <4>2. f # <<>> /\ x[A + 1] = f[1]
        BY <1>2, <1>5, <3>2, <4>1
      <4> QED BY <4>2
    <3>3. A < 4 * G \/ A = 4 * G
      BY <1>1
    <3> QED BY <3>1, <3>2, <3>3
  <2> QED BY <2>1, <2>2, <2>3
<1>7. Accepted(x) = a
  BY <1>5, <1>6, AcceptedUpTo
<1> HIDE DEF x
<1>8. a \in Seq(Bytes) /\ Len(a) = A /\ \A i \in 1 .. A : a[i] = x[i]
  BY <1>5, <1>6
<1> HIDE DEF a
<1>9. ASSUME NEW g \in 1 .. G PROVE DecodeGroup(Group(a, 4, g)) = Group(b, 3, g)
  <2> DEFINE p == 4 * (g - 1)
             q == IF 4 * g < A THEN 4 * g ELSE A
             t == SubSeq(a, p + 1, q)
             y == Group(b, 3, g)
  <2>1. /\ y \in Seq(Bytes) /\ Len(y) \in 1 .. 3
        /\ g < G => Len(y) = 3
        /\ g = G => Len(y) = L - 3 * (g - 1)
    BY GroupOfBytes DEF G, L
  <2>2. Group(a, 4, g) = t
    BY <1>8 DEF Group
  <2>3. p \in Nat /\ 4 * g = p + 4 /\ g \in Nat /\ g <= G /\ p < A
    BY <1>1
  <2> HIDE DEF p
  <2>4. p \in Nat /\ q \in Nat /\ p <= q /\ q <= A /\ q - p = Len(y) + 1
    <3>1. CASE g < G
      <4>1. 4 * g < A
        BY <1>1, <2>3, <3>1
      <4>2. q = p + 4
        BY <2>3, <4>1
      <4>3. Len(y) = 3
        BY <2>1, <3>1
      <4>4. A \in Int
        BY <1>1
      <4> HIDE DEF q, y
      <4> QED BY <2>3, <4>1, <4>2, <4>3, <4>4
    <3>2. CASE g = G
      <4>1. ~ (4 * g < A) /\ q = A
        BY <1>1, <3>2
      <4>2. A = L + G /\ p = 4 * (g - 1)
        BY DEF A, p
      <4>3. Len(y) = L - 3 * (g - 1)
        BY <2>1, <3>2
      <4>4. A - p = Len(y) + 1
        <5>1. L \in Nat /\ g \in Nat
          BY <1>1, <2>3
        <5> HIDE DEF y, q
        <5> QED BY <3>2, <4>2, <4>3, <5>1
      <4> HIDE DEF y, q
      <4> QED BY <1>1, <2>3, <4>1, <4>4
    <3> QED BY <2>3, <1>1, <3>1, <3>2
  <2> HIDE DEF q
  <2>5. t \in Seq(Bytes) /\ Len(t) = q - p /\ \A i \in 1 .. q - p : t[i] = a[p + i]
    <3>1. \A i \in p + 1 .. q : a[i] \in Bytes
      BY <1>8, <2>4
    <3> QED BY <2>4, <3>1
  <2> HIDE DEF t, y
  <2>6. ASSUME NEW i \in 1 .. Len(t) PROVE t[i] = EncodeGroup(y)[i]
    <3>1. i \in 1 .. 4 /\ t[i] = a[p + i]
      <4>1. i \in 1 .. q - p /\ q - p = Len(y) + 1
        BY <2>4, <2>5
      <4>2. Len(y) \in 1 .. 3
        BY <2>1
      <4>3. t[i] = a[p + i]
        BY <2>5, <4>1
      <4>4. i \in 1 .. Len(y) + 1
        BY <4>1
      <4>5. i \in 1 .. 4
        <5>1. PICK n : n = Len(y)
          OBVIOUS
        <5>2. n \in 1 .. 3 /\ i \in 1 .. n + 1
          BY <4>2, <4>4, <5>1
        <5> QED BY <5>2
      <4> QED BY <4>3, <4>5
    <3>2. p + i \in 1 .. A
      BY <1>1, <2>4, <2>5
    <3>3. a[p + i] = e[p + i]
      <4>1. p + i \in 1 .. Len(e)
        BY <1>1, <1>2, <3>2
      <4> QED BY <1>5, <1>8, <3>2, <4>1
    <3>4. e[p + i] = EncodeGroup(y)[i]
      BY <1>4, <3>1 DEF p, y
    <3> QED BY <3>1, <3>3, <3>4
  <2>7. t \in Seq(Int) /\ Len(t) = Len(y) + 1
    <3>1. Bytes \subseteq Int
      BY DEF Bytes
    <3>2. t \in Seq(Int)
      BY <2>5, <3>1, Wider
    <3> QED BY <2>4, <2>5, <3>2
  <2>8. DecodeGroup(t) = y
    BY <2>1, <2>6, <2>7, GroupRoundTrip
  <2> QED BY <2>2, <2>8 DEF y
<1>10. DOMAIN Groups(a, 4) = 1 .. G /\ \A g \in 1 .. G : Groups(a, 4)[g] = Group(a, 4, g)
  BY <1>1, <1>8 DEF Groups
<1>11. Decode(x) = FlattenSeq([g \in 1 .. G |-> Group(b, 3, g)])
  <2>1. [g \in DOMAIN Groups(a, 4) |-> DecodeGroup(Groups(a, 4)[g])] = [g \in 1 .. G |-> Group(b, 3, g)]
    BY <1>9, <1>10
  <2> QED BY <1>7, <2>1 DEF Decode
<1>12. Groups(b, 3) = [g \in 1 .. G |-> Group(b, 3, g)]
  BY DEF Groups, G, L
<1>13. FlattenSeq(Groups(b, 3)) = b
  BY GroupsMakeText
<1> QED BY <1>11, <1>12, <1>13 DEF x, e

(***************************************************************************)
(* The text of encode(), bit by bit                                        *)
(***************************************************************************)

\* Half of a number and its last bit.
LEMMA Half ==
    ASSUME NEW n \in Nat, NEW x \in 0 .. 2 * n + 1
    PROVE  \E a \in 0 .. n, c \in {0, 1} : x = 2 * a + c
<1>1. x % 2 \in {0, 1}
  OBVIOUS
<1>2. x % 2 = x - 2 * (x \div 2)
  OBVIOUS
<1>3. x \div 2 \in 0 .. n
  OBVIOUS
<1> QED BY <1>1, <1>2, <1>3

\* The bits of a byte.
LEMMA BitsOf ==
    ASSUME NEW x \in Bytes
    PROVE  \E c1, c2, c3, c4, c5, c6, c7, c8 \in {0, 1} :
              x = 128 * c1 + 64 * c2 + 32 * c3 + 16 * c4 + 8 * c5 + 4 * c6 + 2 * c7 + c8
<1>1. PICK a1 \in 0 .. 127, c8 \in {0, 1} : x = 2 * a1 + c8
  BY Half DEF Bytes
<1>2. PICK a2 \in 0 .. 63, c7 \in {0, 1} : a1 = 2 * a2 + c7
  BY Half
<1>3. PICK a3 \in 0 .. 31, c6 \in {0, 1} : a2 = 2 * a3 + c6
  BY Half
<1>4. PICK a4 \in 0 .. 15, c5 \in {0, 1} : a3 = 2 * a4 + c5
  BY Half
<1>5. PICK a5 \in 0 .. 7, c4 \in {0, 1} : a4 = 2 * a5 + c4
  BY Half
<1>6. PICK a6 \in 0 .. 3, c3 \in {0, 1} : a5 = 2 * a6 + c3
  BY Half
<1>7. PICK c1 \in 0 .. 1, c2 \in {0, 1} : a6 = 2 * c1 + c2
  BY Half
<1>8. c1 \in {0, 1}
  OBVIOUS
<1>9. x = 128 * c1 + 64 * c2 + 32 * c3 + 16 * c4 + 8 * c5 + 4 * c6 + 2 * c7 + c8
  BY <1>1, <1>2, <1>3, <1>4, <1>5, <1>6, <1>7
<1> QED BY <1>8, <1>9

\* The bits of x, and the parts of x that ToFour takes.
Parts(x, c1, c2, c3, c4, c5, c6, c7, c8) ==
    /\ (x \div 128) % 2 = c1 /\ (x \div 64) % 2 = c2 /\ (x \div 32) % 2 = c3 /\ (x \div 16) % 2 = c4
    /\ (x \div 8) % 2 = c5 /\ (x \div 4) % 2 = c6 /\ (x \div 2) % 2 = c7 /\ (x \div 1) % 2 = c8
    /\ x \div 64 = 2 * c1 + c2 /\ x % 64 = 32 * c3 + 16 * c4 + 8 * c5 + 4 * c6 + 2 * c7 + c8
    /\ x \div 16 = 8 * c1 + 4 * c2 + 2 * c3 + c4 /\ x % 16 = 8 * c5 + 4 * c6 + 2 * c7 + c8
    /\ x \div 4 = 32 * c1 + 16 * c2 + 8 * c3 + 4 * c4 + 2 * c5 + c6 /\ x % 4 = 2 * c7 + c8

\* The parts of a byte, from its bits.
LEMMA BitsOfByte ==
    ASSUME NEW x \in Bytes
    PROVE  \E c1, c2, c3, c4, c5, c6, c7, c8 \in {0, 1} : Parts(x, c1, c2, c3, c4, c5, c6, c7, c8)
<1>1. PICK c1, c2, c3, c4, c5, c6, c7, c8 \in {0, 1} :
        x = 128 * c1 + 64 * c2 + 32 * c3 + 16 * c4 + 8 * c5 + 4 * c6 + 2 * c7 + c8
  BY BitsOf
<1>2. /\ x \div 128 = c1 /\ x \div 64 = 2 * c1 + c2 /\ x \div 32 = 4 * c1 + 2 * c2 + c3
      /\ x \div 16 = 8 * c1 + 4 * c2 + 2 * c3 + c4
  BY <1>1
<1>3. /\ x \div 8 = 16 * c1 + 8 * c2 + 4 * c3 + 2 * c4 + c5
      /\ x \div 4 = 32 * c1 + 16 * c2 + 8 * c3 + 4 * c4 + 2 * c5 + c6
      /\ x \div 2 = 64 * c1 + 32 * c2 + 16 * c3 + 8 * c4 + 4 * c5 + 2 * c6 + c7
      /\ x \div 1 = x
  BY <1>1
<1>4. /\ x % 4 = 2 * c7 + c8 /\ x % 16 = 8 * c5 + 4 * c6 + 2 * c7 + c8
      /\ x % 64 = 32 * c3 + 16 * c4 + 8 * c5 + 4 * c6 + 2 * c7 + c8
  BY <1>1
<1>5. /\ (x \div 128) % 2 = c1 /\ (x \div 64) % 2 = c2 /\ (x \div 32) % 2 = c3
      /\ (x \div 16) % 2 = c4
  BY <1>2
<1>6. (x \div 8) % 2 = c5 /\ (x \div 4) % 2 = c6
  BY <1>3
<1>7. (x \div 2) % 2 = c7 /\ (x \div 1) % 2 = c8
  BY <1>1, <1>3
<1>8. Parts(x, c1, c2, c3, c4, c5, c6, c7, c8)
  BY <1>2, <1>3, <1>4, <1>5, <1>6, <1>7 DEF Parts
<1> QED BY <1>8

\* A bit of the text is one of its group.
LEMMA BitOfGroup ==
    ASSUME NEW b \in Seq(Bytes), NEW g \in 1 .. (Len(b) + 2) \div 3, NEW o \in 0 .. 23
    PROVE  Bit(b, 24 * (g - 1) + o) = (At(Group(b, 3, g), (o \div 8) + 1, 0) \div BitWeight[(o % 8) + 1]) % 2
<1> DEFINE L == Len(b)
           G == (L + 2) \div 3
           y == Group(b, 3, g)
           n == 24 * (g - 1) + o
           m == (o \div 8) + 1
           p == 3 * (g - 1)
<1>1. /\ Len(y) \in 1 .. 3
      /\ g < G => Len(y) = 3
      /\ g = G => Len(y) = L - p
      /\ \A i \in 1 .. Len(y) : y[i] = b[p + i]
  BY GroupOfBytes
<1>2. L \in Nat /\ G \in Nat /\ g \in 1 .. G /\ L <= 3 * G /\ 3 * (G - 1) < L
  OBVIOUS
<1>3. /\ n \div 8 = p + (o \div 8) /\ n % 8 = o % 8 /\ n \in Nat /\ m \in 1 .. 3 /\ p \in Nat
      /\ p + m = (n \div 8) + 1 /\ (n < 8 * L <=> p + m <= L)
  BY <1>2
<1>4. Bit(b, n) = IF n < 8 * L THEN (b[(n \div 8) + 1] \div BitWeight[(n % 8) + 1]) % 2 ELSE 0
  BY DEF Bit
<1>5. \A x : x \in 1 .. 8 => (0 \div BitWeight[x]) % 2 = 0
  BY DEF BitWeight
<1>6. (o % 8) + 1 \in 1 .. 8
  OBVIOUS
<1> HIDE DEF y, n, m
<1>7. m <= Len(y) <=> p + m <= L
  <2>1. CASE g < G
    <3>1. p + 3 <= L
      BY <1>2, <2>1
    <3>2. Len(y) = 3 /\ m \in 1 .. 3 /\ p \in Nat /\ L \in Nat
      BY <1>1, <1>2, <1>3, <2>1
    <3> HIDE DEF p, L
    <3> QED BY <3>1, <3>2
  <2>2. CASE g = G
    <3> HIDE DEF p
    <3> QED BY <1>1, <1>2, <1>3, <2>2
  <2> QED BY <1>2, <2>1, <2>2
<1>8. CASE m <= Len(y)
  <2>1. At(y, m, 0) = b[p + m]
    BY <1>1, <1>3, <1>8 DEF At
  <2> QED BY <1>3, <1>4, <1>7, <1>8, <2>1 DEF m, n, y
<1>9. CASE ~ (m <= Len(y))
  <2>1. At(y, m, 0) = 0
    BY <1>9 DEF At
  <2> QED BY <1>3, <1>4, <1>5, <1>6, <1>7, <1>9, <2>1 DEF m, n, y
<1> QED BY <1>8, <1>9

\* The character of a group is that of six bits of the text.
LEMMA SixBitsOfGroup ==
    ASSUME NEW b \in Seq(Bytes), NEW g \in 1 .. (Len(b) + 2) \div 3, NEW i \in 1 .. 4,
           NEW y, y = Group(b, 3, g)
    PROVE  SixBits(b, 24 * (g - 1) + 6 * (i - 1)) = ToFour(y[1], At(y, 2, 0), At(y, 3, 0))[i]
<1> DEFINE n == 24 * (g - 1)
           b1 == y[1]
           b2 == At(y, 2, 0)
           b3 == At(y, 3, 0)
<1>1. b1 \in Bytes /\ b2 \in Bytes /\ b3 \in Bytes /\ n \in Nat /\ b1 = At(y, 1, 0)
  <2>1. y \in Seq(Bytes) /\ Len(y) \in 1 .. 3
    BY GroupOfBytes
  <2> QED BY <2>1, FilledBytes DEF At
<1>2. \A o \in 0 .. 23 : Bit(b, n + o) = (At(y, (o \div 8) + 1, 0) \div BitWeight[(o % 8) + 1]) % 2
  BY BitOfGroup
<1>3. \A o \in 0 .. 7 :
        /\ Bit(b, n + o) = (b1 \div BitWeight[o + 1]) % 2
        /\ Bit(b, n + (8 + o)) = (b2 \div BitWeight[o + 1]) % 2
        /\ Bit(b, n + (16 + o)) = (b3 \div BitWeight[o + 1]) % 2
  <2> SUFFICES ASSUME NEW o \in 0 .. 7
               PROVE  /\ Bit(b, n + o) = (b1 \div BitWeight[o + 1]) % 2
                      /\ Bit(b, n + (8 + o)) = (b2 \div BitWeight[o + 1]) % 2
                      /\ Bit(b, n + (16 + o)) = (b3 \div BitWeight[o + 1]) % 2
    OBVIOUS
  <2>1. /\ o \div 8 = 0 /\ (8 + o) \div 8 = 1 /\ (16 + o) \div 8 = 2
        /\ o % 8 = o /\ (8 + o) % 8 = o /\ (16 + o) % 8 = o
        /\ o \in 0 .. 23 /\ 8 + o \in 0 .. 23 /\ 16 + o \in 0 .. 23
    OBVIOUS
  <2> HIDE DEF n
  <2>2. Bit(b, n + o) = (At(y, 0 + 1, 0) \div BitWeight[o + 1]) % 2
    BY <1>2, <2>1
  <2>3. Bit(b, n + (8 + o)) = (At(y, 1 + 1, 0) \div BitWeight[o + 1]) % 2
    BY <1>2, <2>1
  <2>4. Bit(b, n + (16 + o)) = (At(y, 2 + 1, 0) \div BitWeight[o + 1]) % 2
    BY <1>2, <2>1
  <2> QED BY <1>1, <2>2, <2>3, <2>4
<1> HIDE DEF n, b1, b2, b3
<1>4. PICK c1, c2, c3, c4, c5, c6, c7, c8 \in {0, 1} : Parts(b1, c1, c2, c3, c4, c5, c6, c7, c8)
  BY <1>1, BitsOfByte
<1>5. PICK d1, d2, d3, d4, d5, d6, d7, d8 \in {0, 1} : Parts(b2, d1, d2, d3, d4, d5, d6, d7, d8)
  BY <1>1, BitsOfByte
<1>6. PICK e1, e2, e3, e4, e5, e6, e7, e8 \in {0, 1} : Parts(b3, e1, e2, e3, e4, e5, e6, e7, e8)
  BY <1>1, BitsOfByte
<1>7. /\ Bit(b, n) = c1 /\ Bit(b, n + 1) = c2 /\ Bit(b, n + 2) = c3 /\ Bit(b, n + 3) = c4
      /\ Bit(b, n + 4) = c5 /\ Bit(b, n + 5) = c6 /\ Bit(b, n + 6) = c7 /\ Bit(b, n + 7) = c8
  BY <1>1, <1>3, <1>4 DEF BitWeight, Parts
<1>8. /\ Bit(b, n + 8) = d1 /\ Bit(b, n + 9) = d2 /\ Bit(b, n + 10) = d3 /\ Bit(b, n + 11) = d4
      /\ Bit(b, n + 12) = d5 /\ Bit(b, n + 13) = d6 /\ Bit(b, n + 14) = d7 /\ Bit(b, n + 15) = d8
  BY <1>1, <1>3, <1>5 DEF BitWeight, Parts
<1>9. /\ Bit(b, n + 16) = e1 /\ Bit(b, n + 17) = e2 /\ Bit(b, n + 18) = e3 /\ Bit(b, n + 19) = e4
      /\ Bit(b, n + 20) = e5 /\ Bit(b, n + 21) = e6 /\ Bit(b, n + 22) = e7 /\ Bit(b, n + 23) = e8
  BY <1>1, <1>3, <1>6 DEF BitWeight, Parts
<1>10. ToFour(b1, b2, b3) =
         <<b1 \div 4, (b1 % 4) * 16 + (b2 \div 16), (b2 % 16) * 4 + (b3 \div 64), b3 % 64>>
  BY DEF ToFour
<1>11. /\ b1 \div 4 = 32 * c1 + 16 * c2 + 8 * c3 + 4 * c4 + 2 * c5 + c6
       /\ (b1 % 4) * 16 + (b2 \div 16) = 32 * c7 + 16 * c8 + 8 * d1 + 4 * d2 + 2 * d3 + d4
       /\ (b2 % 16) * 4 + (b3 \div 64) = 32 * d5 + 16 * d6 + 8 * d7 + 4 * d8 + 2 * e1 + e2
       /\ b3 % 64 = 32 * e3 + 16 * e4 + 8 * e5 + 4 * e6 + 2 * e7 + e8
  <2>1. b1 \div 4 = 32 * c1 + 16 * c2 + 8 * c3 + 4 * c4 + 2 * c5 + c6
    BY <1>4 DEF Parts
  <2>2. (b1 % 4) * 16 + (b2 \div 16) = 32 * c7 + 16 * c8 + 8 * d1 + 4 * d2 + 2 * d3 + d4
    <3>1. b1 % 4 = 2 * c7 + c8 /\ b2 \div 16 = 8 * d1 + 4 * d2 + 2 * d3 + d4
      BY <1>4, <1>5 DEF Parts
    <3> QED BY <3>1
  <2>3. (b2 % 16) * 4 + (b3 \div 64) = 32 * d5 + 16 * d6 + 8 * d7 + 4 * d8 + 2 * e1 + e2
    <3>1. b2 % 16 = 8 * d5 + 4 * d6 + 2 * d7 + d8 /\ b3 \div 64 = 2 * e1 + e2
      BY <1>5, <1>6 DEF Parts
    <3> QED BY <3>1
  <2>4. b3 % 64 = 32 * e3 + 16 * e4 + 8 * e5 + 4 * e6 + 2 * e7 + e8
    BY <1>6 DEF Parts
  <2> QED BY <2>1, <2>2, <2>3, <2>4
<1>12. CASE i = 1
  <2>1. n + 0 = n /\ n + 0 + 1 = n + 1 /\ n + 0 + 2 = n + 2 /\ n + 0 + 3 = n + 3 /\ n + 0 + 4 = n + 4 /\ n + 0 + 5 = n + 5
    BY <1>1
  <2>2. SixBits(b, n + 0) = 32 * c1 + 16 * c2 + 8 * c3 + 4 * c4 + 2 * c5 + c6
    BY <1>7, <2>1 DEF SixBits
  <2>3. ToFour(b1, b2, b3)[i] = 32 * c1 + 16 * c2 + 8 * c3 + 4 * c4 + 2 * c5 + c6
    BY <1>10, <1>11, <1>12
  <2>4. 6 * (i - 1) = 0
    BY <1>12
  <2> QED BY <2>2, <2>3, <2>4 DEF n, b1, b2, b3
<1>13. CASE i = 2
  <2>1. n + 6 + 1 = n + 7 /\ n + 6 + 2 = n + 8 /\ n + 6 + 3 = n + 9 /\ n + 6 + 4 = n + 10 /\ n + 6 + 5 = n + 11
    BY <1>1
  <2>2. SixBits(b, n + 6) = 32 * c7 + 16 * c8 + 8 * d1 + 4 * d2 + 2 * d3 + d4
    BY <1>7, <1>8, <2>1 DEF SixBits
  <2>3. ToFour(b1, b2, b3)[i] = 32 * c7 + 16 * c8 + 8 * d1 + 4 * d2 + 2 * d3 + d4
    BY <1>10, <1>11, <1>13
  <2>4. 6 * (i - 1) = 6
    BY <1>13
  <2> QED BY <2>2, <2>3, <2>4 DEF n, b1, b2, b3
<1>14. CASE i = 3
  <2>1. n + 12 + 1 = n + 13 /\ n + 12 + 2 = n + 14 /\ n + 12 + 3 = n + 15 /\ n + 12 + 4 = n + 16 /\ n + 12 + 5 = n + 17
    BY <1>1
  <2>2. SixBits(b, n + 12) = 32 * d5 + 16 * d6 + 8 * d7 + 4 * d8 + 2 * e1 + e2
    BY <1>8, <1>9, <2>1 DEF SixBits
  <2>3. ToFour(b1, b2, b3)[i] = 32 * d5 + 16 * d6 + 8 * d7 + 4 * d8 + 2 * e1 + e2
    BY <1>10, <1>11, <1>14
  <2>4. 6 * (i - 1) = 12
    BY <1>14
  <2> QED BY <2>2, <2>3, <2>4 DEF n, b1, b2, b3
<1>15. CASE i = 4
  <2>1. n + 18 + 1 = n + 19 /\ n + 18 + 2 = n + 20 /\ n + 18 + 3 = n + 21 /\ n + 18 + 4 = n + 22 /\ n + 18 + 5 = n + 23
    BY <1>1
  <2>2. SixBits(b, n + 18) = 32 * e3 + 16 * e4 + 8 * e5 + 4 * e6 + 2 * e7 + e8
    BY <1>9, <2>1 DEF SixBits
  <2>3. ToFour(b1, b2, b3)[i] = 32 * e3 + 16 * e4 + 8 * e5 + 4 * e6 + 2 * e7 + e8
    BY <1>10, <1>11, <1>15
  <2>4. 6 * (i - 1) = 18
    BY <1>15
  <2> QED BY <2>2, <2>3, <2>4 DEF n, b1, b2, b3
<1> QED BY <1>12, <1>13, <1>14, <1>15

\* What encode() writes is the bits of the bytes, six to a character, and padding.
LEMMA EncodeSixBits ==
    ASSUME NEW b \in Seq(Bytes), NEW k \in 1 .. Len(Encode(b))
    PROVE  Encode(b)[k] = IF 6 * (k - 1) < 8 * Len(b) THEN Alphabet[SixBits(b, 6 * (k - 1))] ELSE Pad
<1> DEFINE L == Len(b)
           G == (L + 2) \div 3
           g == ((k - 1) \div 4) + 1
           i == ((k - 1) % 4) + 1
           y == Group(b, 3, g)
<1>1. L \in Nat /\ G \in Nat /\ k \in 1 .. 4 * G
  <2>1. L \in Nat /\ G \in Nat
    OBVIOUS
  <2>2. Len(Encode(b)) = 4 * G
    BY EncodeText
  <2> QED BY <2>1, <2>2
<1>2. g \in 1 .. G /\ i \in 1 .. 4 /\ k = 4 * (g - 1) + i
  BY <1>1, PlaceInGroup
<1>3. L <= 3 * G /\ 3 * (G - 1) < L
  BY <1>1, <1>2
<1> HIDE DEF g, i
<1>4. Encode(b)[k] = EncodeGroup(y)[i]
  BY <1>2, EncodeText
<1>5. /\ y \in Seq(Bytes) /\ Len(y) \in 1 .. 3
      /\ g < G => Len(y) = 3
      /\ g = G => Len(y) = L - 3 * (g - 1)
  BY <1>2, GroupOfBytes
<1>6. SixBits(b, 24 * (g - 1) + 6 * (i - 1)) = ToFour(y[1], At(y, 2, 0), At(y, 3, 0))[i]
  BY <1>2, SixBitsOfGroup
<1> HIDE DEF y
<1>7. 6 * (k - 1) = 24 * (g - 1) + 6 * (i - 1)
  BY <1>1, <1>2
<1>8. i <= Len(y) + 1 <=> 6 * (k - 1) < 8 * L
  <2> HIDE DEF G, L
  <2>1. CASE g < G
    <3>1. 24 * (g - 1) + 18 < 8 * L
      BY <1>1, <1>2, <1>3, <2>1
    <3>2. i <= 4 /\ Len(y) = 3 /\ i \in Nat /\ g \in Nat
      BY <1>1, <1>2, <1>5, <2>1
    <3>3. i <= Len(y) + 1
      BY <3>2
    <3>4. 6 * (k - 1) < 8 * L
      BY <1>1, <1>7, <3>1, <3>2
    <3> QED BY <3>3, <3>4
  <2>2. CASE g = G
    <3>1. PICK n : n = Len(y)
      OBVIOUS
    <3>2. n \in 1 .. 3 /\ n = L - 3 * (g - 1)
      BY <1>5, <2>2, <3>1
    <3>3. 8 * L = 24 * (g - 1) + 8 * n
      BY <1>1, <1>2, <3>2
    <3>4. 6 * (k - 1) < 8 * L <=> 6 * (i - 1) < 8 * n
      BY <1>1, <1>2, <1>7, <3>2, <3>3
    <3>5. 6 * (i - 1) < 8 * n <=> i <= n + 1
      BY <1>2, <3>2
    <3> QED BY <3>1, <3>4, <3>5
  <2> QED BY <1>1, <1>2, <2>1, <2>2
<1>9. EncodeGroup(y)[i] = IF i <= Len(y) + 1 THEN Alphabet[ToFour(y[1], At(y, 2, 0), At(y, 3, 0))[i]] ELSE Pad
  BY <1>2 DEF EncodeGroup
<1> QED BY <1>4, <1>6, <1>7, <1>8, <1>9

(***************************************************************************)
(* The characters of a JSON string                                         *)
(***************************************************************************)

\* No two characters are escaped alike, and none as "/", "u" or "x".
LEMMA Escapes ==
    /\ DOMAIN EscapeOf = {34, 92, 8, 12, 10, 13, 9}
    /\ \A c \in DOMAIN EscapeOf : EscapeOf[c] \in Bytes /\ EscapeOf[c] \notin {47, 117, 120}
    /\ \A c, d \in DOMAIN EscapeOf : EscapeOf[c] = EscapeOf[d] => c = d
<1>1. DOMAIN EscapeOf = {34, 92, 8, 12, 10, 13, 9}
  BY DEF EscapeOf, Quote, Backslash
<1>2. /\ EscapeOf[34] = 34 /\ EscapeOf[92] = 92 /\ EscapeOf[8] = 98 /\ EscapeOf[12] = 102
      /\ EscapeOf[10] = 110 /\ EscapeOf[13] = 114 /\ EscapeOf[9] = 116
  BY DEF EscapeOf, Quote, Backslash
<1> QED BY <1>1, <1>2 DEF Bytes

\* The digits of a byte are read again, and are no quotes or backslashes.
LEMMA HexDigits ==
    ASSUME NEW c \in Bytes
    PROVE  /\ HexChar(c \div 16) \in Bytes \ {34, 92} /\ HexChar(c % 16) \in Bytes \ {34, 92}
           /\ HexNum(HexChar(c \div 16)) = c \div 16 /\ HexNum(HexChar(c % 16)) = c % 16
           /\ c \div 16 \in 0 .. 15 /\ c % 16 = c - 16 * (c \div 16)
<1>1. ASSUME NEW n \in 0 .. 15 PROVE HexChar(n) \in Bytes \ {34, 92} /\ HexNum(HexChar(n)) = n
  BY DEF HexChar, HexNum, Bytes
<1>2. c \in 0 .. 255
  BY DEF Bytes
<1>3. c \div 16 \in 0 .. 15
  BY <1>2
<1>4. c % 16 \in 0 .. 15 /\ c % 16 = c - 16 * (c \div 16)
  BY <1>2
<1> QED BY <1>1, <1>3, <1>4

\* The three ways to write a character.
Paired(q, c) == c \in DOMAIN EscapeOf /\ Len(q) = 2 /\ q[1] = 92 /\ q[2] = EscapeOf[c]
Plain(q, c) == c \notin {34, 92} /\ Len(q) = 1 /\ q[1] = c
Coded(q, c) ==
    /\ Len(q) = 6 /\ q[1] = 92 /\ q[2] = 117 /\ q[3] = 48 /\ q[4] = 48
    /\ q[5] = HexChar(c \div 16) /\ q[6] = HexChar(c % 16)

Writes(q, c) == Paired(q, c) \/ Plain(q, c) \/ Coded(q, c)

\* Each byte is written in one of them.
LEMMA WaysToWrite ==
    ASSUME NEW c \in Bytes
    PROVE  AddEscChar(c) \in Seq(Bytes) /\ Writes(AddEscChar(c), c)
<1>1. CASE c \in DOMAIN EscapeOf
  <2>1. AddEscChar(c) = <<92, EscapeOf[c]>>
    BY <1>1 DEF AddEscChar, Backslash
  <2>2. EscapeOf[c] \in Bytes /\ 92 \in Bytes
    BY <1>1, Escapes DEF Bytes
  <2> QED BY <1>1, <2>1, <2>2 DEF Writes, Paired
<1>2. CASE c \notin DOMAIN EscapeOf /\ Prints(c)
  <2>1. AddEscChar(c) = <<c>>
    BY <1>2 DEF AddEscChar
  <2>2. c \notin {34, 92}
    BY <1>2, Escapes
  <2> QED BY <2>1, <2>2 DEF Writes, Plain
<1>3. CASE c \notin DOMAIN EscapeOf /\ ~ Prints(c)
  <2>1. PICK h, g : h = HexChar(c \div 16) /\ g = HexChar(c % 16)
    OBVIOUS
  <2>2. AddEscChar(c) = <<92, 117, 48, 48, h, g>>
    BY <1>3, <2>1 DEF AddEscChar, NonPrintable, Backslash
  <2>3. h \in Bytes /\ g \in Bytes /\ 92 \in Bytes /\ 117 \in Bytes /\ 48 \in Bytes
    <3>1. h \in Bytes /\ g \in Bytes
      BY <2>1, HexDigits
    <3> QED BY <3>1 DEF Bytes
  <2>4. <<92, 117, 48, 48, h, g>> \in Seq(Bytes)
    BY <2>3
  <2> QED BY <2>1, <2>2, <2>4 DEF Writes, Coded
<1> QED BY <1>1, <1>2, <1>3

\* The sequence of a set of one.
LEMMA OfOne ==
    ASSUME NEW c
    PROVE  SetToSeq({c}) = <<c>>
<1>1. Cardinality({c}) = 1
  BY FS_Singleton
<1>2. <<c>> \in [1 .. 1 -> {c}] /\ IsInjective(<<c>>)
  BY DEF IsInjective
<1>3. \A g \in [1 .. 1 -> {c}] : g = <<c>>
  OBVIOUS
<1> QED BY <1>1, <1>2, <1>3 DEF SetToSeq

\* What a backslash in a text stands for, and how far it reaches.
LEMMA UnescapedPair ==
    ASSUME NEW x, NEW i, NEW c \in DOMAIN EscapeOf, x[i + 1] = EscapeOf[c]
    PROVE  Unescaped(x, i) = <<<<c>>, 2>>
<1> DEFINE Simple == {d \in DOMAIN EscapeOf : EscapeOf[d] = x[i + 1]}
<1>1. Simple = {c}
  BY Escapes
<1>2. Simple # {} /\ SetToSeq(Simple) = <<c>>
  <2>1. SetToSeq({c}) = <<c>>
    BY OfOne
  <2> QED BY <1>1, <2>1
<1>3. x[i + 1] \notin {47, 117, 120}
  BY Escapes
<1>4. Unescaped(x, i) = <<SetToSeq(Simple), 2>>
  BY <1>2, <1>3 DEF Unescaped
<1> QED BY <1>2, <1>4

\* The same for a character that is written as its code.
LEMMA UnescapedCode ==
    ASSUME NEW x \in Seq(Bytes), NEW i \in Nat, i + 5 <= Len(x), NEW c \in Bytes,
           x[i + 1] = 117, x[i + 2] = 48, x[i + 3] = 48,
           x[i + 4] = HexChar(c \div 16), x[i + 5] = HexChar(c % 16)
    PROVE  Unescaped(x, i) = <<<<c>>, 6>>
<1> DEFINE Simple == {d \in DOMAIN EscapeOf : EscapeOf[d] = x[i + 1]}
<1>1. Simple = {}
  <2>1. \A d \in DOMAIN EscapeOf : EscapeOf[d] # 117
    BY Escapes
  <2> QED BY <2>1
<1>2. 117 # 47 /\ 117 # 120 /\ Len(x) - i >= 5
  OBVIOUS
<1>3. HexNum(48) = 0 /\ HexNum(x[i + 2]) = 0 /\ HexNum(x[i + 3]) = 0
  BY DEF HexNum
<1>4. HexNum(x[i + 4]) = c \div 16 /\ HexNum(x[i + 5]) = c % 16
  BY HexDigits
<1>5. PICK u, v, w, z : /\ u = HexNum(x[i + 2]) /\ v = HexNum(x[i + 3])
                        /\ w = HexNum(x[i + 4]) /\ z = HexNum(x[i + 5])
  OBVIOUS
<1>6. Unescaped(x, i) = <<<<(256 * (16 * u + v) + 16 * w + z) % 256>>, 6>>
  BY <1>1, <1>2, <1>5 DEF Unescaped
<1>7. (256 * (16 * u + v) + 16 * w + z) % 256 = c
  <2>1. c \in 0 .. 255
    BY DEF Bytes
  <2>2. u = 0 /\ v = 0 /\ w \in 0 .. 15 /\ z = c - 16 * w
    BY <1>3, <1>4, <1>5, HexDigits
  <2>3. 256 * (16 * u + v) + 16 * w + z = c
    BY <2>1, <2>2
  <2>4. c % 256 = c
    BY <2>1
  <2> QED BY <2>3, <2>4
<1> QED BY <1>6, <1>7

\* What EndOfString and SubstituteEscChars find from one place of a text on.
EndFrom(E, t, i) == E[i] = IF t[i] = 34 THEN i ELSE IF t[i] = 92 THEN E[i + 2] ELSE E[i + 1]

SubstitutedFrom(F, x, i) ==
    F[i] = IF x[i] # 92 \/ i = Len(x) THEN <<x[i]>> \o F[i + 1]
           ELSE Unescaped(x, i)[1] \o F[i + Unescaped(x, i)[2]]

\* Where the string of a text ends, place by place.
LEMMA EndFromEach ==
    ASSUME NEW t \in Seq(Bytes), t # <<>>, t[1] = 34
    PROVE  \E E : EndOfString(t) = E[2] /\ \A i \in 2 .. Len(t) : EndFrom(E, t, i)
<1> DEFINE n == Len(t) + 2
           Stops == {1} \cup {i \in 2 .. n : i > Len(t) \/ t[i] = 34}
           at == [i \in 1 .. n |-> IF i > Len(t) THEN 0 ELSE i]
           next == [i \in 1 .. n |-> IF t[i] = 92 THEN i + 2 ELSE i + 1]
           V(e, i) == CASE i > Len(t) -> 0
                        [] i <= Len(t) /\ t[i] = 34 -> i
                        [] i <= Len(t) /\ t[i] = 92 -> e[i + 2]
                        [] OTHER -> e[i + 1]
           Eq(e) == e = [i \in 2 .. n |-> V(e, i)]
<1>1. n \in Nat /\ \A i \in 1 .. n : i \notin Stops => next[i] \in i + 1 .. n
  OBVIOUS
<1>2. PICK e : ReadBack(e, n, Stops, 1 .. n, at, at, next)
  <2>1. n \in Nat /\ \A i \in 1 .. n : i \notin Stops => next[i] \in i + 1 .. n
    BY <1>1
  <2> HIDE DEF n, Stops, at, next
  <2> QED BY <2>1, Backwards, Zenon
<1>3. \A i \in 2 .. n : e[i] = IF i \in Stops THEN at[i] ELSE e[next[i]]
  <2> HIDE DEF Stops, at, next
  <2>1. \A i \in 1 .. n : e[i] = IF i \in Stops THEN at[i]
                      ELSE IF i \in 1 .. n THEN e[next[i]] ELSE at[i] \o e[next[i]]
    BY <1>2, Zenon DEF ReadBack
  <2>2. 2 .. n \subseteq 1 .. n
    OBVIOUS
  <2> QED BY <2>1, <2>2
<1>4. \A i \in 2 .. n : e[i] = V(e, i)
  <2> SUFFICES ASSUME NEW i \in 2 .. n PROVE e[i] = V(e, i)
    OBVIOUS
  <2>1. i \in Stops <=> i > Len(t) \/ t[i] = 34
    OBVIOUS
  <2>2. at[i] = (IF i > Len(t) THEN 0 ELSE i) /\ next[i] = (IF t[i] = 92 THEN i + 2 ELSE i + 1)
    OBVIOUS
  <2>3. e[i] = IF i \in Stops THEN at[i] ELSE e[next[i]]
    BY <1>3
  <2>4. i > Len(t) <=> ~ (i <= Len(t))
    OBVIOUS
  <2> HIDE DEF Stops, at, next, n
  <2> QED BY <2>1, <2>2, <2>3, <2>4
<1> DEFINE E == [i \in 2 .. n |-> e[i]]
<1>5. \A i \in 2 .. n : E[i] = e[i]
  OBVIOUS
<1>6. ASSUME NEW i \in 2 .. n PROVE V(E, i) = V(e, i)
  <2>1. i <= Len(t) => i + 1 \in 2 .. n /\ i + 2 \in 2 .. n
    OBVIOUS
  <2> HIDE DEF E, n
  <2> QED BY <1>5, <2>1
<1>7. Eq(E)
  <2> HIDE DEF V
  <2> QED BY <1>4, <1>6
<1> DEFINE end == CHOOSE g : Eq(g)
<1>8. Eq(end)
  <2> HIDE DEF Eq, E
  <2> QED BY <1>7
<1>9. EndOfString(t) = end[2]
  BY DEF EndOfString, Quote, Backslash
<1> HIDE DEF end
<1>10. ASSUME NEW i \in 2 .. Len(t)
       PROVE  end[i] = IF t[i] = 34 THEN i ELSE IF t[i] = 92 THEN end[i + 2] ELSE end[i + 1]
  <2>1. i \in 2 .. n /\ ~ (i > Len(t)) /\ i <= Len(t)
    OBVIOUS
  <2>2. end[i] = V(end, i)
    <3> HIDE DEF V, n
    <3> QED BY <1>8, <2>1
  <2> QED BY <2>1, <2>2
<1> QED BY <1>9, <1>10 DEF EndFrom

\* The text with the escapes substituted, place by place.
LEMMA SubstitutedFromEach ==
    ASSUME NEW x \in Seq(Bytes)
    PROVE  \E F : /\ SubstituteEscChars(x) = F[1] /\ F[Len(x) + 1] = <<>>
                  /\ \A i \in 1 .. Len(x) : SubstitutedFrom(F, x, i)
<1> DEFINE n == Len(x) + 1
           Kept(i) == x[i] # 92 \/ i = Len(x)
           here == [i \in 1 .. n |-> IF Kept(i) THEN <<x[i]>> ELSE Unescaped(x, i)[1]]
           next == [i \in 1 .. n |-> IF Kept(i) THEN i + 1 ELSE i + Unescaped(x, i)[2]]
           V(e, i) == CASE i = n -> <<>>
                        [] i <= Len(x) /\ (x[i] # 92 \/ i = Len(x)) -> <<x[i]>> \o e[i + 1]
                        [] OTHER -> Unescaped(x, i)[1] \o e[i + Unescaped(x, i)[2]]
           Eq(e) == e = [i \in 1 .. n |-> V(e, i)]
<1>1. n \in Nat /\ Len(x) \in Nat
  OBVIOUS
<1>2. ASSUME NEW i \in 1 .. n, i \notin {n}
      PROVE  next[i] \in i + 1 .. n
  <2>1. i \in 1 .. Len(x)
    <3> HIDE DEF here, next, V
    <3> QED BY <1>1, <1>2
  <2>2. CASE Kept(i)
    BY <1>1, <2>1, <2>2
  <2>3. CASE ~ Kept(i)
    <3>1. \/ Unescaped(x, i)[2] = 2
          \/ Unescaped(x, i)[2] = 4 /\ Len(x) - i >= 3
          \/ Unescaped(x, i)[2] = 6 /\ Len(x) - i >= 5
      BY DEF Unescaped
    <3>2. next[i] = i + Unescaped(x, i)[2] /\ i < Len(x)
      BY <2>1, <2>3
    <3> HIDE DEF next
    <3> QED BY <1>1, <2>1, <3>1, <3>2
  <2> QED BY <2>2, <2>3
<1> DEFINE at == [i \in 1 .. n |-> <<>>]
<1>3. PICK e : ReadBack(e, n, {n}, {}, at, here, next)
  <2>1. \A i \in 1 .. n : i \notin {n} => next[i] \in i + 1 .. n
    BY <1>2
  <2>2. n \in Nat
    BY <1>1
  <2> HIDE DEF here, next, n, at
  <2> QED BY <2>1, <2>2, Backwards, Zenon
<1>4. \A i \in 1 .. n : e[i] = IF i \in {n} THEN <<>> ELSE here[i] \o e[next[i]]
  <2> HIDE DEF here, next, n
  <2>1. \A i \in 1 .. n : at[i] = <<>>
    OBVIOUS
  <2> HIDE DEF at
  <2>2. \A i \in 1 .. n : e[i] = IF i \in {n} THEN at[i] ELSE IF i \in {} THEN e[next[i]] ELSE here[i] \o e[next[i]]
    BY <1>3, Zenon DEF ReadBack
  <2> QED BY <2>1, <2>2
<1>5. \A i \in 1 .. n : e[i] = V(e, i)
  <2> SUFFICES ASSUME NEW i \in 1 .. n PROVE e[i] = V(e, i)
    OBVIOUS
  <2>1. here[i] = (IF Kept(i) THEN <<x[i]>> ELSE Unescaped(x, i)[1])
        /\ next[i] = (IF Kept(i) THEN i + 1 ELSE i + Unescaped(x, i)[2])
    OBVIOUS
  <2>2. e[i] = IF i \in {n} THEN <<>> ELSE here[i] \o e[next[i]]
    BY <1>4
  <2> HIDE DEF here, next
  <2>3. i # n => i <= Len(x) /\ i \in Nat
    BY <1>1
  <2>4. n # Len(x)
    BY <1>1
  <2>5. i = n => ~ (i <= Len(x))
    BY <1>1
  <2> HIDE DEF n
  <2>6. CASE i = n
    BY <2>2, <2>5, <2>6
  <2>7. CASE i # n /\ Kept(i)
    BY <2>1, <2>2, <2>3, <2>7
  <2>8. CASE i # n /\ ~ Kept(i)
    BY <2>1, <2>2, <2>3, <2>8
  <2> QED BY <2>6, <2>7, <2>8
<1>6. Eq(e)
  <2>1. DOMAIN e = 1 .. n /\ e = [i \in DOMAIN e |-> e[i]]
    <3> HIDE DEF n, here, next, at
    <3> QED BY <1>3 DEF ReadBack
  <2> HIDE DEF V
  <2> QED BY <1>5, <2>1
<1> DEFINE from == CHOOSE g : Eq(g)
<1>7. Eq(from)
  <2> HIDE DEF Eq
  <2> QED BY <1>6
<1>8. SubstituteEscChars(x) = from[1]
  BY DEF SubstituteEscChars, Backslash
<1> HIDE DEF from
<1>9. \A i \in 1 .. n : from[i] = V(from, i)
  <2> HIDE DEF V
  <2> QED BY <1>7
<1>10. from[n] = <<>>
  <2>1. n \in 1 .. n /\ ~ (n <= Len(x))
    BY <1>1
  <2>2. from[n] = V(from, n)
    BY <1>9, <2>1
  <2> HIDE DEF n
  <2> QED BY <2>1, <2>2
<1>11. ASSUME NEW i \in 1 .. Len(x)
       PROVE  from[i] = IF x[i] # 92 \/ i = Len(x) THEN <<x[i]>> \o from[i + 1]
                        ELSE Unescaped(x, i)[1] \o from[i + Unescaped(x, i)[2]]
  <2>1. i \in 1 .. n /\ i # n /\ i <= Len(x)
    BY <1>1
  <2>2. from[i] = V(from, i)
    BY <1>9, <2>1
  <2> HIDE DEF n
  <2> QED BY <2>1, <2>2
<1> QED BY <1>8, <1>10, <1>11 DEF SubstitutedFrom

\* A text has q at place i.
Holds(t, i, q) == \A k \in 1 .. Len(q) : t[i + k - 1] = q[k]

\* Two sequences, one after the other.
LEMMA OneAfterOther ==
    ASSUME NEW a \in Seq(Bytes), NEW b \in Seq(Bytes), NEW c, c = a \o b
    PROVE  /\ c \in Seq(Bytes) /\ Len(c) = Len(a) + Len(b)
           /\ \A m \in 1 .. Len(a) : c[m] = a[m]
           /\ \A m \in 1 .. Len(b) : c[Len(a) + m] = b[m]
OBVIOUS

\* Where each character of a string is written.
LEMMA CharacterPlaces ==
    ASSUME NEW s \in Seq(Bytes)
    PROVE  \E l \in [0 .. Len(s) -> Nat] :
              /\ AddEscChars(s) \in Seq(Bytes) /\ l[0] = 0 /\ l[Len(s)] = Len(AddEscChars(s))
              /\ \A j \in 1 .. Len(s) :
                    /\ l[j] = l[j - 1] + Len(AddEscChar(s[j])) /\ l[j] <= Len(AddEscChars(s))
                    /\ \A k \in 1 .. Len(AddEscChar(s[j])) :
                          AddEscChars(s)[l[j - 1] + k] = AddEscChar(s[j])[k]
<1> DEFINE p == [i \in DOMAIN s |-> AddEscChar(s[i])]
<1>1. \A i \in DOMAIN s : AddEscChar(s[i]) \in Seq(Bytes)
  BY WaysToWrite
<1>2. p \in Seq(Seq(Bytes)) /\ Len(p) = Len(s)
  BY <1>1
<1>3. \A j \in 1 .. Len(s) : p[j] = AddEscChar(s[j])
  OBVIOUS
<1>4. AddEscChars(s) = FlattenSeq(p)
  BY DEF AddEscChars
<1> HIDE DEF p
<1>5. AddEscChars(s) \in Seq(Bytes) /\ \E l \in [0 .. Len(p) -> Nat] : Placed(l, p, AddEscChars(s))
  BY <1>2, <1>4, Places
<1>6. PICK l \in [0 .. Len(p) -> Nat] : Placed(l, p, AddEscChars(s))
  BY <1>5
<1>7. PICK x : x = AddEscChars(s)
  OBVIOUS
<1>8. ASSUME NEW j \in 1 .. Len(s)
      PROVE  /\ l[j] = l[j - 1] + Len(AddEscChar(s[j])) /\ l[j] <= Len(x)
             /\ \A k \in 1 .. Len(AddEscChar(s[j])) : x[l[j - 1] + k] = AddEscChar(s[j])[k]
  <2>1. PICK q : q = AddEscChar(s[j])
    OBVIOUS
  <2>2. p[j] = q /\ j \in 1 .. Len(p)
    BY <1>2, <1>3, <2>1
  <2>3. /\ l[j] = l[j - 1] + Len(p[j]) /\ l[j] <= Len(x)
        /\ \A k \in 1 .. Len(p[j]) : x[l[j - 1] + k] = p[j][k]
    BY <1>6, <1>7, <2>2 DEF Placed
  <2> QED BY <2>1, <2>2, <2>3
<1>9. l \in [0 .. Len(s) -> Nat] /\ x \in Seq(Bytes) /\ l[0] = 0 /\ l[Len(s)] = Len(x)
  BY <1>2, <1>5, <1>6, <1>7 DEF Placed
<1> QED BY <1>7, <1>8, <1>9

\* The text of a string, and what follows it.
LEMMA StringText ==
    ASSUME NEW s \in Seq(Bytes), NEW f \in Seq(Bytes), NEW x \in Seq(Bytes), x = AddEscChars(s)
    PROVE  /\ WriteString(s) \o f \in Seq(Bytes)
           /\ Len(WriteString(s) \o f) = Len(x) + 2 + Len(f)
           /\ (WriteString(s) \o f)[1] = 34
           /\ \A m \in 1 .. Len(x) : (WriteString(s) \o f)[m + 1] = x[m]
           /\ (WriteString(s) \o f)[Len(x) + 2] = 34
           /\ SubSeq(WriteString(s) \o f, 2, Len(x) + 1) = x
<1>1. PICK q, u, v, t : q = <<34>> /\ u = q \o x /\ v = u \o q /\ t = v \o f
  OBVIOUS
<1>2. WriteString(s) \o f = t
  BY <1>1 DEF WriteString, Quote
<1>3. q \in Seq(Bytes) /\ Len(q) = 1 /\ q[1] = 34 /\ Len(x) \in Nat /\ Len(f) \in Nat
  BY <1>1 DEF Bytes
<1>4. u \in Seq(Bytes) /\ Len(u) = Len(x) + 1 /\ u[1] = 34 /\ \A m \in 1 .. Len(x) : u[m + 1] = x[m]
  <2>1. /\ u \in Seq(Bytes) /\ Len(u) = Len(q) + Len(x)
        /\ \A m \in 1 .. Len(q) : u[m] = q[m]
        /\ \A m \in 1 .. Len(x) : u[Len(q) + m] = x[m]
    BY <1>1, <1>3, OneAfterOther
  <2> QED BY <1>3, <2>1
<1>5. /\ v \in Seq(Bytes) /\ Len(v) = Len(x) + 2 /\ v[1] = 34 /\ v[Len(x) + 2] = 34
      /\ \A m \in 1 .. Len(x) : v[m + 1] = x[m]
  <2>1. /\ v \in Seq(Bytes) /\ Len(v) = Len(u) + Len(q)
        /\ \A m \in 1 .. Len(u) : v[m] = u[m]
        /\ \A m \in 1 .. Len(q) : v[Len(u) + m] = q[m]
    BY <1>1, <1>3, <1>4, OneAfterOther
  <2> QED BY <1>3, <1>4, <2>1
<1>6. /\ t \in Seq(Bytes) /\ Len(t) = Len(x) + 2 + Len(f) /\ t[1] = 34 /\ t[Len(x) + 2] = 34
      /\ \A m \in 1 .. Len(x) : t[m + 1] = x[m]
  <2>1. /\ t \in Seq(Bytes) /\ Len(t) = Len(v) + Len(f)
        /\ \A m \in 1 .. Len(v) : t[m] = v[m]
    BY <1>1, <1>5, OneAfterOther
  <2>2. 1 \in 1 .. Len(v) /\ Len(x) + 2 \in 1 .. Len(v) /\ \A m \in 1 .. Len(x) : m + 1 \in 1 .. Len(v)
    BY <1>3, <1>5
  <2>3. t[1] = 34 /\ t[Len(x) + 2] = 34 /\ \A m \in 1 .. Len(x) : t[m + 1] = x[m]
    BY <1>5, <2>1, <2>2
  <2> QED BY <1>5, <2>1, <2>3
<1> DEFINE w == SubSeq(t, 2, Len(x) + 1)
<1>7. w \in Seq(Bytes) /\ Len(w) = Len(x) /\ \A m \in 1 .. Len(x) : w[m] = t[m + 1]
  BY <1>3, <1>6
<1> HIDE DEF w
<1>8. w = x
  BY <1>6, <1>7, SeqEqual
<1> QED BY <1>2, <1>6, <1>8 DEF w

\* The end of the string is looked for past each of its characters.
LEMMA PastCharacter ==
    ASSUME NEW c \in Bytes, NEW i \in Nat, NEW E, NEW t, NEW q, Writes(q, c),
           Holds(t, i, q), \A k \in i .. i + Len(q) - 1 : EndFrom(E, t, k)
    PROVE  E[i] = E[i + Len(q)]
<1> USE DEF Holds, EndFrom
<1>1. CASE Paired(q, c)
  <2>1. Len(q) = 2 /\ t[i] = 92
    BY <1>1 DEF Paired
  <2> QED BY <2>1
<1>2. CASE Plain(q, c)
  <2>1. Len(q) = 1 /\ t[i] \notin {34, 92}
    BY <1>2 DEF Plain
  <2> QED BY <2>1
<1>3. CASE Coded(q, c)
  <2>1. /\ Len(q) = 6 /\ t[i] = 92 /\ t[i + 2] = 48 /\ t[i + 3] = 48
        /\ t[i + 4] = HexChar(c \div 16) /\ t[i + 5] = HexChar(c % 16)
    BY <1>3 DEF Coded
  <2>2. t[i + 4] \notin {34, 92} /\ t[i + 5] \notin {34, 92}
    BY <2>1, HexDigits
  <2>3. E[i] = E[i + 2] /\ E[i + 2] = E[i + 3] /\ E[i + 3] = E[i + 4]
    BY <2>1, <2>2
  <2>4. E[i + 4] = E[i + 5] /\ E[i + 5] = E[i + 6]
    BY <2>1, <2>2
  <2> QED BY <2>1, <2>3, <2>4
<1> QED BY <1>1, <1>2, <1>3 DEF Writes

\* A character is read from where it is written, and what comes after it is read on.
LEMMA CharacterBack ==
    ASSUME NEW c \in Bytes, NEW i \in Nat \ {0}, NEW F, NEW x \in Seq(Bytes), NEW q, Writes(q, c),
           i + Len(q) - 1 <= Len(x), Holds(x, i, q), SubstitutedFrom(F, x, i)
    PROVE  F[i] = <<c>> \o F[i + Len(q)]
<1> USE DEF Holds, SubstitutedFrom
<1>1. CASE Paired(q, c)
  <2>1. Len(q) = 2 /\ x[i] = 92 /\ x[i + 1] = EscapeOf[c] /\ i # Len(x) /\ c \in DOMAIN EscapeOf
    BY <1>1 DEF Paired
  <2>2. Unescaped(x, i) = <<<<c>>, 2>>
    BY <2>1, UnescapedPair
  <2> QED BY <2>1, <2>2
<1>2. CASE Plain(q, c)
  <2>1. Len(q) = 1 /\ x[i] # 92 /\ x[i] = c
    BY <1>2 DEF Plain
  <2> QED BY <2>1
<1>3. CASE Coded(q, c)
  <2>1. /\ Len(q) = 6 /\ x[i] = 92 /\ x[i + 1] = 117 /\ x[i + 2] = 48 /\ x[i + 3] = 48
        /\ x[i + 4] = HexChar(c \div 16) /\ x[i + 5] = HexChar(c % 16)
    BY <1>3 DEF Coded
  <2>2. i + 5 <= Len(x) /\ i # Len(x) /\ i \in Nat
    BY <2>1
  <2>3. F[i] = Unescaped(x, i)[1] \o F[i + Unescaped(x, i)[2]]
    BY <2>1, <2>2
  <2>4. Unescaped(x, i) = <<<<c>>, 6>>
    BY <2>1, <2>2, UnescapedCode
  <2>5. Unescaped(x, i)[1] = <<c>> /\ Unescaped(x, i)[2] = 6
    BY <2>4
  <2> QED BY <2>1, <2>3, <2>5
<1> QED BY <1>1, <1>2, <1>3 DEF Writes

\* get_str gives back the characters of any string as they were, whatever follows its
\* text, although quotes, backslashes and codes are written with quotes and backslashes.
THEOREM StringRoundTrip ==
    ASSUME NEW s \in Seq(Bytes), NEW f \in Seq(Bytes)
    PROVE  ReadString(WriteString(s) \o f) = s
<1> DEFINE N == Len(s)
<1>0. N \in Nat /\ \A j \in 1 .. N : s[j] \in Bytes
  OBVIOUS
<1>1. PICK x, t : x = AddEscChars(s) /\ t = WriteString(s) \o f
  OBVIOUS
<1>2. PICK l \in [0 .. N -> Nat] :
        /\ x \in Seq(Bytes) /\ l[0] = 0 /\ l[N] = Len(x)
        /\ \A j \in 1 .. N :
              /\ l[j] = l[j - 1] + Len(AddEscChar(s[j])) /\ l[j] <= Len(x)
              /\ \A k \in 1 .. Len(AddEscChar(s[j])) :
                    x[l[j - 1] + k] = AddEscChar(s[j])[k]
  BY <1>1, CharacterPlaces
<1>3. /\ t \in Seq(Bytes) /\ Len(t) = Len(x) + 2 + Len(f) /\ t[1] = 34 /\ t[Len(x) + 2] = 34
      /\ \A m \in 1 .. Len(x) : t[m + 1] = x[m]
      /\ SubSeq(t, 2, Len(x) + 1) = x
  <2>1. x \in Seq(Bytes) /\ x = AddEscChars(s)
    BY <1>1, <1>2
  <2>2. t = WriteString(s) \o f
    BY <1>1
  <2> QED BY <2>1, <2>2, StringText, SMTT(30)
<1>4. Len(x) \in Nat /\ Len(f) \in Nat /\ t # <<>>
  <2>1. x \in Seq(Bytes) /\ Len(t) = Len(x) + 2 + Len(f)
    BY <1>2, <1>3
  <2>2. Len(x) \in Nat /\ Len(f) \in Nat
    BY <2>1
  <2>3. Len(<<>>) = 0
    OBVIOUS
  <2> QED BY <2>1, <2>2, <2>3
<1>5. PICK E : EndOfString(t) = E[2] /\ \A i \in 2 .. Len(t) : EndFrom(E, t, i)
  BY <1>3, <1>4, EndFromEach
<1>6. PICK F : /\ SubstituteEscChars(x) = F[1] /\ F[Len(x) + 1] = <<>>
               /\ \A i \in 1 .. Len(x) : SubstitutedFrom(F, x, i)
  BY <1>2, SubstitutedFromEach
<1> HIDE DEF N
<1>7. ASSUME NEW j \in 1 .. N
      PROVE  E[l[j - 1] + 2] = E[l[j] + 2] /\ F[l[j - 1] + 1] = <<s[j]>> \o F[l[j] + 1]
  <2>1. PICK c, q, o : c = s[j] /\ q = AddEscChar(c) /\ o = l[j - 1]
    OBVIOUS
  <2>2. c \in Bytes /\ o \in Nat /\ Len(q) \in Nat \ {0} /\ Writes(q, c)
    <3>1. c \in Bytes /\ j - 1 \in 0 .. N
      BY <1>0, <2>1
    <3>2. Writes(q, c)
      BY <2>1, <3>1, WaysToWrite
    <3>3. Len(q) \in Nat \ {0}
      BY <3>2 DEF Writes, Paired, Plain, Coded
    <3> QED BY <1>2, <2>1, <3>1, <3>2, <3>3
  <2>3. l[j] = o + Len(q) /\ l[j] <= Len(x) /\ \A k \in 1 .. Len(q) : x[o + k] = q[k]
    BY <1>2, <2>1
  <2>4. E[o + 2] = E[(o + 2) + Len(q)]
    <3>1. PICK i : i = o + 2
      OBVIOUS
    <3>2. i \in Nat /\ Holds(t, i, q)
      <4>1. ASSUME NEW k \in 1 .. Len(q) PROVE t[i + k - 1] = q[k]
        <5>1. o + k \in 1 .. Len(x) /\ i + k - 1 = (o + k) + 1
          BY <1>4, <2>2, <2>3, <3>1
        <5> QED BY <1>3, <2>3, <5>1
      <4> QED BY <2>2, <3>1, <4>1 DEF Holds
    <3>3. \A k \in i .. i + Len(q) - 1 : k \in 2 .. Len(t)
      BY <1>3, <1>4, <2>2, <2>3, <3>1
    <3>4. \A k \in i .. i + Len(q) - 1 : EndFrom(E, t, k)
      BY <1>5, <3>3
    <3>5. E[i] = E[i + Len(q)]
      BY <2>2, <3>2, <3>4, PastCharacter
    <3> QED BY <3>1, <3>5
  <2>5. F[o + 1] = <<c>> \o F[(o + 1) + Len(q)]
    <3>1. PICK i : i = o + 1
      OBVIOUS
    <3>2. i \in Nat \ {0} /\ i + Len(q) - 1 <= Len(x) /\ i \in 1 .. Len(x)
      BY <1>4, <2>2, <2>3, <3>1
    <3>3. Holds(x, i, q)
      <4>1. ASSUME NEW k \in 1 .. Len(q) PROVE x[i + k - 1] = q[k]
        <5>1. i + k - 1 = o + k
          BY <2>2, <3>1
        <5> QED BY <2>3, <5>1
      <4> QED BY <4>1 DEF Holds
    <3>4. SubstitutedFrom(F, x, i)
      BY <1>6, <3>2
    <3>5. x \in Seq(Bytes) /\ c \in Bytes /\ Writes(q, c)
      BY <1>2, <2>2
    <3>6. F[i] = <<c>> \o F[i + Len(q)]
      BY <3>2, <3>3, <3>4, <3>5, CharacterBack
    <3> QED BY <3>1, <3>6
  <2>6. (o + 2) + Len(q) = l[j] + 2 /\ (o + 1) + Len(q) = l[j] + 1
    BY <2>2, <2>3
  <2> QED BY <2>1, <2>4, <2>5, <2>6
<1>8. E[2] = Len(x) + 2
  <2> DEFINE Q == {n \in Nat : n <= N => E[l[n] + 2] = E[2]}
  <2>1. 0 \in Q
    BY <1>2
  <2>2. ASSUME NEW n \in Nat, n \in Q PROVE n + 1 \in Q
    <3> SUFFICES ASSUME n + 1 <= N PROVE E[l[n + 1] + 2] = E[2]
      OBVIOUS
    <3>1. PICK j : j = n + 1
      OBVIOUS
    <3>2. E[l[n] + 2] = E[l[n + 1] + 2]
      <4>1. j \in 1 .. N /\ j - 1 = n
        BY <1>0, <3>1
      <4>2. E[l[j - 1] + 2] = E[l[j] + 2]
        BY <1>7, <4>1
      <4> QED BY <3>1, <4>1, <4>2
    <3>3. n <= N
      BY <1>0
    <3> QED BY <2>2, <3>2, <3>3
  <2> HIDE DEF Q
  <2>3. N \in Q
    BY <1>0, <2>1, <2>2, Induction
  <2>4. E[Len(x) + 2] = E[2]
    BY <1>0, <1>2, <2>3 DEF Q
  <2>5. Len(x) + 2 \in 2 .. Len(t)
    BY <1>3, <1>4
  <2> QED BY <1>3, <1>5, <2>4, <2>5 DEF EndFrom
<1>9. F[1] = s
  <2> DEFINE Q == {n \in Nat : n <= N => F[l[N - n] + 1] = SubSeq(s, N - n + 1, N)}
  <2>1. 0 \in Q
    <3>1. N - 0 = N /\ SubSeq(s, N + 1, N) = <<>>
      BY <1>0
    <3> QED BY <1>2, <1>6, <3>1
  <2>2. ASSUME NEW n \in Nat, n \in Q PROVE n + 1 \in Q
    <3> SUFFICES ASSUME n + 1 <= N PROVE F[l[N - (n + 1)] + 1] = SubSeq(s, N - (n + 1) + 1, N)
      OBVIOUS
    <3>1. PICK j : j = N - n
      OBVIOUS
    <3>2. j \in 1 .. N /\ N - (n + 1) = j - 1 /\ N - (n + 1) + 1 = j
      BY <1>0, <3>1
    <3>3. F[l[j] + 1] = SubSeq(s, j + 1, N)
      BY <1>0, <2>2, <3>1
    <3>4. F[l[j - 1] + 1] = <<s[j]>> \o SubSeq(s, j + 1, N)
      BY <1>7, <3>2, <3>3
    <3>5. <<s[j]>> \o SubSeq(s, j + 1, N) = SubSeq(s, j, N)
      BY <1>0, <3>2 DEF N
    <3> QED BY <3>2, <3>4, <3>5
  <2> HIDE DEF Q
  <2>3. N \in Q
    BY <1>0, <2>1, <2>2, Induction
  <2>4. N - N = 0 /\ N <= N /\ SubSeq(s, 0 + 1, N) = s
    BY <1>0 DEF N
  <2>5. l[0] + 1 = 1
    BY <1>2
  <2> QED BY <1>0, <2>3, <2>4, <2>5 DEF Q
<1>10. SubSeq(t, 2, EndOfString(t) - 1) = x
  <2>1. (Len(x) + 2) - 1 = Len(x) + 1
    BY <1>4
  <2> QED BY <1>3, <1>5, <1>8, <2>1
<1> QED BY <1>1, <1>6, <1>9, <1>10 DEF ReadString

(***************************************************************************)
(* The reader of a value, token by token                                   *)
(***************************************************************************)

Ended == {"done", "failed"}
Openings == {"{", "["}

\* No token is of two kinds, so what the reader does with one depends on its kind alone.
LEMMA Kinds ==
    /\ \A c \in Strings : c \notin Punctuators \cup Literals \cup Skipped /\ c # "none"
    /\ \A c \in Punctuators : c \notin Strings \cup Literals \cup Skipped
    /\ \A c \in Literals : c \notin Strings \cup Punctuators \cup Skipped
BY StringsAssumption DEF Punctuators, Literals, Skipped

\* A value that holds no other.
LEMMA TokenLeaf ==
    ASSUME NEW r, NEW c \in Strings \cup Literals, AtValue(r)
    PROVE  Token(r, c) = [AddToCurrent(r, TypeOf(c), c) EXCEPT !.expect = Follows(r.current = 0)]
<1>1. c \notin Skipped /\ r.expect \notin {"done", "failed"} /\ ~ (c = "{") /\ ~ (c = "[")
  BY Kinds DEF AtValue, Punctuators
<1>2. ~ Closes(r, c) /\ r.expect \notin {"member", "pair"} /\ r.expect # "colon" /\ r.expect # "next"
  BY Kinds DEF AtValue, Punctuators, Closes
<1> QED BY <1>1, <1>2, Zenon DEF Token

\* The start of an object or an array.
LEMMA TokenOpens ==
    ASSUME NEW r, AtValue(r)
    PROVE  /\ Token(r, "{") = [BeginCompound(r, "obj", "{") EXCEPT !.expect = "member"]
           /\ Token(r, "[") = [BeginCompound(r, "array", "[") EXCEPT !.expect = "element"]
<1>1. /\ r.expect \notin {"done", "failed"} /\ r.expect \notin {"member", "pair"}
      /\ r.expect # "colon" /\ r.expect # "next"
  BY DEF AtValue
<1>2. \A c \in {"{", "["} : c \notin Skipped /\ c \notin Strings \cup Literals /\ ~ Closes(r, c)
  BY Kinds DEF Punctuators, Closes
<1>3. ~ ("{" = "[")
  OBVIOUS
<1> QED BY <1>1, <1>2, <1>3, Zenon DEF Token

\* The end of one.
LEMMA TokenCloses ==
    ASSUME NEW r, NEW c, Closes(r, c)
    PROVE  Token(r, c) = [EndCompound(r) EXCEPT !.expect = Follows(r.current = 1)]
<1>1. c \in {"]", "}"} /\ r.expect \in {"element", "member", "next"}
  BY DEF Closes
<1>2. /\ c \notin Skipped /\ c \notin Strings \cup Literals /\ ~ (c = "{") /\ ~ (c = "[")
      /\ ~ (c = ":") /\ ~ (c = ",")
  BY <1>1, Kinds DEF Punctuators
<1>3. r.expect \notin {"done", "failed"}
  BY <1>1
<1> QED BY <1>2, <1>3, Zenon DEF Token

\* A name, and what separates it from its value.
LEMMA TokenNames ==
    ASSUME NEW r
    PROVE  /\ \A c \in Strings : r.expect \in {"member", "pair"} =>
                 Token(r, c) = [r EXCEPT !.name = c, !.expect = "colon"]
           /\ r.expect = "colon" => Token(r, ":") = [r EXCEPT !.expect = "value"]
<1>1. ASSUME NEW c \in Strings, r.expect \in {"member", "pair"}
      PROVE  Token(r, c) = [r EXCEPT !.name = c, !.expect = "colon"]
  <2>1. /\ c \notin Skipped /\ ~ (c = "{") /\ ~ (c = "[") /\ ~ (c = ":") /\ ~ (c = ",")
        /\ ~ (c = "]") /\ ~ (c = "}")
    BY Kinds DEF Punctuators
  <2>2. r.expect \notin {"done", "failed"} /\ ~ AtValue(r) /\ r.expect # "colon" /\ r.expect # "next"
    BY <1>1 DEF AtValue
  <2> QED BY <1>1, <2>1, <2>2, Zenon DEF Token, Closes
<1>2. ASSUME r.expect = "colon"
      PROVE  Token(r, ":") = [r EXCEPT !.expect = "value"]
  <2>1. ":" \notin Skipped /\ ":" \notin Strings /\ ~ (":" = "]") /\ ~ (":" = "}") /\ ~ (":" = ",")
    BY Kinds DEF Punctuators
  <2>2. r.expect \notin {"done", "failed"} /\ ~ AtValue(r) /\ r.expect \notin {"member", "pair"} /\ r.expect # "next"
    BY <1>2 DEF AtValue
  <2> QED BY <1>2, <2>1, <2>2, Zenon DEF Token, Closes
<1> QED BY <1>1, <1>2

\* What separates two values of an array or two pairs of an object.
LEMMA TokenSeparates ==
    ASSUME NEW r, r.expect = "next"
    PROVE  Token(r, ",") = [r EXCEPT !.expect = IF InObject(r) THEN "pair" ELSE "value"]
<1>1. "," \notin Skipped /\ "," \notin Strings /\ ~ ("," = "]") /\ ~ ("," = "}") /\ ~ ("," = ":")
  BY Kinds DEF Punctuators
<1>2. r.expect \notin {"done", "failed"} /\ ~ AtValue(r) /\ r.expect \notin {"member", "pair"} /\ r.expect # "colon"
  BY DEF AtValue
<1> QED BY <1>1, <1>2, Zenon DEF Token, Closes

\* Any other token is a mistake.
LEMMA TokenFails ==
    ASSUME NEW r, NEW c, c \notin Skipped, r.expect \notin Ended,
           ~ (AtValue(r) /\ c \in Strings \cup Literals \cup {"{", "["}),
           ~ Closes(r, c),
           ~ (r.expect \in {"member", "pair"} /\ c \in Strings),
           ~ (r.expect = "colon" /\ c = ":"),
           ~ (r.expect = "next" /\ c = ",")
    PROVE  Token(r, c) = [r EXCEPT !.expect = "failed"]
<1>1. ~ (AtValue(r) /\ c \in Strings \cup Literals) /\ ~ (AtValue(r) /\ c = "{") /\ ~ (AtValue(r) /\ c = "[")
  OBVIOUS
<1> QED BY <1>1, Zenon DEF Token, Ended

-----------------------------------------------------------------------------
(* Runs of the reader *)

\* The reader that was r is s when it has taken the tokens of x, and needed all of them.
Takes(r, x, s) ==
    \E P : /\ P[0] = r /\ P[Len(x)] = s
           /\ \A i \in 1 .. Len(x) : P[i - 1].expect \notin Ended /\ P[i] = Token(P[i - 1], x[i])

\* No token.
LEMMA TakesNone ==
    ASSUME NEW r
    PROVE  Takes(r, <<>>, r)
<1> DEFINE P == [i \in {0} |-> r]
<1>1. P[0] = r /\ Len(<<>>) = 0
  OBVIOUS
<1>2. 1 .. 0 = {}
  OBVIOUS
<1> HIDE DEF P
<1> QED BY <1>1, <1>2 DEF Takes

\* One token.
LEMMA TakesOne ==
    ASSUME NEW r, NEW c, r.expect \notin Ended
    PROVE  Takes(r, <<c>>, Token(r, c))
<1> DEFINE P == [i \in {0, 1} |-> IF i = 0 THEN r ELSE Token(r, c)]
<1>1. P[0] = r /\ P[1] = Token(r, c) /\ Len(<<c>>) = 1 /\ <<c>>[1] = c
  OBVIOUS
<1>2. \A i \in 1 .. 1 : i = 1
  OBVIOUS
<1> HIDE DEF P
<1> QED BY <1>1, <1>2 DEF Takes

\* The tokens of two texts.
LEMMA TakesMore ==
    ASSUME NEW S, NEW x \in Seq(S), NEW y \in Seq(S), NEW r, NEW s, NEW t,
           Takes(r, x, s), Takes(s, y, t)
    PROVE  Takes(r, x \o y, t)
<1>1. PICK P : /\ P[0] = r /\ P[Len(x)] = s
               /\ \A i \in 1 .. Len(x) : P[i - 1].expect \notin Ended /\ P[i] = Token(P[i - 1], x[i])
  BY DEF Takes
<1>2. PICK Q : /\ Q[0] = s /\ Q[Len(y)] = t
               /\ \A i \in 1 .. Len(y) : Q[i - 1].expect \notin Ended /\ Q[i] = Token(Q[i - 1], y[i])
  BY DEF Takes
<1> DEFINE n == Len(x)
           m == Len(y)
           z == x \o y
           R == [i \in 0 .. n + m |-> IF i <= n THEN P[i] ELSE Q[i - n]]
<1>3. n \in Nat /\ m \in Nat /\ Len(z) = n + m
  OBVIOUS
<1>4. /\ \A i \in 1 .. n : z[i] = x[i]
      /\ \A i \in 1 .. m : z[n + i] = y[i]
  OBVIOUS
<1> HIDE DEF n, m, z
<1>5. R[0] = r /\ R[n + m] = t
  BY <1>1, <1>2, <1>3 DEF n, m
<1>6. ASSUME NEW i \in 1 .. n + m
      PROVE  R[i - 1].expect \notin Ended /\ R[i] = Token(R[i - 1], z[i])
  <2>1. CASE i <= n
    <3>1. R[i - 1] = P[i - 1] /\ R[i] = P[i] /\ z[i] = x[i] /\ i \in 1 .. n
      BY <1>3, <1>4, <2>1
    <3> QED BY <1>1, <3>1 DEF n
  <2>2. CASE i > n
    <3>1. PICK j \in 1 .. m : i = n + j
      BY <1>3, <2>2
    <3>2. R[i] = Q[j] /\ z[i] = y[j]
      BY <1>3, <1>4, <2>2, <3>1
    <3>3. CASE j = 1
      <4>1. R[i - 1] = P[n] /\ Q[j - 1] = s
        BY <1>2, <1>3, <3>1, <3>3
      <4> QED BY <1>1, <1>2, <3>1, <3>2, <4>1 DEF m, n
    <3>4. CASE j > 1
      <4>1. R[i - 1] = Q[j - 1]
        BY <1>3, <3>1, <3>4
      <4> QED BY <1>2, <3>2, <4>1 DEF m
    <3> QED BY <1>3, <3>1, <3>3, <3>4
  <2> QED BY <1>3, <2>1, <2>2
<1> HIDE DEF R
<1> QED BY <1>3, <1>5, <1>6 DEF Takes, z

-----------------------------------------------------------------------------
(* The members of a sequence that are in a set *)

\* Only, member by member.
Picks(u, s, P) ==
    /\ u[0] = <<>>
    /\ \A i \in 1 .. Len(s) : u[i] = IF s[i] \in P THEN Append(u[i - 1], s[i]) ELSE u[i - 1]
    /\ Only(s, P) = u[Len(s)]

\* There is such a way to pick the members.
LEMMA Picking ==
    ASSUME NEW S, NEW s \in Seq(S), NEW P
    PROVE  \E u : Picks(u, s, P) /\ \A i \in 0 .. Len(s) : u[i] \in Seq(S \cap P)
<1> DEFINE n == Len(s)
           V(u, i) == IF i = 0 THEN <<>> ELSE IF s[i] \in P THEN Append(u[i - 1], s[i]) ELSE u[i - 1]
           Eq(u, m) == u = [i \in 0 .. m |-> V(u, i)]
           T == {m \in Nat : m <= n => \E u : Eq(u, m)}
<1>1. n \in Nat
  OBVIOUS
<1>2. 0 \in T
  <2> DEFINE u == [i \in 0 .. 0 |-> <<>>]
  <2>1. Eq(u, 0)
    OBVIOUS
  <2> QED BY <2>1
<1>3. ASSUME NEW m \in Nat, m \in T
      PROVE  m + 1 \in T
  <2>1. SUFFICES ASSUME m + 1 <= n
                 PROVE  \E u : Eq(u, m + 1)
    OBVIOUS
  <2>2. PICK f : Eq(f, m)
    BY <1>1, <1>3, <2>1
  <2> DEFINE g == [i \in 0 .. m + 1 |-> IF i <= m THEN f[i] ELSE V(f, i)]
  <2>3. ASSUME NEW i \in 0 .. m + 1
        PROVE  g[i] = V(g, i)
    <3>1. CASE i = 0
      BY <2>2, <3>1
    <3>2. CASE i > 0 /\ i <= m
      <4>1. g[i] = f[i] /\ g[i - 1] = f[i - 1] /\ i \in 0 .. m
        BY <3>2
      <4> HIDE DEF g
      <4> QED BY <2>2, <3>2, <4>1
    <3>3. CASE i = m + 1
      <4>1. g[i] = V(f, i) /\ g[i - 1] = f[i - 1]
        BY <3>3
      <4> HIDE DEF g
      <4> QED BY <3>3, <4>1
    <3> QED BY <3>1, <3>2, <3>3
  <2>4. g = [i \in 0 .. m + 1 |-> V(g, i)]
    <3>1. g = [i \in 0 .. m + 1 |-> g[i]]
      OBVIOUS
    <3> HIDE DEF g, V
    <3> QED BY <2>3, <3>1
  <2> QED BY <2>4
<1>4. n \in T
  <2> HIDE DEF T
  <2> QED BY <1>1, <1>2, <1>3, Induction
<1> DEFINE u == CHOOSE u : Eq(u, n)
<1>5. Eq(u, n)
  <2>1. \E w : Eq(w, n)
    BY <1>1, <1>4
  <2> HIDE DEF Eq
  <2> QED BY <2>1
<1>6. Only(s, P) = u[n]
  BY DEF Only
<1> HIDE DEF u
<1>7. /\ u[0] = <<>>
      /\ \A i \in 1 .. n : u[i] = IF s[i] \in P THEN Append(u[i - 1], s[i]) ELSE u[i - 1]
  <2>1. \A i \in 0 .. n : u[i] = V(u, i)
    BY <1>5
  <2>2. \A i \in 1 .. n : i \in 0 .. n /\ i # 0
    OBVIOUS
  <2>3. 0 \in 0 .. n
    BY <1>1
  <2> QED BY <2>1, <2>2, <2>3
<1> DEFINE X == S \cap P
           W == {i \in Nat : i <= n => u[i] \in Seq(X)}
<1>8. 0 \in W
  <2> HIDE DEF X
  <2>1. <<>> \in Seq(X)
    OBVIOUS
  <2> QED BY <1>7, <2>1
<1>9. ASSUME NEW i \in Nat, i \in W
      PROVE  i + 1 \in W
  <2>1. CASE i + 1 <= n
    <3>1. i + 1 \in 1 .. n /\ u[i] \in Seq(X)
      BY <1>1, <1>9, <2>1
    <3>2. s[i + 1] \in S /\ (s[i + 1] \in P => s[i + 1] \in X)
      BY <3>1
    <3>3. u[i + 1] = IF s[i + 1] \in P THEN Append(u[i], s[i + 1]) ELSE u[i]
      <4>1. (i + 1) - 1 = i
        OBVIOUS
      <4> QED BY <1>7, <3>1, <4>1
    <3> HIDE DEF X
    <3>4. u[i + 1] \in Seq(X)
      BY <3>1, <3>2, <3>3
    <3> QED BY <3>4
  <2> QED BY <1>1, <2>1
<1>10. Nat \subseteq W
  <2> HIDE DEF W
  <2> QED BY <1>8, <1>9, Induction
<1> QED BY <1>1, <1>6, <1>7, <1>10 DEF Picks

\* The places of the nodes that k holds, in their order.
Increasing(h) == \A i, j \in DOMAIN h : i < j => h[i] < h[j]

\* The nodes that k holds, each once.
LEMMA HeldInOrder ==
    ASSUME NEW S, NEW v \in Seq(S), NEW k
    PROVE  /\ Held(v, k) \in Seq(1 .. Len(v))
           /\ Increasing(Held(v, k))
           /\ \A i \in DOMAIN Held(v, k) : v[Held(v, k)[i]].holder = k
           /\ \A j \in 1 .. Len(v) : v[j].holder = k => \E i \in DOMAIN Held(v, k) : Held(v, k)[i] = j
<1> DEFINE n == Len(v)
           s == [i \in DOMAIN v |-> i]
           P == {i \in DOMAIN v : v[i].holder = k}
<1>1. n \in Nat /\ DOMAIN v = 1 .. n
  OBVIOUS
<1>2. s \in Seq(1 .. n) /\ Len(s) = n /\ \A i \in 1 .. n : s[i] = i
  BY <1>1
<1>3. Held(v, k) = Only(s, P)
  BY DEF Held
<1> HIDE DEF n, s
<1>4. PICK u : Picks(u, s, P) /\ \A i \in 0 .. Len(s) : u[i] \in Seq((1 .. n) \cap P)
  BY <1>2, Picking
<1>5. /\ u[0] = <<>>
      /\ \A i \in 1 .. n : u[i] = IF i \in P THEN Append(u[i - 1], i) ELSE u[i - 1]
      /\ Held(v, k) = u[n]
      /\ \A i \in 0 .. n : u[i] \in Seq((1 .. n) \cap P)
  BY <1>2, <1>3, <1>4 DEF Picks
<1> DEFINE Good(i) == /\ \A a \in 1 .. Len(u[i]) : u[i][a] \in Nat /\ u[i][a] <= i
                      /\ \A a, b \in 1 .. Len(u[i]) : a < b => u[i][a] < u[i][b]
                      /\ \A j \in 1 .. i : j \in P => \E a \in 1 .. Len(u[i]) : u[i][a] = j
           T == {i \in Nat : i <= n => Good(i)}
<1>6. 0 \in T
  <2>1. Len(<<>>) = 0 /\ 1 .. 0 = {}
    OBVIOUS
  <2> QED BY <1>5, <2>1
<1>7. ASSUME NEW i \in Nat, i \in T
      PROVE  i + 1 \in T
  <2>1. SUFFICES ASSUME i + 1 <= n
                 PROVE  Good(i + 1)
    OBVIOUS
  <2>2. Good(i) /\ i + 1 \in 1 .. n /\ u[i] \in Seq((1 .. n) \cap P)
    <3>1. Good(i)
      BY <1>1, <1>7, <2>1
    <3>2. i + 1 \in 1 .. n /\ i \in 0 .. n
      BY <1>1, <2>1
    <3> QED BY <1>5, <3>1, <3>2
  <2>0. u[i + 1] = IF i + 1 \in P THEN Append(u[i], i + 1) ELSE u[i]
    <3>1. (i + 1) - 1 = i
      OBVIOUS
    <3> QED BY <1>5, <2>2, <3>1
  <2> HIDE DEF P
  <2>3. CASE i + 1 \in P
    <3>1. u[i + 1] = Append(u[i], i + 1)
      BY <2>0, <2>3
    <3> DEFINE q == Len(u[i])
    <3>2. q \in Nat /\ Len(u[i + 1]) = q + 1 /\ u[i + 1][q + 1] = i + 1
          /\ \A a \in 1 .. q : u[i + 1][a] = u[i][a]
      BY <2>2, <3>1
    <3> HIDE DEF q
    <3>3. \A a \in 1 .. q : u[i + 1][a] \in Nat /\ u[i + 1][a] <= i
      BY <2>2, <3>2 DEF q
    <3>4. \A a \in 1 .. q + 1 : a \in 1 .. q \/ a = q + 1
      BY <3>2
    <3>5. \A a \in 1 .. q + 1 : u[i + 1][a] \in Nat /\ u[i + 1][a] <= i + 1
      BY <3>2, <3>3, <3>4
    <3>6. \A a, b \in 1 .. q + 1 : a < b => u[i + 1][a] < u[i + 1][b]
      <4>1. SUFFICES ASSUME NEW a \in 1 .. q + 1, NEW b \in 1 .. q + 1, a < b
                     PROVE  u[i + 1][a] < u[i + 1][b]
        OBVIOUS
      <4>2. a \in 1 .. q
        BY <3>2, <4>1
      <4>3. CASE b = q + 1
        BY <3>2, <3>3, <4>2, <4>3
      <4>4. CASE b \in 1 .. q
        BY <2>2, <3>2, <4>1, <4>2, <4>4 DEF q
      <4> QED BY <3>4, <4>3, <4>4
    <3>7. ASSUME NEW j \in 1 .. i + 1, j \in P
          PROVE  \E a \in 1 .. q + 1 : u[i + 1][a] = j
      <4>1. CASE j = i + 1
        BY <3>2, <4>1
      <4>2. CASE j \in 1 .. i
        <5>1. PICK a \in 1 .. q : u[i][a] = j
          BY <2>2, <3>7, <4>2 DEF q
        <5> QED BY <3>2, <5>1
      <4> QED BY <4>1, <4>2
    <3> QED BY <3>2, <3>5, <3>6, <3>7
  <2>4. CASE i + 1 \notin P
    <3>1. u[i + 1] = u[i]
      BY <2>0, <2>4
    <3>2. \A j \in 1 .. i + 1 : j \in P => j \in 1 .. i
      BY <2>4
    <3> QED BY <2>2, <3>1, <3>2
  <2> QED BY <2>3, <2>4
<1>8. Good(n)
  <2>1. Nat \subseteq T
    <3> HIDE DEF T
    <3> QED BY <1>6, <1>7, Induction
  <2> QED BY <1>1, <2>1
<1> DEFINE h == Held(v, k)
<1>9. h \in Seq((1 .. n) \cap P) /\ h = u[n]
  BY <1>1, <1>5
<1>10. DOMAIN h = 1 .. Len(h) /\ h \in Seq(1 .. n) /\ \A i \in 1 .. Len(h) : h[i] \in P
  <2> HIDE DEF h, P
  <2>1. DOMAIN h = 1 .. Len(h) /\ \A i \in 1 .. Len(h) : h[i] \in (1 .. n) \cap P
    BY <1>9
  <2>2. h \in Seq(1 .. n)
    BY <1>9, Wider
  <2> QED BY <2>1, <2>2
<1> HIDE DEF h
<1>11. Increasing(h)
  BY <1>8, <1>9, <1>10 DEF Increasing
<1>12. \A i \in DOMAIN h : v[h[i]].holder = k
  BY <1>10
<1>13. \A j \in 1 .. n : v[j].holder = k => \E i \in DOMAIN h : h[i] = j
  BY <1>1, <1>8, <1>9, <1>10
<1> QED BY <1>10, <1>11, <1>12, <1>13 DEF h, n

-----------------------------------------------------------------------------
(* What the generator writes for a node *)

Symbols == Strings \cup Literals \cup Punctuators

JsonNodes == NodesOf(Symbols, Nat)
IsTree(v) == v \in Seq(JsonNodes) /\ IsValue(v)

Item(v, k) == IF v[k].name = "none" THEN <<>> ELSE <<v[k].name, ":">>
Items(v, o, k) == [i \in DOMAIN Held(v, k) |-> o[Held(v, k)[i]]]
Body(v, o, k) ==
    IF v[k].type \in {"obj", "array"} THEN Composite(v[k], Items(v, o, k)) ELSE <<v[k].token>>

\* o is the output of the generator for each node of v.
Outputs(o, v) == o = [k \in DOMAIN v |-> Item(v, k) \o Body(v, o, k)]

\* The fields of a node.
LEMMA OfNode ==
    ASSUME NEW e \in JsonNodes
    PROVE  /\ e.holder \in Nat /\ e.token \in Symbols /\ e.name \in Strings \cup {"none"}
           /\ e = [type |-> e.type, holder |-> e.holder, token |-> e.token, name |-> e.name]
           /\ e.type \in Compounds =>
                 e.token = Opening(e) /\ Closing(e) \in {"}", "]"} /\ Opening(e) \in {"{", "["}
           /\ e.type \notin Compounds => e.token \in Strings \cup Literals /\ e.type = TypeOf(e.token)
           /\ \/ e.type = "obj" /\ e.token = "{"
              \/ e.type = "array" /\ e.token = "["
              \/ e.token \in Strings \cup Literals /\ e.type = TypeOf(e.token) /\ e.type \notin Compounds
<1>1. /\ e \in [type : Compounds \cup Literals \cup {"str"}, holder : Nat,
                token : Symbols, name : (Symbols \cap Strings) \cup {"none"}]
      /\ NodeOK(e)
  BY DEF JsonNodes, NodesOf
<1>2. /\ e.holder \in Nat /\ e.token \in Symbols /\ e.name \in Strings \cup {"none"}
      /\ e = [type |-> e.type, holder |-> e.holder, token |-> e.token, name |-> e.name]
  BY <1>1
<1>3. CASE e.token = "{"
  <2>1. e.type = "obj" /\ ~ ("{" = "[")
    BY <1>1, <1>3 DEF NodeOK
  <2> QED BY <1>2, <1>3, <2>1 DEF Compounds, Opening, Closing
<1>4. CASE e.token = "["
  <2>1. e.type = "array" /\ ~ (e.type = "obj")
    BY <1>1, <1>4 DEF NodeOK
  <2> QED BY <1>2, <1>4, <2>1 DEF Compounds, Opening, Closing
<1>5. CASE e.token # "{" /\ e.token # "["
  <2>1. e.token \in Strings \cup Literals /\ e.type = TypeOf(e.token)
    BY <1>1, <1>5, Zenon DEF NodeOK
  <2>2. e.type = "str" \/ e.type \in Literals
    BY <2>1 DEF TypeOf
  <2>3. e.type \notin Compounds
    BY <2>2 DEF Compounds, Literals
  <2> QED BY <1>2, <2>1, <2>3
<1> QED BY <1>3, <1>4, <1>5

\* Where a node is held.
LEMMA OfTree ==
    ASSUME NEW v, IsTree(v)
    PROVE  /\ v \in Seq(JsonNodes) /\ Len(v) \in Nat \ {0} /\ DOMAIN v = 1 .. Len(v)
           /\ \A k \in 1 .. Len(v) : v[k] \in JsonNodes /\ HolderOK(v, k)
           /\ v[1].holder = 0 /\ v[1].name = "none"
           /\ \A k \in 2 .. Len(v) :
                 /\ v[k].holder \in 1 .. k - 1 /\ v[v[k].holder].type \in Compounds
                 /\ \A j \in v[k].holder + 1 .. k - 1 : v[j].holder >= v[k].holder
                 /\ v[v[k].holder].type = "obj" => v[k].name \in Strings
                 /\ v[v[k].holder].type # "obj" => v[k].name = "none"
<1>1. /\ v \in Seq(JsonNodes) /\ DOMAIN v = 1 .. Len(v) /\ v # <<>>
      /\ \A k \in 1 .. Len(v) : v[k] \in JsonNodes /\ HolderOK(v, k)
  BY DEF IsTree, IsValue
<1>2. Len(v) \in Nat \ {0}
  BY <1>1
<1>3. v[1].holder = 0 /\ v[1].name = "none"
  BY <1>1, <1>2 DEF HolderOK
<1>4. ASSUME NEW k \in 2 .. Len(v)
      PROVE  /\ v[k].holder \in 1 .. k - 1 /\ v[v[k].holder].type \in Compounds
             /\ \A j \in v[k].holder + 1 .. k - 1 : v[j].holder >= v[k].holder
             /\ v[v[k].holder].type = "obj" => v[k].name \in Strings
             /\ v[v[k].holder].type # "obj" => v[k].name = "none"
  <2>1. k \in 1 .. Len(v) /\ k # 1
    BY <1>2
  <2>2. HolderOK(v, k)
    BY <1>1, <2>1
  <2> QED BY <2>1, <2>2 DEF HolderOK
<1> QED BY <1>1, <1>2, <1>3, <1>4

\* There is one output, as a node is held by an earlier one.
LEMMA Writing ==
    ASSUME NEW v, IsTree(v)
    PROVE  \E o : Outputs(o, v) /\ WriteText(v) = o[1]
<1> DEFINE n == Len(v)
           V(o, k) == Item(v, k) \o Body(v, o, k)
           From(o, m) == DOMAIN o = m + 1 .. n /\ o = [k \in DOMAIN o |-> o[k]] /\ \A k \in m + 1 .. n : o[k] = V(o, k)
           T == {m \in Nat : m <= n => \E o : From(o, n - m)}
<1>1. n \in Nat \ {0} /\ DOMAIN v = 1 .. n /\ v \in Seq(JsonNodes)
  BY OfTree
<1>2. ASSUME NEW k \in 1 .. n, NEW i \in DOMAIN Held(v, k)
      PROVE  Held(v, k)[i] \in k + 1 .. n
  <2>1. Held(v, k)[i] \in 1 .. n /\ v[Held(v, k)[i]].holder = k
    BY <1>1, <1>2, HeldInOrder
  <2> DEFINE j == Held(v, k)[i]
  <2> HIDE DEF j
  <2>2. j \in 1 .. n /\ v[j].holder = k
    BY <2>1 DEF j
  <2>3. j # 1
    BY <2>2, OfTree
  <2>4. k \in 1 .. j - 1
    BY <2>2, <2>3, OfTree
  <2> QED BY <1>1, <2>2, <2>4 DEF j
<1> HIDE DEF n
<1>3. 0 \in T
  <2> DEFINE o == [k \in n + 1 .. n |-> <<>>]
  <2>1. From(o, n)
    BY <1>1
  <2>2. n - 0 = n
    BY <1>1
  <2> HIDE DEF From
  <2> QED BY <2>1, <2>2
<1>4. ASSUME NEW m \in Nat, m \in T
      PROVE  m + 1 \in T
  <2>1. SUFFICES ASSUME m + 1 <= n
                 PROVE  \E o : From(o, n - (m + 1))
    OBVIOUS
  <2> DEFINE p == n - (m + 1)
  <2>2. p \in Nat /\ p + 1 = n - m /\ p + 1 \in 1 .. n
    BY <1>1, <2>1
  <2> HIDE DEF p
  <2>3. PICK f : From(f, p + 1)
    <3>1. m <= n
      BY <1>1, <2>1
    <3> HIDE DEF From
    <3>2. \E o : From(o, n - m)
      BY <1>4, <3>1
    <3> QED BY <2>2, <3>2
  <2> DEFINE g == [k \in p + 1 .. n |-> IF k > p + 1 THEN f[k] ELSE V(f, k)]
  <2>4. \A k \in p + 2 .. n : g[k] = f[k]
    BY <2>2
  <2>5. g[p + 1] = V(f, p + 1)
    BY <2>2
  <2>6. DOMAIN g = p + 1 .. n /\ g = [k \in DOMAIN g |-> g[k]]
    OBVIOUS
  <2> HIDE DEF g
  <2>7. ASSUME NEW k \in p + 1 .. n
        PROVE  V(g, k) = V(f, k)
    <3>1. k \in 1 .. n
      BY <2>2
    <3>2. \A i \in DOMAIN Held(v, k) : Held(v, k)[i] \in k + 1 .. n
      BY <1>2, <3>1
    <3>3. \A i \in DOMAIN Held(v, k) : Held(v, k)[i] \in p + 2 .. n
      BY <2>2, <3>1, <3>2
    <3>4. Items(v, g, k) = Items(v, f, k)
      BY <2>4, <3>3 DEF Items
    <3> QED BY <3>4 DEF Body
  <2>8. \A k \in p + 1 .. n : g[k] = V(g, k)
    <3>1. SUFFICES ASSUME NEW k \in p + 1 .. n
                   PROVE  g[k] = V(g, k)
      OBVIOUS
    <3> HIDE DEF V
    <3>2. CASE k = p + 1
      BY <2>5, <2>7, <3>2
    <3>3. CASE k \in p + 2 .. n
      <4>1. g[k] = f[k]
        BY <2>4, <3>3
      <4>2. f[k] = V(f, k)
        <5>1. k \in (p + 1) + 1 .. n
          BY <2>2, <3>3
        <5> QED BY <2>3, <5>1
      <4> QED BY <2>7, <4>1, <4>2
    <3> QED BY <2>2, <3>2, <3>3
  <2> HIDE DEF V
  <2>9. From(g, p)
    BY <2>6, <2>8
  <2> HIDE DEF From
  <2> QED BY <2>9 DEF p
<1>5. n \in T
  <2> HIDE DEF T
  <2> QED BY <1>1, <1>3, <1>4, Induction
<1>6. \E o : From(o, 0)
  <2>1. n - n = 0
    BY <1>1
  <2> HIDE DEF From
  <2> QED BY <1>1, <1>5, <2>1
<1>7. \E o : Outputs(o, v)
  <2>1. PICK o : From(o, 0)
    BY <1>6
  <2>2. DOMAIN o = DOMAIN v /\ \A k \in DOMAIN v : o[k] = V(o, k)
    BY <1>1, <2>1
  <2>3. o = [k \in DOMAIN o |-> o[k]]
    BY <2>1
  <2> HIDE DEF V
  <2>4. o = [k \in DOMAIN v |-> V(o, k)]
    BY <2>2, <2>3
  <2> QED BY <2>4 DEF V, Outputs
<1>8. WriteText(v) = (CHOOSE o : Outputs(o, v))[1]
  BY DEF WriteText, Outputs, Item, Body, Items
<1> QED BY <1>7, <1>8

-----------------------------------------------------------------------------
(* What a node holds *)

\* k to m are the node k and all that it holds, itself or through another.
Whole(v, k, m) ==
    /\ k \in 1 .. Len(v) /\ m \in k .. Len(v)
    /\ \A j \in k + 1 .. m : v[j].holder >= k
    /\ m = Len(v) \/ v[m + 1].holder < k

\* Each of them ends somewhere.
LEMMA WholeValue ==
    ASSUME NEW v, IsTree(v)
    PROVE  Whole(v, 1, Len(v))
<1>1. Len(v) \in Nat \ {0} /\ \A k \in 2 .. Len(v) : v[k].holder \in 1 .. k - 1
  BY OfTree
<1> QED BY <1>1 DEF Whole

\* A node that holds none is alone.
LEMMA WholeOfNone ==
    ASSUME NEW v, IsTree(v), NEW k, NEW m, Whole(v, k, m),
           \A j \in 1 .. Len(v) : v[j].holder # k
    PROVE  m = k
<1>1. Len(v) \in Nat \ {0} /\ \A j \in 2 .. Len(v) : v[j].holder \in 1 .. j - 1
  BY OfTree
<1>2. k \in 1 .. Len(v) /\ m \in k .. Len(v)
  BY DEF Whole
<1>3. SUFFICES ASSUME m > k
               PROVE  FALSE
  BY <1>1, <1>2
<1>4. k + 1 \in k + 1 .. m /\ k + 1 \in 2 .. Len(v)
  BY <1>1, <1>2, <1>3
<1>5. v[k + 1].holder >= k /\ v[k + 1].holder \in 1 .. k
  BY <1>1, <1>2, <1>4 DEF Whole
<1>6. v[k + 1].holder = k
  BY <1>2, <1>5
<1> QED BY <1>2, <1>4, <1>6

\* Where the i-th of the nodes that k holds has its end, 0 for what is before the first.
EndOf(h, m, i) == IF i = Len(h) THEN m ELSE h[i + 1] - 1

\* What k holds, one node with all that it holds after the other.
LEMMA WholeOfHeld ==
    ASSUME NEW v, IsTree(v), NEW k, NEW m, Whole(v, k, m)
    PROVE  /\ EndOf(Held(v, k), m, 0) = k
           /\ \A i \in 1 .. Len(Held(v, k)) :
                 /\ EndOf(Held(v, k), m, i - 1) = Held(v, k)[i] - 1
                 /\ Held(v, k)[i] \in k + 1 .. m /\ v[Held(v, k)[i]].holder = k
                 /\ Whole(v, Held(v, k)[i], EndOf(Held(v, k), m, i))
<1> DEFINE h == Held(v, k)
           n == Len(v)
           hold(j) == v[j].holder
<1>1. n \in Nat \ {0} /\ v \in Seq(JsonNodes) /\ hold(1) = 0
  BY OfTree
<1>2. \A j \in 2 .. n : hold(j) \in 1 .. j - 1 /\ \A a \in hold(j) + 1 .. j - 1 : hold(a) >= hold(j)
  BY OfTree
<1>3. /\ h \in Seq(1 .. n) /\ Increasing(h)
      /\ \A i \in DOMAIN h : hold(h[i]) = k
      /\ \A j \in 1 .. n : hold(j) = k => \E i \in DOMAIN h : h[i] = j
  BY <1>1, HeldInOrder
<1>4. k \in 1 .. n /\ m \in k .. n /\ (\A j \in k + 1 .. m : hold(j) >= k) /\ (m = n \/ hold(m + 1) < k)
  BY DEF Whole
<1> HIDE DEF h, n
<1>5. /\ Len(h) \in Nat /\ DOMAIN h = 1 .. Len(h)
      /\ \A i \in 1 .. Len(h) : h[i] \in 1 .. n
      /\ \A i \in 1 .. Len(h) : hold(h[i]) = k
      /\ \A i, j \in 1 .. Len(h) : i < j => h[i] < h[j]
      /\ \A j \in 1 .. n : hold(j) = k => \E i \in 1 .. Len(h) : h[i] = j
  <2>1. Len(h) \in Nat /\ DOMAIN h = 1 .. Len(h) /\ \A i \in 1 .. Len(h) : h[i] \in 1 .. n
    <3> DEFINE N == 1 .. n
    <3>1. h \in Seq(N)
      BY <1>3
    <3> HIDE DEF N
    <3>2. Len(h) \in Nat /\ DOMAIN h = 1 .. Len(h) /\ \A i \in 1 .. Len(h) : h[i] \in N
      BY <3>1
    <3> QED BY <3>2 DEF N
  <2> QED BY <1>3, <2>1, Zenon DEF Increasing
<1>12. Len(h) \in Nat
  BY <1>5
<1>6. ASSUME NEW i \in 1 .. Len(h)
      PROVE  h[i] \in k + 1 .. m /\ hold(h[i]) = k
  <2>1. h[i] \in 1 .. n /\ hold(h[i]) = k
    BY <1>5
  <2>2. h[i] \in 2 .. n
    BY <1>1, <1>4, <2>1
  <2>3. k \in 1 .. h[i] - 1 /\ \A a \in k + 1 .. h[i] - 1 : hold(a) >= k
    BY <1>2, <2>1, <2>2
  <2>4. h[i] <= m
    <3>1. SUFFICES ASSUME h[i] > m
                   PROVE  FALSE
      BY <1>1, <1>4, <2>1
    <3>2. hold(m + 1) < k
      BY <1>1, <1>4, <2>1, <3>1
    <3>3. CASE h[i] = m + 1
      BY <1>4, <2>1, <3>2, <3>3
    <3>4. CASE h[i] # m + 1
      <4>1. m + 1 \in k + 1 .. h[i] - 1
        BY <1>1, <1>4, <2>1, <3>1, <3>4
      <4>2. m + 1 \in 2 .. n
        BY <1>1, <1>4, <2>1, <3>1
      <4>3. hold(m + 1) \in 1 .. m
        BY <1>1, <1>2, <1>4, <4>2
      <4> QED BY <1>4, <2>3, <3>2, <4>1, <4>3
    <3> QED BY <3>3, <3>4
  <2> QED BY <1>1, <1>4, <2>1, <2>3, <2>4
<1>7. ASSUME NEW j \in k + 1 .. m, \A i \in 1 .. Len(h) : h[i] # j
      PROVE  hold(j) \in k + 1 .. j - 1
  <2>1. j \in 2 .. n /\ hold(j) >= k /\ hold(j) \in 1 .. j - 1
    BY <1>1, <1>2, <1>4
  <2>2. hold(j) # k
    BY <1>5, <1>7, <2>1
  <2> QED BY <1>4, <2>1, <2>2
<1>8. ASSUME NEW i \in 1 .. Len(h), NEW j \in h[i] + 1 .. m,
             \A a \in h[i] + 1 .. j : \A b \in 1 .. Len(h) : h[b] # a
      PROVE  hold(j) >= h[i]
  <2>1. h[i] \in k + 1 .. m /\ hold(h[i]) = k
    BY <1>6
  <2>2. j \in k + 1 .. m /\ j \in h[i] + 1 .. j /\ j \in 2 .. n
    BY <1>1, <1>4, <2>1
  <2>3. hold(j) \in k + 1 .. j - 1
    BY <1>7, <1>8, <2>2
  <2>4. SUFFICES ASSUME hold(j) < h[i]
                 PROVE  FALSE
    BY <2>1, <2>3
  <2>5. h[i] \in hold(j) + 1 .. j - 1
    BY <1>4, <2>1, <2>2, <2>3, <2>4
  <2>6. hold(h[i]) >= hold(j)
    BY <1>2, <2>2, <2>5
  <2> QED BY <1>4, <2>1, <2>3, <2>6
<1>9. ASSUME NEW i \in 1 .. Len(h)
      PROVE  Whole(v, h[i], EndOf(h, m, i))
  <2> DEFINE c == h[i]
  <2>1. c \in k + 1 .. m /\ hold(c) = k
    BY <1>6
  <2> HIDE DEF c
  <2>2. CASE i = Len(h)
    <3>1. EndOf(h, m, i) = m
      BY <2>2 DEF EndOf
    <3>2. ASSUME NEW a \in c + 1 .. m, NEW b \in 1 .. Len(h)
          PROVE  h[b] # a
      <4>1. h[b] <= c
        <5>1. CASE b = i
          BY <1>6, <5>1 DEF c
        <5>2. CASE b < i
          <6>1. h[b] < h[i]
            BY <1>5, <5>2
          <6> QED BY <1>6, <6>1 DEF c
        <5> QED BY <1>12, <2>2, <5>1, <5>2
      <4>2. h[b] \in k + 1 .. m
        BY <1>6
      <4> QED BY <1>4, <2>1, <4>1, <4>2
    <3>3. \A j \in c + 1 .. m : hold(j) >= c
      BY <1>8, <3>2, <1>4, <2>1 DEF c
    <3>4. m = n \/ hold(m + 1) < c
      <4>1. CASE m < n
        <5>1. m + 1 \in 2 .. n
          BY <1>1, <1>4, <4>1
        <5>2. hold(m + 1) \in 1 .. m
          BY <1>1, <1>2, <1>4, <5>1
        <5> QED BY <1>4, <2>1, <4>1, <5>2
      <4> QED BY <1>1, <1>4, <4>1
    <3>5. c \in 1 .. n /\ m \in c .. n
      BY <1>1, <1>4, <2>1
    <3> QED BY <3>1, <3>3, <3>4, <3>5 DEF Whole, c, n, hold
  <2>3. CASE i < Len(h)
    <3> DEFINE d == h[i + 1]
    <3>1. i + 1 \in 1 .. Len(h)
      BY <1>5, <2>3
    <3>2. d \in k + 1 .. m /\ hold(d) = k /\ c < d
      <4>1. h[i] < h[i + 1]
        BY <1>5, <3>1
      <4> QED BY <1>6, <3>1, <4>1 DEF c
    <3> HIDE DEF d
    <3>3. EndOf(h, m, i) = d - 1
      <4>1. i # Len(h)
        BY <1>12, <2>3
      <4> QED BY <4>1 DEF EndOf, d
    <3>4. ASSUME NEW a \in c + 1 .. d - 1, NEW b \in 1 .. Len(h)
          PROVE  h[b] # a
      <4>1. h[b] <= c \/ h[b] >= d
        <5>1. CASE b = i
          BY <1>6, <5>1 DEF c
        <5>2. CASE b < i
          BY <1>5, <1>6, <5>2 DEF c
        <5>3. CASE b = i + 1
          BY <1>6, <5>3 DEF d
        <5>4. CASE b > i + 1
          BY <1>5, <1>6, <3>1, <5>4 DEF d
        <5> QED BY <1>5, <3>1, <5>1, <5>2, <5>3, <5>4
      <4>2. h[b] \in k + 1 .. m
        BY <1>6
      <4> QED BY <1>4, <2>1, <3>2, <4>1, <4>2
    <3>5. ASSUME NEW j \in c + 1 .. d - 1
          PROVE  hold(j) >= c
      <4>1. j \in c + 1 .. m
        BY <1>4, <2>1, <3>2
      <4>2. \A a \in c + 1 .. j : \A b \in 1 .. Len(h) : h[b] # a
        BY <1>4, <2>1, <3>2, <3>4
      <4> QED BY <1>8, <4>1, <4>2 DEF c
    <3>6. c \in 1 .. n /\ d - 1 \in c .. n /\ d - 1 + 1 = d /\ hold(d) < c
      BY <1>1, <1>4, <2>1, <3>2
    <3> DEFINE e == d - 1
    <3>7. e = d - 1 /\ e + 1 = d
      BY <3>6
    <3> HIDE DEF e
    <3>8. c \in 1 .. n /\ e \in c .. n /\ (\A j \in c + 1 .. e : v[j].holder >= c) /\ v[e + 1].holder < c
      BY <3>5, <3>6, <3>7
    <3>9. Whole(v, c, e)
      BY <3>8 DEF Whole, n
    <3> QED BY <3>3, <3>7, <3>9 DEF c
  <2> QED BY <1>12, <2>2, <2>3
<1>10. ASSUME NEW i \in 1 .. Len(h)
       PROVE  EndOf(h, m, i - 1) = h[i] - 1
  <2>1. i - 1 # Len(h) /\ i - 1 + 1 = i
    BY <1>5
  <2> QED BY <2>1 DEF EndOf
<1>11. EndOf(h, m, 0) = k
  <2>1. CASE Len(h) = 0
    <3>1. \A j \in 1 .. n : hold(j) # k
      BY <1>5, <2>1
    <3>2. m = k
      BY <3>1, WholeOfNone DEF n, hold
    <3> QED BY <2>1, <3>2 DEF EndOf
  <2>2. CASE Len(h) # 0
    <3>1. 1 \in 1 .. Len(h) /\ h[1] \in k + 1 .. m
      BY <1>5, <1>6, <2>2
    <3>2. h[1] = k + 1
      <4>1. SUFFICES ASSUME h[1] # k + 1
                     PROVE  FALSE
        OBVIOUS
      <4>2. \A b \in 1 .. Len(h) : h[b] # k + 1
        <5>1. SUFFICES ASSUME NEW b \in 1 .. Len(h)
                       PROVE  h[b] # k + 1
          OBVIOUS
        <5>2. CASE b = 1
          BY <4>1, <5>2
        <5>3. CASE b > 1
          <6>1. h[1] < h[b] /\ h[b] \in k + 1 .. m
            BY <1>5, <1>6, <3>1, <5>3
          <6> QED BY <1>4, <3>1, <6>1
        <5> QED BY <1>5, <5>2, <5>3
      <4>3. k + 1 \in k + 1 .. m
        BY <1>4, <3>1
      <4>4. hold(k + 1) \in k + 1 .. k + 1 - 1
        BY <1>7, <4>2, <4>3
      <4> QED BY <1>4, <4>4
    <3>3. EndOf(h, m, 0) = h[1] - 1
      BY <2>2, <1>5 DEF EndOf
    <3> QED BY <1>4, <3>2, <3>3
  <2> QED BY <2>1, <2>2
<1> QED BY <1>6, <1>9, <1>10, <1>11 DEF h, hold

-----------------------------------------------------------------------------
(* Reading what is written for a node *)

Expected == {"value", "element", "member", "pair", "colon", "next", "done", "failed"}

Readers ==
    [expect : Expected, nodes : Seq(JsonNodes), current : Nat, stack : Seq(Nat),
     name : Strings \cup {"none"}]

\* r is where the text of the node k may start, in a value whose nodes before k it has read.
Before(r, v, k) ==
    /\ r \in Readers /\ r.nodes = SubSeq(v, 1, k - 1) /\ r.current = v[k].holder
    /\ r.expect \in IF k = 1 THEN {"value"}
                    ELSE IF v[v[k].holder].type = "obj" THEN {"member", "pair"} ELSE {"element", "value"}

\* The same after the name of the node, if it has one.
AtNode(r, v, k) ==
    /\ r \in Readers /\ r.nodes = SubSeq(v, 1, k - 1) /\ r.current = v[k].holder
    /\ AtValue(r)
    /\ v[k].name = IF InObject(r) THEN r.name ELSE "none"

\* s is where r is when it has read the nodes from k to m, all that k holds.
After(s, r, v, k, m) ==
    /\ s \in Readers /\ s.nodes = SubSeq(v, 1, m) /\ s.stack = r.stack
    /\ s.current = IF k = 1 THEN 1 ELSE v[k].holder
    /\ s.expect = Follows(k = 1)

\* One node more.
LEMMA UpTo ==
    ASSUME NEW S, NEW v \in Seq(S), NEW k \in 1 .. Len(v)
    PROVE  /\ SubSeq(v, 1, k - 1) \in Seq(S) /\ Len(SubSeq(v, 1, k - 1)) = k - 1
           /\ \A j \in 1 .. k - 1 : SubSeq(v, 1, k - 1)[j] = v[j]
           /\ Append(SubSeq(v, 1, k - 1), v[k]) = SubSeq(v, 1, k)
<1> DEFINE a == SubSeq(v, 1, k - 1)
           b == SubSeq(v, 1, k)
<1>1. k \in Nat \ {0} /\ Len(v) \in Nat /\ v[k] \in S
  OBVIOUS
<1>2. a \in Seq(S) /\ Len(a) = k - 1 /\ \A j \in 1 .. k - 1 : a[j] = v[j]
  BY <1>1
<1>3. b \in Seq(S) /\ Len(b) = k /\ \A j \in 1 .. k : b[j] = v[j]
  BY <1>1
<1> HIDE DEF a, b
<1>4. /\ Append(a, v[k]) \in Seq(S) /\ Len(Append(a, v[k])) = k
      /\ \A j \in 1 .. k : Append(a, v[k])[j] = b[j]
  <2>1. Append(a, v[k]) \in Seq(S) /\ Len(Append(a, v[k])) = k /\ Append(a, v[k])[k] = v[k]
    BY <1>1, <1>2
  <2>2. \A j \in 1 .. k - 1 : Append(a, v[k])[j] = a[j]
    BY <1>1, <1>2
  <2>3. \A j \in 1 .. k : j = k \/ j \in 1 .. k - 1
    BY <1>1
  <2> QED BY <1>2, <1>3, <2>1, <2>2, <2>3
<1>5. Append(a, v[k]) = b
  BY <1>3, <1>4, SeqEqual
<1> QED BY <1>2, <1>5 DEF a, b

\* In a reader before the node k, the node it is in is an object when that of k is.
LEMMA InWhich ==
    ASSUME NEW v, IsTree(v), NEW k \in 1 .. Len(v), NEW r \in Readers,
           r.nodes = SubSeq(v, 1, k - 1), r.current = v[k].holder
    PROVE  /\ k = 1 => ~ InObject(r) /\ v[k].name = "none" /\ r.current = 0
           /\ k # 1 => /\ r.current \in 1 .. k - 1
                       /\ InObject(r) <=> v[v[k].holder].type = "obj"
                       /\ IF InObject(r) THEN v[k].name \in Strings ELSE v[k].name = "none"
<1>1. v \in Seq(JsonNodes) /\ Len(v) \in Nat \ {0}
  BY OfTree
<1>2. CASE k = 1
  BY <1>2, OfTree DEF InObject
<1>3. CASE k # 1
  <2>1. k \in 2 .. Len(v)
    BY <1>1, <1>3
  <2>2. /\ v[k].holder \in 1 .. k - 1
        /\ v[v[k].holder].type = "obj" => v[k].name \in Strings
        /\ v[v[k].holder].type # "obj" => v[k].name = "none"
    BY <2>1, OfTree
  <2>3. r.nodes[r.current] = v[r.current]
    BY <1>1, <2>2, UpTo
  <2>4. r.current # 0
    BY <2>2
  <2> QED BY <1>3, <2>2, <2>3, <2>4 DEF InObject
<1> QED BY <1>2, <1>3

\* Two tokens.
LEMMA TwoTokens ==
    ASSUME NEW S, NEW c \in S, NEW e \in S
    PROVE  <<c>> \in Seq(S) /\ <<e>> \in Seq(S) /\ <<c>> \o <<e>> = <<c, e>>
<1>1. <<c>> \in Seq(S) /\ <<e>> \in Seq(S) /\ Append(<<c>>, e) = <<c, e>>
  BY OneMore
<1>2. Append(<<c>>, e) = <<c>> \o <<e>>
  BY <1>1, AppendIsConcat
<1> QED BY <1>1, <1>2

\* The name of a node.
LEMMA NameBack ==
    ASSUME NEW v, IsTree(v), NEW k \in 1 .. Len(v), NEW r, Before(r, v, k)
    PROVE  /\ Item(v, k) \in Seq(Symbols)
           /\ \E s : Takes(r, Item(v, k), s) /\ AtNode(s, v, k) /\ s.stack = r.stack
<1>1. r \in Readers /\ r.nodes = SubSeq(v, 1, k - 1) /\ r.current = v[k].holder
  BY DEF Before
<1>2. CASE v[k].name = "none"
  <2>1. Item(v, k) = <<>>
    BY <1>2 DEF Item
  <2>2. ~ InObject(r)
    BY <1>1, <1>2, InWhich, Kinds
  <2>3. AtValue(r)
    BY <1>1, <2>2, InWhich DEF Before, AtValue
  <2>4. AtNode(r, v, k)
    BY <1>1, <1>2, <2>2, <2>3 DEF AtNode
  <2>5. <<>> \in Seq(Symbols)
    OBVIOUS
  <2> QED BY <2>1, <2>4, <2>5, TakesNone
<1>3. CASE v[k].name # "none"
  <2> DEFINE c == v[k].name
             s == [r EXCEPT !.name = c, !.expect = "colon"]
             t == [s EXCEPT !.expect = "value"]
  <2>1. Item(v, k) = <<c, ":">>
    BY <1>3 DEF Item
  <2>2. InObject(r) /\ c \in Strings /\ k # 1 /\ v[v[k].holder].type = "obj"
    BY <1>1, <1>3, InWhich
  <2>3. r.expect \in {"member", "pair"}
    BY <2>2 DEF Before
  <2>4. c \in Symbols /\ c \in Strings
    BY <2>2 DEF Symbols
  <2> HIDE DEF c
  <2>14. /\ s \in Readers /\ s.expect = "colon" /\ s.name = c
         /\ s.nodes = r.nodes /\ s.current = r.current /\ s.stack = r.stack
    BY <1>1, <2>4 DEF Readers, Expected
  <2>15. /\ t \in Readers /\ t.expect = "value" /\ t.name = s.name
         /\ t.nodes = s.nodes /\ t.current = s.current /\ t.stack = s.stack
    <3> HIDE DEF s
    <3> QED BY <2>14 DEF Readers, Expected
  <2>5. s \in Readers /\ t \in Readers /\ s.expect = "colon" /\ t.expect = "value" /\ t.name = c
        /\ t.nodes = r.nodes /\ t.current = r.current /\ t.stack = r.stack
    <3> HIDE DEF s, t
    <3> QED BY <2>14, <2>15
  <2>6. Token(r, c) = s
    BY <2>2, <2>3, TokenNames
  <2> HIDE DEF s, t
  <2>7. Token(s, ":") = t
    BY <2>5, TokenNames DEF t
  <2>8. Takes(r, <<c>>, s)
    BY <2>3, <2>6, TakesOne DEF Ended
  <2>9. Takes(s, <<":">>, t)
    BY <2>5, <2>7, TakesOne DEF Ended
  <2>10. <<c>> \in Seq(Symbols) /\ <<":">> \in Seq(Symbols) /\ <<c>> \o <<":">> = <<c, ":">>
    <3>1. ":" \in Symbols
      BY DEF Symbols, Punctuators
    <3> QED BY <2>4, <3>1, TwoTokens
  <2>11. Takes(r, <<c, ":">>, t)
    BY <2>8, <2>9, <2>10, TakesMore
  <2>12. AtNode(t, v, k)
    <3>1. InObject(t)
      BY <2>2, <2>5 DEF InObject
    <3> QED BY <1>1, <2>5, <3>1 DEF AtNode, AtValue, c
  <2>13. <<c, ":">> \in Seq(Symbols)
    BY <2>10, ConcatProperties
  <2> QED BY <2>1, <2>5, <2>11, <2>12, <2>13
<1> QED BY <1>2, <1>3

\* What reading the token of a node adds.
LEMMA Added ==
    ASSUME NEW v, IsTree(v), NEW k \in 1 .. Len(v), NEW r, AtNode(r, v, k)
    PROVE  /\ AddToCurrent(r, v[k].type, v[k].token).nodes = SubSeq(v, 1, k)
           /\ AddToCurrent(r, v[k].type, v[k].token) \in Readers
           /\ AddToCurrent(r, v[k].type, v[k].token).current = IF r.current = 0 THEN 1 ELSE r.current
           /\ AddToCurrent(r, v[k].type, v[k].token).stack = r.stack
<1> DEFINE e == v[k]
           d == [type |-> v[k].type, holder |-> r.current, token |-> v[k].token,
                 name |-> IF InObject(r) THEN r.name ELSE "none"]
           a == AddToCurrent(r, v[k].type, v[k].token)
<1>1. v \in Seq(JsonNodes) /\ v[k] \in JsonNodes
  BY OfTree
<1>2. d = v[k]
  <2>1. d = [type |-> v[k].type, holder |-> v[k].holder, token |-> v[k].token, name |-> v[k].name]
    BY DEF AtNode
  <2> QED BY <1>1, <2>1, OfNode
<1>3. r \in Readers /\ r.nodes = SubSeq(v, 1, k - 1)
  BY DEF AtNode
<1>4. a = [r EXCEPT !.nodes = Append(@, d), !.current = IF @ = 0 THEN 1 ELSE @]
  BY DEF AddToCurrent
<1>5. Append(r.nodes, d) = SubSeq(v, 1, k)
  BY <1>1, <1>2, <1>3, UpTo
<1>6. Append(r.nodes, d) \in Seq(JsonNodes)
  <2>1. r.nodes \in Seq(JsonNodes)
    BY <1>3 DEF Readers, Expected
  <2> HIDE DEF d
  <2> QED BY <1>1, <1>2, <2>1
<1> HIDE DEF a, d
<1>7. a.nodes = Append(r.nodes, d) /\ a.current = (IF r.current = 0 THEN 1 ELSE r.current) /\ a.stack = r.stack
      /\ a \in Readers
  BY <1>3, <1>4, <1>6 DEF Readers, Expected
<1> QED BY <1>5, <1>7 DEF a

\* A value that holds no other.
LEMMA LeafBack ==
    ASSUME NEW v, IsTree(v), NEW k \in 1 .. Len(v), NEW r, AtNode(r, v, k),
           v[k].type \notin Compounds
    PROVE  /\ <<v[k].token>> \in Seq(Symbols)
           /\ \E s : Takes(r, <<v[k].token>>, s) /\ After(s, r, v, k, k)
<1> DEFINE c == v[k].token
           a == AddToCurrent(r, v[k].type, c)
           s == [a EXCEPT !.expect = Follows(r.current = 0)]
<1>1. v[k] \in JsonNodes
  BY OfTree
<1>2. c \in Strings \cup Literals /\ v[k].type = TypeOf(c)
  BY <1>1, OfNode
<1>3. r \in Readers /\ AtValue(r) /\ r.nodes = SubSeq(v, 1, k - 1) /\ r.current = v[k].holder
  BY DEF AtNode
<1>4. (r.current = 0) <=> (k = 1)
  <2>1. (k = 1 => r.current = 0) /\ (k # 1 => r.current \in 1 .. k - 1)
    BY <1>3, InWhich
  <2> QED BY <2>1
<1>5. Token(r, c) = s
  <2>1. AddToCurrent(r, TypeOf(c), c) = a
    BY <1>2
  <2> HIDE DEF a, c
  <2> QED BY <1>2, <1>3, <2>1, TokenLeaf
<1>6. /\ a.nodes = SubSeq(v, 1, k) /\ a \in Readers /\ a.stack = r.stack
      /\ a.current = IF r.current = 0 THEN 1 ELSE r.current
  BY Added
<1> HIDE DEF a
<1>7. Follows(r.current = 0) \in Expected
  BY DEF Follows, Expected
<1>8. s \in Readers /\ s.nodes = a.nodes /\ s.stack = a.stack /\ s.current = a.current
      /\ s.expect = Follows(r.current = 0)
  BY <1>6, <1>7 DEF Readers
<1>9. After(s, r, v, k, k)
  BY <1>3, <1>4, <1>6, <1>8 DEF After
<1>10. Takes(r, <<c>>, s)
  <2>1. r.expect \notin Ended
    BY <1>3 DEF AtValue, Ended
  <2> HIDE DEF c, s
  <2> QED BY <1>5, <2>1, TakesOne
<1>11. c \in Symbols
  BY <1>2 DEF Symbols
<1>12. <<c>> \in Seq(Symbols)
  BY <1>11, TwoTokens
<1> QED BY <1>9, <1>10, <1>12

\* s is in the compound k, where r was when it started; it has read the nodes up to m, and
\* with them the first i of those that k holds.
Inside(s, r, v, k, m, i) ==
    /\ s \in Readers /\ s.nodes = SubSeq(v, 1, m) /\ s.current = k
    /\ s.stack = IF k = 1 THEN r.stack ELSE Append(r.stack, v[k].holder)
    /\ s.expect = IF i # 0 THEN "next" ELSE IF v[k].type = "obj" THEN "member" ELSE "element"

\* The start of a compound.
LEMMA OpeningBack ==
    ASSUME NEW v, IsTree(v), NEW k \in 1 .. Len(v), NEW r, AtNode(r, v, k),
           v[k].type \in Compounds
    PROVE  /\ <<Opening(v[k])>> \in Seq(Symbols)
           /\ \E s : Takes(r, <<Opening(v[k])>>, s) /\ Inside(s, r, v, k, k, 0)
<1> DEFINE c == v[k].token
           a == AddToCurrent(r, v[k].type, c)
           b == BeginCompound(r, v[k].type, c)
           mode == IF v[k].type = "obj" THEN "member" ELSE "element"
           s == [b EXCEPT !.expect = mode]
<1>1. v[k] \in JsonNodes
  BY OfTree
<1>2. /\ c = Opening(v[k])
      /\ (v[k].type = "obj" /\ c = "{") \/ (v[k].type = "array" /\ c = "[")
  BY <1>1, OfNode, Kinds DEF Compounds
<1>3. r \in Readers /\ AtValue(r) /\ r.nodes = SubSeq(v, 1, k - 1) /\ r.current = v[k].holder
  BY DEF AtNode
<1>4. ((r.current = 0) <=> (k = 1)) /\ Len(r.nodes) + 1 = k /\ v[k].holder \in Nat
  <2>1. v \in Seq(JsonNodes)
    BY OfTree
  <2>2. Len(r.nodes) = k - 1
    BY <1>3, <2>1, UpTo
  <2>3. (r.current = 0) <=> (k = 1)
    <3>1. (k = 1 => r.current = 0) /\ (k # 1 => r.current \in 1 .. k - 1)
      BY <1>3, InWhich
    <3> QED BY <3>1
  <2>4. v[k].holder \in Nat
    BY <1>1, OfNode
  <2> QED BY <2>2, <2>3, <2>4
<1>5. Token(r, c) = s
  BY <1>2, <1>3, TokenOpens
<1>6. /\ a.nodes = SubSeq(v, 1, k) /\ a \in Readers /\ a.stack = r.stack
      /\ a.current = IF r.current = 0 THEN 1 ELSE r.current
  BY Added
<1>7. b = [a EXCEPT !.stack = IF r.current = 0 THEN @ ELSE Append(@, r.current), !.current = Len(r.nodes) + 1]
  BY DEF BeginCompound
<1> HIDE DEF a, b, mode
<1>8. /\ b.nodes = a.nodes /\ b.current = k
      /\ b.stack = IF k = 1 THEN r.stack ELSE Append(r.stack, v[k].holder)
  BY <1>3, <1>4, <1>6, <1>7 DEF Readers
<1>9. b.stack \in Seq(Nat)
  <2>1. r.stack \in Seq(Nat)
    BY <1>3 DEF Readers
  <2> QED BY <1>4, <1>8, <2>1
<1>10. b \in Readers
  <2>1. b = [a EXCEPT !.stack = b.stack, !.current = b.current]
    BY <1>6, <1>7 DEF Readers
  <2>2. b.current \in Nat
    BY <1>8
  <2> QED BY <1>6, <1>9, <2>1, <2>2 DEF Readers
<1>11. mode \in Expected
  BY DEF mode, Expected
<1>12. s \in Readers /\ s.nodes = b.nodes /\ s.stack = b.stack /\ s.current = b.current /\ s.expect = mode
  BY <1>10, <1>11 DEF Readers
<1>13. Inside(s, r, v, k, k, 0)
  BY <1>6, <1>8, <1>12 DEF Inside, mode
<1>14. Takes(r, <<c>>, s)
  <2>1. r.expect \notin Ended
    BY <1>3 DEF AtValue, Ended
  <2> HIDE DEF c, s
  <2> QED BY <1>5, <2>1, TakesOne
<1>15. c \in Symbols
  BY <1>2 DEF Symbols, Punctuators
<1>16. <<c>> \in Seq(Symbols)
  BY <1>15, TwoTokens
<1> QED BY <1>2, <1>13, <1>14, <1>16

\* Which compound a reader inside is in.
LEMMA InsideWhich ==
    ASSUME NEW v, IsTree(v), NEW k \in 1 .. Len(v), NEW m \in k .. Len(v), NEW s, NEW r, NEW i,
           Inside(s, r, v, k, m, i)
    PROVE  InObject(s) <=> v[k].type = "obj"
<1>1. v \in Seq(JsonNodes) /\ Len(v) \in Nat
  BY OfTree
<1>2. SubSeq(v, 1, m)[k] = v[k]
  BY <1>1
<1> QED BY <1>2 DEF Inside, InObject

\* The end of a compound.
LEMMA ClosingBack ==
    ASSUME NEW v, IsTree(v), NEW k \in 1 .. Len(v), NEW m \in k .. Len(v),
           NEW r \in Readers, v[k].type \in Compounds, NEW i, NEW s, Inside(s, r, v, k, m, i)
    PROVE  /\ <<Closing(v[k])>> \in Seq(Symbols)
           /\ \E t : Takes(s, <<Closing(v[k])>>, t) /\ After(t, r, v, k, m)
<1> DEFINE c == Closing(v[k])
           e == EndCompound(s)
           t == [e EXCEPT !.expect = Follows(s.current = 1)]
<1>1. InObject(s) <=> v[k].type = "obj"
  BY InsideWhich
<1>2. Closes(s, c)
  BY <1>1 DEF Closes, Closing, Inside, Compounds
<1>3. Token(s, c) = t
  BY <1>2, TokenCloses
<1>4. s \in Readers /\ s.current = k /\ s.nodes = SubSeq(v, 1, m)
  BY DEF Inside
<1>5. e \in Readers /\ e.nodes = s.nodes /\ e.stack = r.stack /\ e.current = IF k = 1 THEN 1 ELSE v[k].holder
  <2>1. CASE k = 1
    <3>1. e = s
      BY <1>4, <2>1 DEF EndCompound
    <3> QED BY <1>4, <2>1, <3>1 DEF Inside
  <2>2. CASE k # 1
    <3> DEFINE h == v[k].holder
    <3>1. h \in Nat /\ r.stack \in Seq(Nat) /\ s.stack = Append(r.stack, h)
      BY <2>2, OfTree, OfNode DEF Readers, Inside
    <3> HIDE DEF h
    <3>2. Last(s.stack) = h /\ Front(s.stack) = r.stack
      BY <3>1, AppendProperties DEF Last, Front
    <3>3. e = [s EXCEPT !.current = h, !.stack = r.stack]
      BY <1>4, <2>2, <3>2 DEF EndCompound, Readers
    <3> HIDE DEF e
    <3>4. e \in Readers /\ e.nodes = s.nodes /\ e.stack = r.stack /\ e.current = h
      BY <1>4, <3>1, <3>3 DEF Readers
    <3> QED BY <2>2, <3>4 DEF h
  <2> QED BY <2>1, <2>2
<1> HIDE DEF e
<1>6. Follows(s.current = 1) \in Expected
  BY DEF Follows, Expected
<1>7. t \in Readers /\ t.nodes = e.nodes /\ t.stack = e.stack /\ t.current = e.current
      /\ t.expect = Follows(s.current = 1)
  BY <1>5, <1>6 DEF Readers
<1>8. After(t, r, v, k, m)
  BY <1>4, <1>5, <1>7 DEF After
<1>9. s.expect \notin Ended
  BY DEF Inside, Ended
<1>10. Takes(s, <<c>>, t)
  BY <1>3, <1>9, TakesOne
<1>11. c \in Symbols
  BY DEF Closing, Symbols, Punctuators
<1>12. <<c>> \in Seq(Symbols)
  BY <1>11, TwoTokens
<1> QED BY <1>8, <1>10, <1>12

\* The text of the node k is read as k with all that it holds, wherever it stands.
ReadsBack(v, o, k) ==
    /\ o[k] \in Seq(Symbols)
    /\ \A r, m : Before(r, v, k) /\ Whole(v, k, m) =>
          \E s : Takes(r, o[k], s) /\ After(s, r, v, k, m)

\* What the generator writes for what k holds: a comma before all but the first.
Pieces(v, o, k) ==
    [i \in DOMAIN Items(v, o, k) |->
        IF i = 1 THEN Items(v, o, k)[i] ELSE <<",">> \o Items(v, o, k)[i]]

\* One of them.
LEMMA HeldBack ==
    ASSUME NEW v, IsTree(v), NEW k, NEW m, Whole(v, k, m), v[k].type \in Compounds,
           NEW o, NEW i \in 1 .. Len(Held(v, k)), ReadsBack(v, o, Held(v, k)[i]),
           NEW r, NEW s, Inside(s, r, v, k, EndOf(Held(v, k), m, i - 1), i - 1)
    PROVE  /\ Pieces(v, o, k)[i] \in Seq(Symbols)
           /\ \E t : Takes(s, Pieces(v, o, k)[i], t) /\ Inside(t, r, v, k, EndOf(Held(v, k), m, i), i)
<1> DEFINE h == Held(v, k)
           c == h[i]
           e == EndOf(h, m, i)
           p == Pieces(v, o, k)[i]
           q == IF InObject(s) THEN "pair" ELSE "value"
           u == IF i = 1 THEN s ELSE [s EXCEPT !.expect = q]
<1>1. v \in Seq(JsonNodes) /\ Len(v) \in Nat \ {0} /\ Len(h) \in Nat /\ DOMAIN h = 1 .. Len(h)
  BY OfTree, HeldInOrder
<1>2. k \in 1 .. Len(v) /\ m \in k .. Len(v)
  BY DEF Whole
<1>3. EndOf(h, m, i - 1) = c - 1 /\ c \in k + 1 .. m /\ v[c].holder = k /\ Whole(v, c, e)
  BY WholeOfHeld
<1>4. Inside(s, r, v, k, c - 1, i - 1)
  BY <1>3
<1>5. InObject(s) <=> v[k].type = "obj"
  <2>1. c - 1 \in k .. Len(v)
    BY <1>1, <1>2, <1>3
  <2> QED BY <1>2, <1>4, <2>1, InsideWhich
<1>6. p = IF i = 1 THEN o[c] ELSE <<",">> \o o[c]
  BY <1>1 DEF Pieces, Items
<1>7. o[c] \in Seq(Symbols)
  BY DEF ReadsBack
<1>8. <<",">> \in Seq(Symbols)
  BY TwoTokens DEF Symbols, Punctuators
<1> HIDE DEF h, e, p
<1>9. p \in Seq(Symbols)
  BY <1>6, <1>7, <1>8, ConcatProperties
<1>10. s \in Readers /\ s.nodes = SubSeq(v, 1, c - 1) /\ s.current = k
  BY <1>4 DEF Inside
<1>11. /\ u \in Readers /\ u.nodes = s.nodes /\ u.current = s.current /\ u.stack = s.stack
       /\ i = 1 => u = s
       /\ i # 1 => u.expect = q
  <2>1. q \in Expected
    BY DEF Expected
  <2> HIDE DEF q
  <2> QED BY <1>10, <2>1 DEF Readers
<1>12. Before(u, v, c)
  <2>1. c # 1
    BY <1>2, <1>3
  <2>2. u.expect \in IF v[k].type = "obj" THEN {"member", "pair"} ELSE {"element", "value"}
    <3>1. CASE i = 1
      BY <1>4, <1>11, <3>1 DEF Inside
    <3>2. CASE i # 1
      BY <1>5, <1>11, <3>2
    <3> QED BY <3>1, <3>2
  <2> HIDE DEF u
  <2> QED BY <1>3, <1>10, <1>11, <2>1, <2>2 DEF Before
<1> HIDE DEF c
<1>13. PICK t : Takes(u, o[c], t) /\ After(t, u, v, c, e)
  <2>1. ReadsBack(v, o, c)
    BY DEF c, h
  <2> HIDE DEF u
  <2> QED BY <1>3, <1>12, <2>1 DEF ReadsBack
<1>14. Takes(s, p, t)
  <2>1. CASE i = 1
    BY <1>6, <1>11, <1>13, <2>1
  <2>2. CASE i # 1
    <3>1. s.expect = "next"
      BY <1>4, <2>2 DEF Inside
    <3>2. Token(s, ",") = u
      BY <2>2, <3>1, TokenSeparates
    <3> HIDE DEF u
    <3>3. Takes(s, <<",">>, u)
      BY <3>1, <3>2, TakesOne DEF Ended
    <3>4. Takes(s, <<",">> \o o[c], t)
      BY <1>7, <1>8, <1>13, <3>3, TakesMore
    <3> QED BY <1>6, <2>2, <3>4
  <2> QED BY <2>1, <2>2
<1> HIDE DEF u
<1>15. Inside(t, r, v, k, e, i)
  <2>1. c # 1 /\ i # 0
    BY <1>2, <1>3
  <2>2. t \in Readers /\ t.nodes = SubSeq(v, 1, e) /\ t.stack = s.stack /\ t.current = k /\ t.expect = "next"
    BY <1>3, <1>11, <1>13, <2>1 DEF After, Follows
  <2> QED BY <1>4, <2>1, <2>2 DEF Inside
<1> QED BY <1>9, <1>14, <1>15 DEF p, e, h

\* All of them, one after the other.
LEMMA AllHeldBack ==
    ASSUME NEW v, IsTree(v), NEW k, NEW m, Whole(v, k, m), v[k].type \in Compounds,
           NEW o, \A i \in 1 .. Len(Held(v, k)) : ReadsBack(v, o, Held(v, k)[i]),
           NEW r, NEW s, Inside(s, r, v, k, k, 0)
    PROVE  \E t : /\ Takes(s, FlattenSeq(Pieces(v, o, k)), t)
                  /\ Inside(t, r, v, k, m, Len(Held(v, k)))
<1> DEFINE h == Held(v, k)
           n == Len(h)
           p == Pieces(v, o, k)
           From(i, t) == Inside(t, r, v, k, EndOf(h, m, i), i)
<1>1. n \in Nat /\ DOMAIN h = 1 .. n
  BY OfTree, HeldInOrder
<1>2. EndOf(h, m, 0) = k
  BY WholeOfHeld
<1>3. EndOf(h, m, n) = m
  BY DEF EndOf
<1>4. ASSUME NEW i \in 1 .. n, NEW t, From(i - 1, t)
      PROVE  \E u : Takes(t, p[i], u) /\ From(i, u)
  BY <1>4, HeldBack
<1>5. p \in Seq(Seq(Symbols)) /\ Len(p) = n /\ \A i \in 1 .. n : p[i] \in Seq(Symbols)
  <2>1. DOMAIN p = 1 .. n
    BY <1>1 DEF Pieces, Items
  <2>2. \A i \in 1 .. n : p[i] = IF i = 1 THEN o[h[i]] ELSE <<",">> \o o[h[i]]
    BY <1>1 DEF Pieces, Items
  <2>3. <<",">> \in Seq(Symbols)
    BY TwoTokens DEF Symbols, Punctuators
  <2>4. \A i \in 1 .. n : o[h[i]] \in Seq(Symbols)
    BY DEF ReadsBack
  <2>5. \A i \in 1 .. n : p[i] \in Seq(Symbols)
    <3>1. SUFFICES ASSUME NEW i \in 1 .. n
                   PROVE  p[i] \in Seq(Symbols)
      OBVIOUS
    <3>2. o[h[i]] \in Seq(Symbols)
      BY <2>4
    <3>3. <<",">> \o o[h[i]] \in Seq(Symbols)
      BY <2>3, <3>2, ConcatProperties
    <3> QED BY <2>2, <3>2, <3>3
  <2>6. p = [i \in 1 .. n |-> p[i]]
    BY <2>1 DEF Pieces
  <2> HIDE DEF p, n
  <2> QED BY <1>1, <2>1, <2>5, <2>6
<1> HIDE DEF h, n, p
<1>6. PICK F \in [0 .. Len(p) -> Seq(Symbols)] :
        /\ F[0] = <<>>
        /\ \A j \in 1 .. Len(p) : F[j] = F[j - 1] \o p[j]
        /\ FlattenSeq(p) = F[Len(p)]
  BY <1>5, Flattening
<1> HIDE DEF From
<1> DEFINE T == {i \in Nat : i <= n => \E t : Takes(s, F[i], t) /\ From(i, t)}
<1>7. 0 \in T
  <2>1. From(0, s)
    BY <1>2 DEF From
  <2> QED BY <1>6, <2>1, TakesNone
<1>8. ASSUME NEW i \in Nat, i \in T
      PROVE  i + 1 \in T
  <2>1. SUFFICES ASSUME i + 1 <= n
                 PROVE  \E t : Takes(s, F[i + 1], t) /\ From(i + 1, t)
    OBVIOUS
  <2>2. PICK t : Takes(s, F[i], t) /\ From(i, t)
    BY <1>1, <1>8, <2>1
  <2> DEFINE j == i + 1
  <2>3. j \in 1 .. n /\ j - 1 = i
    BY <1>1, <2>1
  <2> HIDE DEF j
  <2>4. PICK u : Takes(t, p[j], u) /\ From(j, u)
    BY <1>4, <2>2, <2>3
  <2>5. F[j] = F[i] \o p[j]
    BY <1>5, <1>6, <2>3
  <2>6. F[i] \in Seq(Symbols) /\ p[j] \in Seq(Symbols)
    <3>1. i \in 0 .. Len(p) /\ j \in 1 .. n
      BY <1>1, <1>5, <2>1, <2>3
    <3> QED BY <1>5, <1>6, <3>1
  <2>7. Takes(s, F[j], u)
    BY <2>2, <2>4, <2>5, <2>6, TakesMore
  <2> QED BY <2>4, <2>7 DEF j
<1>9. n \in T
  <2> HIDE DEF T
  <2> QED BY <1>1, <1>7, <1>8, Induction
<1>10. PICK t : Takes(s, F[n], t) /\ From(n, t)
  BY <1>9
<1> QED BY <1>3, <1>5, <1>6, <1>10 DEF From, h, n, p

\* The text of any node of a value, from those of what it holds.
LEMMA NodeBack ==
    ASSUME NEW v, IsTree(v), NEW o, Outputs(o, v), NEW k \in 1 .. Len(v),
           \A j \in k + 1 .. Len(v) : ReadsBack(v, o, j)
    PROVE  ReadsBack(v, o, k)
<1> DEFINE h == Held(v, k)
           a == Item(v, k)
           b == Body(v, o, k)
<1>1. v \in Seq(JsonNodes) /\ Len(v) \in Nat \ {0} /\ DOMAIN v = 1 .. Len(v) /\ v[k] \in JsonNodes
  BY OfTree
<1>2. o[k] = a \o b
  BY <1>1 DEF Outputs
<1>3. \A i \in 1 .. Len(h) : ReadsBack(v, o, h[i])
  <2>1. SUFFICES ASSUME NEW i \in 1 .. Len(h)
                 PROVE  h[i] \in k + 1 .. Len(v)
    OBVIOUS
  <2>2. h \in Seq(1 .. Len(v)) /\ DOMAIN h = 1 .. Len(h) /\ \A x \in DOMAIN h : v[h[x]].holder = k
    BY <1>1, HeldInOrder
  <2>3. h[i] \in 1 .. Len(v) /\ v[h[i]].holder = k
    BY <2>2
  <2> DEFINE c == h[i]
  <2> HIDE DEF c, h
  <2>4. c # 1
    BY <2>3, OfTree DEF c
  <2>5. v[c].holder \in 1 .. c - 1
    BY <1>1, <2>3, <2>4, OfTree DEF c
  <2> QED BY <1>1, <2>3, <2>5 DEF c
<1>4. a \in Seq(Symbols)
  <2>1. ":" \in Symbols
    BY DEF Symbols, Punctuators
  <2>2. v[k].name # "none" => v[k].name \in Symbols
    BY <1>1, OfNode DEF Symbols
  <2>3. <<>> \in Seq(Symbols)
    OBVIOUS
  <2>4. v[k].name # "none" => <<v[k].name>> \o <<":">> \in Seq(Symbols) /\ <<v[k].name>> \o <<":">> = <<v[k].name, ":">>
    <3> DEFINE c == v[k].name
    <3> HIDE DEF c
    <3> QED BY <2>1, <2>2, TwoTokens, ConcatProperties DEF c
  <2> QED BY <2>3, <2>4 DEF Item
<1>5. CASE v[k].type \notin Compounds
  <2>1. b = <<v[k].token>>
    BY <1>5 DEF Body, Compounds
  <2>2. b \in Seq(Symbols)
    <3>1. v[k].token \in Symbols
      BY <1>1, OfNode
    <3> QED BY <2>1, <3>1, TwoTokens
  <2> HIDE DEF a, b
  <2>3. ASSUME NEW r, NEW m, Before(r, v, k), Whole(v, k, m)
        PROVE  \E s : Takes(r, o[k], s) /\ After(s, r, v, k, m)
    <3>1. m = k
      <4>1. \A j \in 1 .. Len(v) : v[j].holder # k
        <5>1. SUFFICES ASSUME NEW j \in 1 .. Len(v), v[j].holder = k
                       PROVE  FALSE
          OBVIOUS
        <5>2. j # 1
          BY <1>1, <5>1, OfTree
        <5>3. v[v[j].holder].type \in Compounds
          BY <1>1, <5>1, <5>2, OfTree
        <5> QED BY <1>5, <5>1, <5>3
      <4> QED BY <2>3, <4>1, WholeOfNone
    <3>2. PICK s : Takes(r, a, s) /\ AtNode(s, v, k) /\ s.stack = r.stack
      BY <2>3, NameBack DEF a
    <3>3. PICK t : Takes(s, b, t) /\ After(t, s, v, k, k)
      BY <1>5, <2>1, <3>2, LeafBack
    <3>4. Takes(r, o[k], t)
      BY <1>2, <1>4, <2>2, <3>2, <3>3, TakesMore
    <3>5. After(t, r, v, k, m)
      BY <3>1, <3>2, <3>3 DEF After
    <3> QED BY <3>4, <3>5
  <2>4. o[k] \in Seq(Symbols)
    BY <1>2, <1>4, <2>2, ConcatProperties
  <2> QED BY <2>3, <2>4 DEF ReadsBack
<1>6. CASE v[k].type \in Compounds
  <2> DEFINE p == Pieces(v, o, k)
             x == <<Opening(v[k])>>
             y == FlattenSeq(p)
             z == <<Closing(v[k])>>
  <2>1. b = (x \o y) \o z
    BY <1>6 DEF Body, Compounds, Composite, Pieces
  <2>2. \A i \in 1 .. Len(h) : p[i] \in Seq(Symbols)
    <3>1. DOMAIN h = 1 .. Len(h)
      BY <1>1, HeldInOrder
    <3>2. \A i \in 1 .. Len(h) : o[h[i]] \in Seq(Symbols)
      BY <1>3 DEF ReadsBack
    <3>3. <<",">> \in Seq(Symbols)
      BY TwoTokens DEF Symbols, Punctuators
    <3>4. SUFFICES ASSUME NEW i \in 1 .. Len(h)
                   PROVE  p[i] \in Seq(Symbols)
      OBVIOUS
    <3>5. p[i] = IF i = 1 THEN o[h[i]] ELSE <<",">> \o o[h[i]]
      BY <3>1 DEF Pieces, Items
    <3> HIDE DEF h, p
    <3>6. o[h[i]] \in Seq(Symbols)
      BY <3>2
    <3>7. <<",">> \o o[h[i]] \in Seq(Symbols)
      BY <3>3, <3>6, ConcatProperties
    <3> QED BY <3>5, <3>6, <3>7
  <2>3. y \in Seq(Symbols)
    <3>1. DOMAIN p = 1 .. Len(h) /\ Len(h) \in Nat
      BY <1>1, HeldInOrder DEF Pieces, Items
    <3>2. p = [i \in 1 .. Len(h) |-> p[i]]
      BY <3>1 DEF Pieces
    <3> DEFINE n == Len(h)
    <3> HIDE DEF p, n
    <3>3. p \in Seq(Seq(Symbols))
      BY <2>2, <3>1, <3>2 DEF n
    <3> QED BY <3>3, Places
  <2>4. x \in Seq(Symbols) /\ z \in Seq(Symbols)
    <3>1. Opening(v[k]) \in Symbols /\ Closing(v[k]) \in Symbols
      BY DEF Opening, Closing, Symbols, Punctuators
    <3> QED BY <3>1, TwoTokens
  <2> HIDE DEF a, b, p, x, y, z, h
  <2>5. x \o y \in Seq(Symbols)
    BY <2>3, <2>4, ConcatProperties
  <2>6. b \in Seq(Symbols)
    BY <2>1, <2>4, <2>5, ConcatProperties
  <2>7. ASSUME NEW r, NEW m, Before(r, v, k), Whole(v, k, m)
        PROVE  \E s : Takes(r, o[k], s) /\ After(s, r, v, k, m)
    <3>1. PICK s : Takes(r, a, s) /\ AtNode(s, v, k) /\ s.stack = r.stack
      BY <2>7, NameBack DEF a
    <3>2. PICK t : Takes(s, x, t) /\ Inside(t, s, v, k, k, 0)
      BY <1>6, <3>1, OpeningBack DEF x
    <3>3. PICK u : Takes(t, y, u) /\ Inside(u, s, v, k, m, Len(h))
      BY <1>3, <1>6, <2>7, <3>2, AllHeldBack DEF y, p, h
    <3>4. PICK w : Takes(u, z, w) /\ After(w, s, v, k, m)
      <4>1. m \in k .. Len(v) /\ s \in Readers
        BY <2>7, <3>1 DEF Whole, AtNode
      <4> QED BY <1>6, <3>3, <4>1, ClosingBack DEF z
    <3>5. Takes(s, x \o y, u)
      BY <2>3, <2>4, <3>2, <3>3, TakesMore
    <3>6. Takes(s, b, w)
      BY <2>1, <2>4, <2>5, <3>4, <3>5, TakesMore
    <3>7. Takes(r, o[k], w)
      BY <1>2, <1>4, <2>6, <3>1, <3>6, TakesMore
    <3>8. After(w, r, v, k, m)
      BY <3>1, <3>4 DEF After
    <3> QED BY <3>7, <3>8
  <2>8. o[k] \in Seq(Symbols)
    BY <1>2, <1>4, <2>6, ConcatProperties
  <2> QED BY <2>7, <2>8 DEF ReadsBack
<1> QED BY <1>5, <1>6

\* The reader takes the text of a value and has the value.
LEMMA ValueBack ==
    ASSUME NEW v, IsTree(v)
    PROVE  /\ WriteText(v) \in Seq(Symbols)
           /\ \E s : Takes(NewReader, WriteText(v), s) /\ s.expect = "done" /\ s.nodes = v
<1>1. PICK o : Outputs(o, v) /\ WriteText(v) = o[1]
  BY Writing
<1> DEFINE n == Len(v)
           T == {d \in Nat : \A k \in n - d + 1 .. n : k >= 1 => ReadsBack(v, o, k)}
<1>2. n \in Nat \ {0} /\ v \in Seq(JsonNodes)
  BY OfTree
<1> HIDE DEF n
<1>3. 0 \in T
  BY <1>2
<1>4. ASSUME NEW d \in Nat, d \in T
      PROVE  d + 1 \in T
  <2>1. SUFFICES ASSUME NEW k \in n - (d + 1) + 1 .. n, k >= 1
                 PROVE  ReadsBack(v, o, k)
    OBVIOUS
  <2>2. k \in 1 .. n /\ \A j \in k + 1 .. n : j \in n - d + 1 .. n /\ j >= 1
    BY <1>2, <2>1
  <2>3. \A j \in k + 1 .. n : ReadsBack(v, o, j)
    BY <1>4, <2>2
  <2> QED BY <1>1, <2>2, <2>3, NodeBack DEF n
<1>5. n \in T
  <2> HIDE DEF T
  <2> QED BY <1>2, <1>3, <1>4, Induction
<1>6. ReadsBack(v, o, 1)
  <2>1. 1 \in n - n + 1 .. n /\ 1 >= 1
    BY <1>2
  <2> QED BY <1>5, <2>1
<1>7. Whole(v, 1, n)
  BY WholeValue DEF n
<1>8. Before(NewReader, v, 1)
  <2>1. SubSeq(v, 1, 1 - 1) = <<>>
    BY <1>2
  <2>2. NewReader \in Readers
    BY DEF NewReader, Readers, Expected
  <2>3. v[1].holder = 0
    BY OfTree
  <2> QED BY <2>1, <2>2, <2>3 DEF Before, NewReader
<1>9. PICK s : Takes(NewReader, o[1], s) /\ After(s, NewReader, v, 1, n)
  BY <1>6, <1>7, <1>8 DEF ReadsBack
<1>10. SubSeq(v, 1, n) = v
  BY <1>2 DEF n
<1>11. s.expect = "done" /\ s.nodes = v
  BY <1>9, <1>10 DEF After, Follows
<1>12. o[1] \in Seq(Symbols)
  BY <1>6 DEF ReadsBack
<1> QED BY <1>1, <1>9, <1>11, <1>12

-----------------------------------------------------------------------------
(* Reading a text *)

\* R is the reader, r at first, before and after each token of x.
Reads(R, r, x) == R[0] = r /\ \A i \in 1 .. Len(x) : R[i] = Token(R[i - 1], x[i])

\* There is one reader after each token, as each needs only the one before.
LEMMA Reading ==
    ASSUME NEW S, NEW x \in Seq(S)
    PROVE  \E R : Reads(R, NewReader, x) /\ ReadText(x) = R[Len(x)]
<1> DEFINE n == Len(x)
           Upto(R, m) == R[0] = NewReader /\ \A i \in 1 .. m : R[i] = Token(R[i - 1], x[i])
           T == {m \in Nat : m <= n => \E R : Upto(R, m)}
<1>1. n \in Nat
  OBVIOUS
<1>2. 0 \in T
  <2> DEFINE R == [i \in 0 .. 0 |-> NewReader]
  <2>1. R[0] = NewReader /\ 1 .. 0 = {}
    OBVIOUS
  <2> HIDE DEF R
  <2>2. Upto(R, 0)
    BY <2>1
  <2> QED BY <2>2
<1>3. ASSUME NEW m \in Nat, m \in T
      PROVE  m + 1 \in T
  <2>1. SUFFICES ASSUME m + 1 <= n
                 PROVE  \E R : Upto(R, m + 1)
    OBVIOUS
  <2>2. PICK F : Upto(F, m)
    BY <1>1, <1>3, <2>1
  <2> DEFINE R == [i \in 0 .. m + 1 |-> IF i <= m THEN F[i] ELSE Token(F[m], x[i])]
  <2>3. \A i \in 0 .. m : R[i] = F[i]
    OBVIOUS
  <2>4. R[m + 1] = Token(F[m], x[m + 1])
    OBVIOUS
  <2> HIDE DEF R
  <2>5. ASSUME NEW i \in 1 .. m + 1
        PROVE  R[i] = Token(R[i - 1], x[i])
    <3>1. CASE i = m + 1
      <4>1. i - 1 = m /\ m \in 0 .. m
        BY <3>1
      <4> QED BY <2>3, <2>4, <3>1, <4>1
    <3>2. CASE i \in 1 .. m
      <4>1. i \in 0 .. m /\ i - 1 \in 0 .. m
        BY <3>2
      <4> QED BY <2>2, <2>3, <3>2, <4>1
    <3> QED BY <3>1, <3>2
  <2>6. R[0] = NewReader
    BY <2>2, <2>3
  <2> QED BY <2>5, <2>6
<1>4. \E R : Upto(R, n)
  <2>1. n \in T
    <3> HIDE DEF T
    <3> QED BY <1>1, <1>2, <1>3, Induction
  <2> HIDE DEF Upto
  <2> QED BY <1>1, <2>1
<1>5. PICK R : Upto(R, n)
  BY <1>4
<1> DEFINE Sets(a) == a = [i \in 0 .. n |-> IF i = 0 THEN {NewReader} ELSE {Token(r, x[i]) : r \in a[i - 1]}]
           A == [i \in 0 .. n |-> {R[i]}]
           after == CHOOSE a : Sets(a)
<1>6. Sets(A)
  <2>1. ASSUME NEW i \in 0 .. n
        PROVE  A[i] = IF i = 0 THEN {NewReader} ELSE {Token(r, x[i]) : r \in A[i - 1]}
    <3>1. CASE i = 0
      BY <1>5, <3>1
    <3>2. CASE i # 0
      <4>1. A[i - 1] = {R[i - 1]} /\ A[i] = {R[i]} /\ i \in 1 .. n
        BY <1>1, <3>2
      <4>2. R[i] = Token(R[i - 1], x[i])
        BY <1>5, <4>1
      <4> HIDE DEF A
      <4> QED BY <3>2, <4>1, <4>2
    <3> QED BY <3>1, <3>2
  <2>2. A = [i \in 0 .. n |-> A[i]]
    OBVIOUS
  <2> HIDE DEF A
  <2> QED BY <2>1, <2>2
<1>7. Sets(after)
  <2> HIDE DEF Sets, A
  <2> QED BY <1>6
<1>8. ReadText(x) = CHOOSE r \in after[n] : TRUE
  BY DEF ReadText
<1> HIDE DEF after, A
<1> DEFINE W == {i \in Nat : i <= n => after[i] = {R[i]}}
<1>9. 0 \in W
  <2>1. 0 \in 0 .. n
    BY <1>1
  <2> QED BY <1>5, <1>7, <2>1
<1>10. ASSUME NEW i \in Nat, i \in W
       PROVE  i + 1 \in W
  <2>1. SUFFICES ASSUME i + 1 <= n
                 PROVE  after[i + 1] = {R[i + 1]}
    OBVIOUS
  <2> DEFINE j == i + 1
  <2>2. j \in 0 .. n /\ j # 0 /\ j \in 1 .. n /\ j - 1 = i
    BY <1>1, <2>1
  <2>3. after[i] = {R[i]}
    BY <1>1, <1>10, <2>1
  <2> HIDE DEF j
  <2>4. after[j] = {Token(r, x[j]) : r \in after[i]}
    BY <1>7, <2>2
  <2>5. R[j] = Token(R[i], x[j])
    BY <1>5, <2>2
  <2>6. after[j] = {R[j]}
    BY <2>3, <2>4, <2>5
  <2> QED BY <2>6 DEF j
<1>11. after[n] = {R[n]}
  <2>1. Nat \subseteq W
    <3> HIDE DEF W
    <3> QED BY <1>9, <1>10, Induction
  <2> QED BY <1>1, <2>1
<1>12. ReadText(x) = R[n]
  BY <1>8, <1>11
<1> QED BY <1>5, <1>12 DEF Reads

\* A token that changes nothing.
LEMMA TokenIgnored ==
    ASSUME NEW r, NEW c, r.expect \in Ended \/ c \in Skipped
    PROVE  Token(r, c) = r
<1>1. CASE r.expect \in Ended
  <2>1. /\ r.expect \in {"done", "failed"} /\ ~ AtValue(r) /\ ~ Closes(r, c)
        /\ r.expect \notin {"member", "pair"} /\ r.expect # "colon" /\ r.expect # "next"
    BY <1>1 DEF Ended, AtValue, Closes
  <2> QED BY <2>1, Zenon DEF Token
<1>2. CASE c \in Skipped
  <2>1. /\ c \notin Strings \cup Literals /\ ~ (c = "{") /\ ~ (c = "[") /\ ~ (c = ":") /\ ~ (c = ",")
        /\ ~ (c = "]") /\ ~ (c = "}") /\ c \notin Strings
    BY <1>2, Kinds DEF Skipped, Punctuators
  <2> QED BY <1>2, <2>1, Zenon DEF Token, Closes
<1> QED BY <1>1, <1>2

\* When the value is complete, or a mistake was found, the rest is not looked at.
LEMMA RestIgnored ==
    ASSUME NEW S, NEW x \in Seq(S), NEW r, NEW R, Reads(R, r, x),
           NEW i \in 0 .. Len(x), R[i].expect \in Ended
    PROVE  R[Len(x)] = R[i]
<1> DEFINE n == Len(x)
           T == {d \in Nat : i + d <= n => R[i + d] = R[i]}
<1>1. n \in Nat
  OBVIOUS
<1> HIDE DEF n
<1>2. 0 \in T
  BY <1>1 DEF n
<1>3. ASSUME NEW d \in Nat, d \in T
      PROVE  d + 1 \in T
  <2>1. SUFFICES ASSUME i + (d + 1) <= n
                 PROVE  R[i + (d + 1)] = R[i]
    OBVIOUS
  <2> DEFINE j == i + (d + 1)
  <2>2. j \in 1 .. n /\ j - 1 = i + d /\ i + d <= n
    BY <1>1, <2>1 DEF n
  <2> HIDE DEF j
  <2>3. R[j - 1] = R[i]
    BY <1>3, <2>2
  <2>4. R[j] = Token(R[i], x[j])
    BY <2>2, <2>3 DEF Reads, n
  <2>5. Token(R[i], x[j]) = R[i]
    BY TokenIgnored
  <2> QED BY <2>4, <2>5 DEF j
<1>4. Nat \subseteq T
  <2> HIDE DEF T
  <2> QED BY <1>2, <1>3, Induction
<1>5. n - i \in Nat /\ i + (n - i) = n
  BY <1>1 DEF n
<1> QED BY <1>1, <1>4, <1>5 DEF n

\* A text that starts with what a reader takes until the value is complete.
LEMMA ReadAtStart ==
    ASSUME NEW S, NEW x \in Seq(S), NEW y \in Seq(S), Len(x) <= Len(y),
           \A i \in 1 .. Len(x) : y[i] = x[i],
           NEW s, Takes(NewReader, x, s), s.expect = "done"
    PROVE  ReadText(y) = s
<1> DEFINE n == Len(x)
<1>1. PICK R : Reads(R, NewReader, y) /\ ReadText(y) = R[Len(y)]
  BY Reading
<1>2. PICK P : /\ P[0] = NewReader /\ P[n] = s
               /\ \A i \in 1 .. n : P[i] = Token(P[i - 1], x[i])
  BY DEF Takes
<1>3. n \in Nat /\ Len(y) \in Nat /\ n \in 0 .. Len(y)
  OBVIOUS
<1> DEFINE T == {i \in Nat : i <= n => R[i] = P[i]}
<1> HIDE DEF n
<1>4. 0 \in T
  BY <1>1, <1>2 DEF Reads
<1>5. ASSUME NEW i \in Nat, i \in T
      PROVE  i + 1 \in T
  <2>1. SUFFICES ASSUME i + 1 <= n
                 PROVE  R[i + 1] = P[i + 1]
    OBVIOUS
  <2> DEFINE j == i + 1
  <2>2. j \in 1 .. n /\ j \in 1 .. Len(y) /\ j - 1 = i
    BY <1>3, <2>1
  <2>3. R[i] = P[i]
    BY <1>3, <1>5, <2>1
  <2> HIDE DEF j
  <2>4. R[j] = Token(R[i], y[j])
    BY <1>1, <2>2 DEF Reads
  <2>5. P[j] = Token(P[i], x[j])
    BY <1>2, <2>2
  <2>6. y[j] = x[j]
    BY <2>2 DEF n
  <2>7. R[j] = P[j]
    BY <2>3, <2>4, <2>5, <2>6
  <2> QED BY <2>7 DEF j
<1>6. R[n] = s
  <2>1. Nat \subseteq T
    <3> HIDE DEF T
    <3> QED BY <1>4, <1>5, Induction
  <2> QED BY <1>2, <1>3, <2>1
<1>7. R[Len(y)] = R[n]
  <2>1. R[n].expect \in Ended
    BY <1>6 DEF Ended
  <2> QED BY <1>1, <1>3, <2>1, RestIgnored
<1> QED BY <1>1, <1>6, <1>7

\* A value is written and read again, whatever follows it.
THEOREM ValueRoundTrip ==
    ASSUME NEW v, IsTree(v), NEW f, f \in Seq(Range(f))
    PROVE  /\ WriteText(v) # <<>>
           /\ IsRead(WriteText(v) \o f) /\ ValueOf(WriteText(v) \o f) = v
<1> DEFINE x == WriteText(v)
           S == Symbols \cup Range(f)
<1>1. x \in Seq(Symbols)
  BY ValueBack
<1>2. PICK s : Takes(NewReader, x, s) /\ s.expect = "done" /\ s.nodes = v
  BY ValueBack
<1> HIDE DEF x
<1>3. x \in Seq(S) /\ f \in Seq(S)
  BY <1>1, Wider
<1> HIDE DEF S
<1>4. x \o f \in Seq(S) /\ Len(x) <= Len(x \o f) /\ \A i \in 1 .. Len(x) : (x \o f)[i] = x[i]
  BY <1>3
<1>5. ReadText(x \o f) = s
  BY <1>2, <1>3, <1>4, ReadAtStart
<1>6. x # <<>>
  <2>1. SUFFICES ASSUME x = <<>>
                 PROVE  FALSE
    OBVIOUS
  <2>2. Len(x) = 0
    BY <2>1
  <2>3. s = NewReader
    BY <1>2, <2>2 DEF Takes
  <2> QED BY <1>2, <2>3 DEF NewReader
<1> QED BY <1>2, <1>5, <1>6 DEF IsRead, ValueOf, x

-----------------------------------------------------------------------------
(* What a reader has is a value as far as it goes *)

\* The ways a reader can go on.
LEMMA StepKinds ==
    ASSUME NEW r, NEW c, r.expect \notin Ended, c \notin Skipped, r.expect \in Expected,
           DOMAIN r = DOMAIN NewReader, r = [i \in DOMAIN r |-> r[i]], Token(r, c).expect # "failed"
    PROVE  \/ AtValue(r) /\ c \in Strings \cup Literals
           \/ AtValue(r) /\ c \in Openings
           \/ Closes(r, c)
           \/ r.expect \in {"member", "pair"} /\ c \in Strings
           \/ r.expect = "colon" /\ c = ":"
           \/ r.expect = "next" /\ c = ","
<1> SUFFICES ASSUME /\ ~ (AtValue(r) /\ c \in Strings \cup Literals)
                    /\ ~ (AtValue(r) /\ c \in Openings)
                    /\ ~ Closes(r, c)
                    /\ ~ (r.expect \in {"member", "pair"} /\ c \in Strings)
                    /\ ~ (r.expect = "colon" /\ c = ":")
                    /\ ~ (r.expect = "next" /\ c = ",")
             PROVE  FALSE
  OBVIOUS
<1>1. Token(r, c) = [r EXCEPT !.expect = "failed"]
  BY TokenFails DEF Openings
<1>2. "expect" \in DOMAIN r
  BY DEF NewReader
<1>3. [r EXCEPT !.expect = "failed"].expect = "failed"
  BY <1>2
<1> QED BY <1>1, <1>3

\* A node of tokens in T, as one of all.
LEMMA MoreTokens ==
    ASSUME NEW T, NEW e \in NodesOf(T, Nat)
    PROVE  e \in JsonNodes
<1>1. /\ e \in [type : Compounds \cup Literals \cup {"str"}, holder : Nat,
                token : T, name : (T \cap Strings) \cup {"none"}]
      /\ NodeOK(e)
  BY DEF NodesOf
<1>2. e.token \in Symbols
  <2>1. e.token = "{" \/ e.token = "[" \/ e.token \in Strings \cup Literals
    <3>1. CASE e.token # "{" /\ e.token # "["
      BY <1>1, <3>1, Zenon DEF NodeOK
    <3> QED BY <3>1
  <2> QED BY <2>1 DEF Symbols, Punctuators
<1>3. e.name \in (Symbols \cap Strings) \cup {"none"}
  BY <1>1 DEF Symbols
<1>4. e = [type |-> e.type, holder |-> e.holder, token |-> e.token, name |-> e.name]
  BY <1>1
<1>5. e.type \in Compounds \cup Literals \cup {"str"} /\ e.holder \in Nat
  BY <1>1
<1>6. e \in [type : Compounds \cup Literals \cup {"str"}, holder : Nat,
             token : Symbols, name : (Symbols \cap Strings) \cup {"none"}]
  BY <1>2, <1>3, <1>4, <1>5
<1> QED BY <1>1, <1>6 DEF JsonNodes, NodesOf

\* The compounds that are open, from the outermost one to the current one.
Chain(r) == Append(r.stack, r.current)

\* ch are nodes in which the last node is, and the next one may be.
Around(ch, nodes) ==
    /\ ch \in Seq(Nat) /\ Len(ch) >= 1 /\ ch[1] = 1
    /\ \A i \in 1 .. Len(ch) : /\ ch[i] \in 1 .. Len(nodes) /\ nodes[ch[i]].type \in Compounds
                               /\ \A j \in ch[i] + 1 .. Len(nodes) : nodes[j].holder >= ch[i]
    /\ \A i, j \in 1 .. Len(ch) : i < j => ch[i] < ch[j]

\* A node more, held by the current compound.
LEMMA AroundMore ==
    ASSUME NEW S, NEW nodes \in Seq(S), NEW ch, Around(ch, nodes), NEW e \in S, e.holder = ch[Len(ch)]
    PROVE  Around(ch, Append(nodes, e))
<1> DEFINE n == Len(nodes)
           a == Append(nodes, e)
<1>1. n \in Nat /\ Len(a) = n + 1 /\ a[n + 1] = e /\ \A j \in 1 .. n : a[j] = nodes[j]
  BY AppendProperties
<1>2. ch \in Seq(Nat) /\ Len(ch) >= 1 /\ ch[1] = 1 /\ \A i, j \in 1 .. Len(ch) : i < j => ch[i] < ch[j]
  BY DEF Around
<1> HIDE DEF a
<1>3. ASSUME NEW i \in 1 .. Len(ch)
      PROVE  /\ ch[i] \in 1 .. n + 1 /\ a[ch[i]].type \in Compounds
             /\ \A j \in ch[i] + 1 .. n + 1 : a[j].holder >= ch[i]
  <2>1. ch[i] \in 1 .. n /\ nodes[ch[i]].type \in Compounds /\ \A j \in ch[i] + 1 .. n : nodes[j].holder >= ch[i]
    BY DEF Around
  <2> DEFINE c == ch[i]
             l == Len(ch)
  <2>2. l \in Nat /\ c \in 1 .. n
    BY <1>2, <2>1
  <2>3. ch[l] >= c
    <3>1. ch[l] \in Nat
      BY <1>2, <2>2
    <3>2. CASE i = l
      BY <2>2, <3>1, <3>2
    <3>3. CASE i < l
      <4>1. ch[i] < ch[l]
        BY <1>2, <2>2, <3>3
      <4> QED BY <2>2, <3>1, <4>1
    <3> QED BY <2>2, <3>2, <3>3
  <2> HIDE DEF c, l
  <2>4. a[c].type \in Compounds /\ c \in 1 .. n + 1
    BY <1>1, <2>1, <2>2 DEF c
  <2>5. ASSUME NEW j \in c + 1 .. n + 1
        PROVE  a[j].holder >= c
    <3>1. CASE j = n + 1
      BY <1>1, <2>3, <3>1 DEF l
    <3>2. CASE j # n + 1
      <4>1. j \in c + 1 .. n /\ j \in 1 .. n
        BY <1>1, <2>2, <3>2
      <4> QED BY <1>1, <2>1, <4>1 DEF c
    <3> QED BY <3>1, <3>2
  <2> QED BY <2>4, <2>5 DEF c
<1> QED BY <1>1, <1>2, <1>3 DEF Around, a

\* The first, a compound.
LEMMA AroundFirst ==
    ASSUME NEW S, NEW e \in S, e.type \in Compounds
    PROVE  Around(Append(<<>>, 1), Append(<<>>, e))
<1> DEFINE ch == Append(<<>>, 1)
           a == Append(<<>>, e)
<1>1. ch \in Seq(Nat) /\ Len(ch) = 1 /\ ch[1] = 1
  BY AppendProperties, EmptySeq
<1>2. Len(a) = 1 /\ a[1] = e
  BY AppendProperties, EmptySeq
<1> HIDE DEF ch, a
<1> QED BY <1>1, <1>2 DEF Around, ch, a

\* A node more that is a compound, and the current one from now on.
LEMMA AroundDeeper ==
    ASSUME NEW S, NEW nodes \in Seq(S), NEW ch, Around(ch, nodes),
           NEW e \in S, e.holder = ch[Len(ch)], e.type \in Compounds
    PROVE  Around(Append(ch, Len(nodes) + 1), Append(nodes, e))
<1> DEFINE n == Len(nodes)
           a == Append(nodes, e)
           d == Append(ch, n + 1)
           l == Len(ch)
<1>1. n \in Nat /\ Len(a) = n + 1 /\ a[n + 1] = e
  BY AppendProperties
<1>2. Around(ch, a)
  BY AroundMore
<1>3. ch \in Seq(Nat) /\ l \in Nat /\ l >= 1 /\ ch[1] = 1 /\ \A i, j \in 1 .. l : i < j => ch[i] < ch[j]
  BY DEF Around
<1>4. \A i \in 1 .. l : ch[i] \in 1 .. n
  BY DEF Around
<1>5. d \in Seq(Nat) /\ Len(d) = l + 1 /\ d[l + 1] = n + 1 /\ \A i \in 1 .. l : d[i] = ch[i]
  <2>1. n + 1 \in Nat
    BY <1>1
  <2> HIDE DEF n, l
  <2> QED BY <1>3, <2>1, AppendProperties DEF l
<1> HIDE DEF n, a, d, l
<1>6. ASSUME NEW i \in 1 .. l + 1
      PROVE  /\ d[i] \in 1 .. n + 1 /\ a[d[i]].type \in Compounds
             /\ \A j \in d[i] + 1 .. n + 1 : a[j].holder >= d[i]
  <2>1. CASE i = l + 1
    BY <1>1, <1>5, <2>1
  <2>2. CASE i # l + 1
    <3>1. i \in 1 .. l /\ d[i] = ch[i]
      BY <1>3, <1>5, <2>2
    <3> QED BY <1>1, <1>2, <3>1 DEF Around, l
  <2> QED BY <2>1, <2>2
<1>7. ASSUME NEW i \in 1 .. l + 1, NEW j \in 1 .. l + 1, i < j
      PROVE  d[i] < d[j]
  <2>1. i \in 1 .. l /\ d[i] = ch[i] /\ ch[i] \in 1 .. n
    BY <1>3, <1>4, <1>5, <1>7
  <2>2. CASE j = l + 1
    BY <1>1, <1>5, <2>1, <2>2
  <2>3. CASE j # l + 1
    <3>1. j \in 1 .. l /\ d[j] = ch[j]
      BY <1>3, <1>5, <2>3
    <3> QED BY <1>3, <1>7, <2>1, <3>1
  <2> QED BY <2>2, <2>3
<1>8. d[1] = 1 /\ Len(d) >= 1
  BY <1>3, <1>5
<1> QED BY <1>1, <1>5, <1>6, <1>7, <1>8 DEF Around, a, d, n

\* The current compound closed.
LEMMA AroundLess ==
    ASSUME NEW nodes, NEW st \in Seq(Nat), NEW k \in Nat, Around(Append(st, k), nodes), k # 1
    PROVE  /\ Around(st, nodes) /\ Len(st) >= 1
           /\ \A i \in 1 .. Len(st) : st[i] < k
<1> DEFINE ch == Append(st, k)
           l == Len(st)
<1>1. ch \in Seq(Nat) /\ Len(ch) = l + 1 /\ ch[l + 1] = k /\ l \in Nat /\ \A i \in 1 .. l : ch[i] = st[i]
  BY AppendProperties
<1> HIDE DEF ch, l
<1>2. ch[1] = 1 /\ \A i, j \in 1 .. l + 1 : i < j => ch[i] < ch[j]
  BY <1>1 DEF Around, ch
<1>3. \A i \in 1 .. l + 1 : /\ ch[i] \in 1 .. Len(nodes) /\ nodes[ch[i]].type \in Compounds
                            /\ \A j \in ch[i] + 1 .. Len(nodes) : nodes[j].holder >= ch[i]
  BY <1>1 DEF Around, ch
<1>4. l >= 1
  BY <1>1, <1>2
<1>5. st[1] = 1
  BY <1>1, <1>2, <1>4
<1>6. \A i \in 1 .. l : i \in 1 .. l + 1
  BY <1>1
<1>7. \A i \in 1 .. l : st[i] < k
  BY <1>1, <1>2, <1>6
<1>8. \A i, j \in 1 .. l : i < j => st[i] < st[j]
  BY <1>1, <1>2, <1>6
<1>9. \A i \in 1 .. l : /\ st[i] \in 1 .. Len(nodes) /\ nodes[st[i]].type \in Compounds
                        /\ \A j \in st[i] + 1 .. Len(nodes) : nodes[j].holder >= st[i]
  BY <1>1, <1>3, <1>6
<1> QED BY <1>4, <1>5, <1>7, <1>8, <1>9 DEF Around, l

ReadersOf(T) ==
    [expect : Expected, nodes : Seq(NodesOf(T, Nat)), current : Nat, stack : Seq(Nat),
     name : (T \cap Strings) \cup {"none"}]

\* What holds of a reader that has made no mistake in a text of tokens in T.
Sound(r, T) ==
    /\ r \in ReadersOf(T)
    /\ \A k \in 1 .. Len(r.nodes) : HolderOK(r.nodes, k)
    /\ IF r.nodes = <<>> THEN r.expect = "value" /\ r.current = 0 /\ r.stack = <<>>
       ELSE r.expect # "done" => Around(Chain(r), r.nodes)
    /\ r.expect = "element" => ~ InObject(r)
    /\ r.expect \in {"member", "pair", "colon"} => InObject(r)
    /\ r.expect = "colon" \/ (r.expect = "value" /\ InObject(r)) => r.name \in Strings

\* And of how many tokens it has needed, white space aside.
Sized(r, i) ==
    /\ r.expect = "done" => i >= 2 * Len(r.nodes) - 1
    /\ r.expect = "next" => i >= 2 * Len(r.nodes) - Len(Chain(r)) - 1
    /\ r.expect \notin {"done", "next"} /\ r.nodes # <<>> => i >= 2 * Len(r.nodes) - Len(Chain(r))

\* A reader that has taken no token is sound.
LEMMA SoundAtFirst == \A T : Sound(NewReader, T) /\ Sized(NewReader, 0)
<1> SUFFICES ASSUME NEW T PROVE Sound(NewReader, T) /\ Sized(NewReader, 0)
  OBVIOUS
<1>1. <<>> \in Seq(NodesOf(T, Nat)) /\ <<>> \in Seq(Nat) /\ 1 .. Len(<<>>) = {}
  OBVIOUS
<1>2. NewReader \in ReadersOf(T)
  BY <1>1 DEF NewReader, ReadersOf, Expected
<1>3. ~ InObject(NewReader)
  BY DEF InObject, NewReader
<1> QED BY <1>1, <1>2, <1>3 DEF Sound, Sized, NewReader

\* The current compound is the last of the chain.
LEMMA OfChain ==
    ASSUME NEW T, NEW r, Sound(r, T)
    PROVE  /\ r.nodes \in Seq(NodesOf(T, Nat)) /\ r.current \in Nat /\ r.stack \in Seq(Nat)
           /\ r.name \in (T \cap Strings) \cup {"none"} /\ r.expect \in Expected
           /\ Chain(r) \in Seq(Nat) /\ Len(Chain(r)) = Len(r.stack) + 1
           /\ Chain(r)[Len(Chain(r))] = r.current
           /\ r.nodes # <<>> /\ r.expect # "done" => r.current \in 1 .. Len(r.nodes)
<1>1. /\ r.nodes \in Seq(NodesOf(T, Nat)) /\ r.current \in Nat /\ r.stack \in Seq(Nat)
      /\ r.name \in (T \cap Strings) \cup {"none"} /\ r.expect \in Expected
  BY DEF Sound, ReadersOf
<1> DEFINE ch == Chain(r)
           l == Len(ch)
<1>2. ch \in Seq(Nat) /\ Len(ch) = Len(r.stack) + 1 /\ ch[l] = r.current
  BY <1>1, AppendProperties DEF Chain
<1>3. l \in 1 .. l
  <2>1. Len(r.stack) \in Nat
    BY <1>1
  <2> HIDE DEF ch
  <2> QED BY <1>2, <2>1
<1>4. ASSUME r.nodes # <<>>, r.expect # "done"
      PROVE  r.current \in 1 .. Len(r.nodes)
  <2>1. Around(ch, r.nodes)
    BY <1>4 DEF Sound
  <2> HIDE DEF ch
  <2> QED BY <1>2, <1>3, <2>1 DEF Around
<1> QED BY <1>1, <1>2, <1>4

\* A node more keeps the value one.
LEMMA HolderKept ==
    ASSUME NEW S, NEW nodes \in Seq(S), NEW e \in S, NEW k \in 1 .. Len(nodes), HolderOK(nodes, k),
           nodes[k].holder \in Nat
    PROVE  HolderOK(Append(nodes, e), k)
<1> DEFINE n == Len(nodes)
           a == Append(nodes, e)
           h == nodes[k].holder
<1>1. n \in Nat /\ \A j \in 1 .. n : a[j] = nodes[j]
  BY AppendProperties
<1> HIDE DEF a, n, h
<1>2. a[k] = nodes[k]
  BY <1>1 DEF n
<1>3. k = 1 => h = 0 /\ nodes[k].name = "none"
  BY DEF HolderOK, h
<1>4. ASSUME k # 1
      PROVE  /\ h \in 1 .. k - 1 /\ a[h].type \in Compounds
             /\ \A j \in h + 1 .. k - 1 : a[j].holder >= h
             /\ IF a[h].type = "obj" THEN nodes[k].name \in Strings ELSE nodes[k].name = "none"
  <2>1. /\ h \in 1 .. k - 1 /\ nodes[h].type \in Compounds
        /\ \A j \in h + 1 .. k - 1 : nodes[j].holder >= h
        /\ IF nodes[h].type = "obj" THEN nodes[k].name \in Strings ELSE nodes[k].name = "none"
    BY <1>4 DEF HolderOK, h
  <2>2. \A j \in 1 .. k - 1 : j \in 1 .. n
    BY <1>1 DEF n
  <2>3. a[h] = nodes[h]
    BY <1>1, <2>1, <2>2
  <2>4. \A j \in h + 1 .. k - 1 : a[j] = nodes[j]
    <3>1. \A j \in h + 1 .. k - 1 : j \in 1 .. k - 1
      BY <1>1, <2>1
    <3> QED BY <1>1, <2>2, <3>1
  <2> QED BY <2>1, <2>3, <2>4
<1> QED BY <1>2, <1>3, <1>4 DEF HolderOK, a, h

\* The node that a reader adds next, of this type and token.
NextNode(r, type, c) ==
    [type |-> type, holder |-> r.current, token |-> c, name |-> IF InObject(r) THEN r.name ELSE "none"]

\* It is where it may be.
LEMMA NextHolder ==
    ASSUME NEW T, NEW r, Sound(r, T), AtValue(r), NEW type, NEW c,
           NextNode(r, type, c) \in NodesOf(T, Nat)
    PROVE  \A k \in 1 .. Len(r.nodes) + 1 : HolderOK(Append(r.nodes, NextNode(r, type, c)), k)
<1> DEFINE S == NodesOf(T, Nat)
           nodes == r.nodes
           n == Len(nodes)
           e == NextNode(r, type, c)
           a == Append(nodes, e)
           h == r.current
           l == Len(Chain(r))
<1>1. nodes \in Seq(S) /\ n \in Nat /\ e \in S /\ h \in Nat
  BY OfChain
<1>2. e.holder = h /\ e.name = IF InObject(r) THEN r.name ELSE "none"
  BY DEF NextNode
<1> HIDE DEF e, S
<1>3. Len(a) = n + 1 /\ a[n + 1] = e /\ \A j \in 1 .. n : a[j] = nodes[j]
  BY <1>1, AppendProperties
<1>4. ASSUME NEW k \in 1 .. n
      PROVE  HolderOK(a, k)
  <2>1. HolderOK(nodes, k)
    BY DEF Sound
  <2>2. nodes[k].holder \in Nat
    BY <1>1 DEF S, NodesOf
  <2> HIDE DEF n, nodes
  <2> QED BY <1>1, <2>1, <2>2, HolderKept DEF n
<1>5. HolderOK(a, n + 1)
  <2>1. CASE n = 0
    <3>1. nodes = <<>>
      BY <1>1, <2>1
    <3>2. h = 0 /\ ~ InObject(r)
      BY <3>1 DEF Sound, InObject
    <3> HIDE DEF a, n, h
    <3> QED BY <1>2, <1>3, <2>1, <3>2 DEF HolderOK
  <2>2. CASE n # 0
    <3>1. nodes # <<>> /\ r.expect # "done"
      BY <2>2 DEF AtValue
    <3>2. Around(Chain(r), nodes)
      BY <3>1 DEF Sound
    <3>3. Chain(r)[l] = h /\ l \in 1 .. l
      <4>1. Chain(r)[l] = h /\ l = Len(r.stack) + 1 /\ Len(r.stack) \in Nat
        BY OfChain
      <4> HIDE DEF l
      <4> QED BY <4>1
    <3> HIDE DEF l
    <3>4. h \in 1 .. n /\ nodes[h].type \in Compounds /\ \A j \in h + 1 .. n : nodes[j].holder >= h
      BY <3>2, <3>3 DEF Around, l
    <3>5. InObject(r) <=> nodes[h].type = "obj"
      BY <1>1, <3>4 DEF InObject
    <3>6. InObject(r) => r.name \in Strings
      BY DEF Sound, AtValue
    <3>7. IF nodes[h].type = "obj" THEN e.name \in Strings ELSE e.name = "none"
      BY <1>2, <3>5, <3>6
    <3> HIDE DEF a, n, h, nodes
    <3>8. a[h] = nodes[h] /\ \A j \in h + 1 .. n : a[j] = nodes[j]
      <4>1. \A j \in h + 1 .. n : j \in 1 .. n
        BY <1>1, <3>4
      <4> QED BY <1>3, <3>4, <4>1
    <3>9. h \in 1 .. n + 1 - 1 /\ n + 1 # 1 /\ n + 1 - 1 = n
      BY <1>1, <2>2, <3>4
    <3>10. /\ h \in 1 .. n /\ a[h].type \in Compounds /\ (\A j \in h + 1 .. n : a[j].holder >= h)
           /\ IF a[h].type = "obj" THEN e.name \in Strings ELSE e.name = "none"
      BY <3>4, <3>7, <3>8
    <3> DEFINE k == n + 1
    <3>11. k # 1 /\ k - 1 = n /\ a[k] = e
      BY <1>1, <1>3, <3>9
    <3> HIDE DEF k
    <3>12. HolderOK(a, k)
      BY <1>2, <3>10, <3>11 DEF HolderOK
    <3> QED BY <3>12 DEF k
  <2> QED BY <2>1, <2>2
<1>6. \A k \in 1 .. n + 1 : k \in 1 .. n \/ k = n + 1
  BY <1>1
<1> HIDE DEF a, n
<1> QED BY <1>4, <1>5, <1>6 DEF a, n, e

\* The reader after a value that holds no other.
LEMMA StepLeaf ==
    ASSUME NEW T, NEW r \in ReadersOf(T), NEW c \in T, AtValue(r), c \in Strings \cup Literals
    PROVE  LET e == NextNode(r, TypeOf(c), c)
               s == Token(r, c)
           IN  /\ e \in NodesOf(T, Nat) /\ s \in ReadersOf(T)
               /\ s.nodes = Append(r.nodes, e) /\ s.stack = r.stack /\ s.name = r.name
               /\ s.current = (IF r.current = 0 THEN 1 ELSE r.current)
               /\ s.expect = Follows(r.current = 0)
<1> DEFINE e == NextNode(r, TypeOf(c), c)
           s == Token(r, c)
<1>1. e \in NodesOf(T, Nat)
  <2>1. /\ e.type = TypeOf(c) /\ e.holder = r.current /\ e.token = c
        /\ e.name = IF InObject(r) THEN r.name ELSE "none"
        /\ e = [type |-> e.type, holder |-> e.holder, token |-> e.token, name |-> e.name]
    BY DEF NextNode
  <2>2. TypeOf(c) \in Literals \cup {"str"}
    BY DEF TypeOf
  <2>3. r.current \in Nat /\ r.name \in (T \cap Strings) \cup {"none"}
    BY DEF ReadersOf
  <2> HIDE DEF e
  <2>4. c # "{" /\ c # "["
    BY Kinds DEF Punctuators
  <2>5. NodeOK(e)
    BY <2>1, <2>4, Zenon DEF NodeOK
  <2>6. e \in [type : Compounds \cup Literals \cup {"str"}, holder : Nat,
               token : T, name : (T \cap Strings) \cup {"none"}]
    BY <2>1, <2>2, <2>3
  <2> QED BY <2>5, <2>6 DEF NodesOf
<1>2. s = [AddToCurrent(r, TypeOf(c), c) EXCEPT !.expect = Follows(r.current = 0)]
  BY TokenLeaf
<1>3. AddToCurrent(r, TypeOf(c), c) = [r EXCEPT !.nodes = Append(@, e), !.current = IF @ = 0 THEN 1 ELSE @]
  BY DEF AddToCurrent, NextNode
<1> HIDE DEF e, s
<1>4. s = [r EXCEPT !.nodes = Append(r.nodes, e), !.current = IF r.current = 0 THEN 1 ELSE r.current,
                    !.expect = Follows(r.current = 0)]
  BY <1>2, <1>3 DEF ReadersOf
<1>5. Append(r.nodes, e) \in Seq(NodesOf(T, Nat))
  <2> DEFINE S == NodesOf(T, Nat)
  <2>1. r.nodes \in Seq(S) /\ e \in S
    BY <1>1 DEF ReadersOf
  <2> HIDE DEF S
  <2>2. Append(r.nodes, e) \in Seq(S)
    BY <2>1
  <2> QED BY <2>2 DEF S
<1>6. Follows(r.current = 0) \in Expected
  BY DEF Follows, Expected
<1>7. s \in ReadersOf(T)
  BY <1>4, <1>5, <1>6 DEF ReadersOf
<1> QED BY <1>1, <1>4, <1>7 DEF e, s, ReadersOf

KindOf(c) == IF c = "{" THEN "obj" ELSE "array"

\* The place of a next member.
LEMMA NextPlace ==
    ASSUME NEW S, NEW x \in Seq(S)
    PROVE  Len(x) + 1 \in Nat
OBVIOUS

\* s is where r is after the start c of a compound, which is the node e.
Opens(r, c, e, s, T) ==
    /\ e \in NodesOf(T, Nat) /\ s \in ReadersOf(T)
    /\ s.nodes = Append(r.nodes, e) /\ s.name = r.name
    /\ s.current = Len(r.nodes) + 1
    /\ s.stack = (IF r.current = 0 THEN r.stack ELSE Append(r.stack, r.current))
    /\ s.expect = (IF c = "{" THEN "member" ELSE "element")

\* The reader after the start of an object or an array.
LEMMA StepOpens ==
    ASSUME NEW T, NEW r \in ReadersOf(T), NEW c \in T, AtValue(r), c \in Openings,
           NEW e, e = NextNode(r, KindOf(c), c), NEW s, s = Token(r, c)
    PROVE  Opens(r, c, e, s, T)
<1> DEFINE kind == KindOf(c)
           mode == IF c = "{" THEN "member" ELSE "element"
           st == IF r.current = 0 THEN r.stack ELSE Append(r.stack, r.current)
           n == Len(r.nodes)
<1>1. e \in NodesOf(T, Nat)
  <2>1. /\ e.type = kind /\ e.holder = r.current /\ e.token = c
        /\ e.name = IF InObject(r) THEN r.name ELSE "none"
        /\ e = [type |-> e.type, holder |-> e.holder, token |-> e.token, name |-> e.name]
    BY DEF NextNode
  <2>2. kind \in Compounds
    BY DEF KindOf, Compounds
  <2>3. r.current \in Nat /\ r.name \in (T \cap Strings) \cup {"none"}
    BY DEF ReadersOf
  <2>5. NodeOK(e)
    <3>1. CASE c = "{"
      BY <2>1, <3>1 DEF NodeOK, KindOf
    <3>2. CASE c = "["
      <4>1. ~ (c = "{")
        BY <3>2
      <4> QED BY <2>1, <3>2, <4>1 DEF NodeOK, KindOf
    <3> QED BY <3>1, <3>2 DEF Openings
  <2>6. e \in [type : Compounds \cup Literals \cup {"str"}, holder : Nat,
               token : T, name : (T \cap Strings) \cup {"none"}]
    BY <2>1, <2>2, <2>3
  <2> QED BY <2>5, <2>6 DEF NodesOf
<1>2. s = [BeginCompound(r, kind, c) EXCEPT !.expect = mode]
  <2>1. CASE c = "{"
    BY <2>1, TokenOpens DEF KindOf
  <2>2. CASE c = "["
    <3>1. ~ (c = "{")
      BY <2>2
    <3> QED BY <2>2, <3>1, TokenOpens DEF KindOf
  <2> QED BY <2>1, <2>2 DEF Openings
<1>3. BeginCompound(r, kind, c) =
        [[r EXCEPT !.nodes = Append(@, e), !.current = IF @ = 0 THEN 1 ELSE @] EXCEPT
            !.stack = IF r.current = 0 THEN @ ELSE Append(@, r.current), !.current = n + 1]
  BY DEF BeginCompound, AddToCurrent, NextNode
<1> HIDE DEF mode, n
<1>4. s = [r EXCEPT !.nodes = Append(r.nodes, e), !.current = n + 1, !.stack = st, !.expect = mode]
  BY <1>2, <1>3 DEF ReadersOf
<1>5. Append(r.nodes, e) \in Seq(NodesOf(T, Nat)) /\ n + 1 \in Nat
  <2> DEFINE S == NodesOf(T, Nat)
  <2>1. r.nodes \in Seq(S) /\ e \in S
    BY <1>1 DEF ReadersOf
  <2> HIDE DEF S
  <2>2. Append(r.nodes, e) \in Seq(S)
    BY <2>1, AppendProperties
  <2>3. n + 1 \in Nat
    BY <2>1, NextPlace, Zenon DEF n
  <2> QED BY <2>2, <2>3 DEF S
<1>6. mode \in Expected
  BY DEF mode, Expected
<1>7. st \in Seq(Nat)
  <2>1. r.stack \in Seq(Nat) /\ r.current \in Nat
    BY DEF ReadersOf
  <2>2. Append(r.stack, r.current) \in Seq(Nat)
    BY <2>1, AppendProperties
  <2> QED BY <2>1, <2>2
<1> HIDE DEF st
<1>8. s \in ReadersOf(T)
  BY <1>4, <1>5, <1>6, <1>7 DEF ReadersOf
<1>9. s.nodes = Append(r.nodes, e) /\ s.name = r.name /\ s.current = n + 1 /\ s.stack = st /\ s.expect = mode
  BY <1>4 DEF ReadersOf
<1> QED BY <1>1, <1>8, <1>9 DEF st, mode, n, Opens

\* A sequence without its last member, and that one.
LEMMA FrontLast ==
    ASSUME NEW S, NEW x \in Seq(S), x # <<>>
    PROVE  Front(x) \in Seq(S) /\ Last(x) \in S /\ Append(Front(x), Last(x)) = x
<1> DEFINE n == Len(x) - 1
           f == Front(x)
           a == Append(f, Last(x))
<1>1. n \in Nat /\ Len(x) = n + 1
  BY EmptySeq, LenProperties
<1>2. f = SubSeq(x, 1, n) /\ Last(x) = x[n + 1]
  BY <1>1 DEF Front, Last
<1> HIDE DEF f, n
<1>3. f \in Seq(S) /\ Len(f) = n /\ (\A i \in 1 .. n : f[i] = x[i]) /\ Last(x) \in S
  BY <1>1, <1>2
<1>4. a \in Seq(S) /\ Len(a) = n + 1 /\ a[n + 1] = Last(x) /\ \A i \in 1 .. n : a[i] = f[i]
  BY <1>3, AppendProperties
<1>5. \A i \in 1 .. n + 1 : a[i] = x[i]
  <2>1. \A i \in 1 .. n + 1 : i \in 1 .. n \/ i = n + 1
    BY <1>1
  <2> HIDE DEF a
  <2> QED BY <1>2, <1>3, <1>4, <2>1
<1> HIDE DEF a
<1>6. a = x
  BY <1>1, <1>4, <1>5, SeqEqual
<1> QED BY <1>3, <1>6 DEF a, f

\* The reader after the end of one.
LEMMA StepCloses ==
    ASSUME NEW T, NEW r, Sound(r, T), r.nodes # <<>>, r.expect \notin Ended, NEW c, Closes(r, c)
    PROVE  LET s == Token(r, c)
           IN  /\ s \in ReadersOf(T) /\ s.nodes = r.nodes /\ s.name = r.name
               /\ r.current = 1 => s.expect = "done"
               /\ r.current # 1 => /\ s.expect = "next" /\ Chain(s) = r.stack
                                   /\ Around(r.stack, r.nodes) /\ r.stack # <<>>
                                   /\ \A i \in 1 .. Len(r.stack) : r.stack[i] < r.current
<1> DEFINE s == Token(r, c)
<1>1. s = [EndCompound(r) EXCEPT !.expect = Follows(r.current = 1)]
  BY TokenCloses
<1>2. r \in ReadersOf(T) /\ r.stack \in Seq(Nat) /\ r.current \in Nat
  BY OfChain DEF Sound
<1> HIDE DEF s
<1>3. CASE r.current = 1
  <2>1. s = [r EXCEPT !.expect = "done"]
    BY <1>1, <1>3 DEF EndCompound, Follows
  <2>2. "done" \in Expected
    BY DEF Expected
  <2> QED BY <1>2, <1>3, <2>1, <2>2 DEF ReadersOf, s
<1>4. CASE r.current # 1
  <2>1. Around(Append(r.stack, r.current), r.nodes)
    BY DEF Sound, Chain, Ended
  <2>2. Around(r.stack, r.nodes) /\ Len(r.stack) >= 1 /\ \A i \in 1 .. Len(r.stack) : r.stack[i] < r.current
    BY <1>2, <1>4, <2>1, AroundLess
  <2>3. r.stack # <<>>
    BY <2>2
  <2> DEFINE f == Front(r.stack)
             l == Last(r.stack)
  <2>4. f \in Seq(Nat) /\ l \in Nat /\ Append(f, l) = r.stack
    BY <1>2, <2>3, FrontLast
  <2>5. EndCompound(r) = [r EXCEPT !.current = l, !.stack = f]
    BY <1>4 DEF EndCompound
  <2> HIDE DEF f, l
  <2>6. s = [r EXCEPT !.current = l, !.stack = f, !.expect = "next"]
    BY <1>1, <1>2, <1>4, <2>5 DEF Follows, ReadersOf
  <2>7. "next" \in Expected
    BY DEF Expected
  <2>8. /\ s \in ReadersOf(T) /\ s.nodes = r.nodes /\ s.name = r.name /\ s.expect = "next"
        /\ s.stack = f /\ s.current = l
    BY <1>2, <2>4, <2>6, <2>7 DEF ReadersOf
  <2> QED BY <1>4, <2>2, <2>3, <2>4, <2>8 DEF Chain, s
<1> QED BY <1>3, <1>4

\* Where a reader has no node, it is outside any.
LEMMA Outside ==
    ASSUME NEW T, NEW r, Sound(r, T), r.expect \notin Ended
    PROVE  /\ r.nodes = <<>> <=> r.current = 0
           /\ r.nodes = <<>> => r.stack = <<>> /\ ~ InObject(r) /\ r.expect = "value"
           /\ r.nodes # <<>> => Around(Chain(r), r.nodes) /\ r.current \in 1 .. Len(r.nodes)
<1>1. CASE r.nodes = <<>>
  BY <1>1 DEF Sound, InObject
<1>2. CASE r.nodes # <<>>
  <2>1. r.expect # "done"
    BY DEF Ended
  <2>2. r.current \in 1 .. Len(r.nodes)
    BY <1>2, <2>1, OfChain
  <2>3. r.current # 0
    BY <2>2
  <2> QED BY <1>2, <2>1, <2>2, <2>3 DEF Sound
<1> QED BY <1>1, <1>2

\* After a value that holds no other.
LEMMA SoundLeaf ==
    ASSUME NEW T, NEW r, Sound(r, T), NEW i \in Nat, Sized(r, i), NEW c \in T,
           AtValue(r), c \in Strings \cup Literals
    PROVE  Sound(Token(r, c), T) /\ Sized(Token(r, c), i + 1)
<1> DEFINE e == NextNode(r, TypeOf(c), c)
           s == Token(r, c)
           S == NodesOf(T, Nat)
           n == Len(r.nodes)
<1>1. r \in ReadersOf(T) /\ r.expect \notin Ended
  BY DEF Sound, AtValue, Ended
<1>2. /\ e \in S /\ s \in ReadersOf(T)
      /\ s.nodes = Append(r.nodes, e) /\ s.stack = r.stack /\ s.name = r.name
      /\ s.current = (IF r.current = 0 THEN 1 ELSE r.current)
      /\ s.expect = Follows(r.current = 0)
  BY <1>1, StepLeaf
<1>3. r.nodes \in Seq(S) /\ r.stack \in Seq(Nat) /\ r.current \in Nat
  BY OfChain
<1>4. \A k \in 1 .. n + 1 : HolderOK(s.nodes, k)
  BY <1>2, NextHolder
<1>5. e.holder = r.current
  BY DEF NextNode
<1> HIDE DEF s, e, S
<1>6. Len(s.nodes) = n + 1 /\ s.nodes # <<>> /\ n \in Nat
  BY <1>2, <1>3, AppendProperties
<1>7. CASE r.current = 0
  <2>1. r.nodes = <<>> /\ s.expect = "done"
    BY <1>1, <1>2, <1>7, Outside DEF Follows
  <2>2. n = 0
    BY <2>1
  <2>3. Sound(s, T)
    BY <1>2, <1>4, <1>6, <2>1 DEF Sound
  <2>4. Sized(s, i + 1)
    BY <1>6, <2>1, <2>2 DEF Sized
  <2> QED BY <2>3, <2>4 DEF s
<1>8. CASE r.current # 0
  <2>1. r.nodes # <<>> /\ s.expect = "next" /\ Around(Chain(r), r.nodes)
    BY <1>1, <1>2, <1>8, Outside DEF Follows
  <2>2. Chain(s) = Chain(r)
    BY <1>2, <1>8 DEF Chain
  <2>3. Chain(r)[Len(Chain(r))] = r.current /\ Len(Chain(r)) = Len(r.stack) + 1
    BY OfChain
  <2>4. Around(Chain(s), s.nodes)
    <3> DEFINE ch == Chain(r)
    <3> HIDE DEF ch
    <3>1. Around(ch, Append(r.nodes, e))
      BY <1>2, <1>3, <1>5, <2>1, <2>3, AroundMore DEF ch
    <3> QED BY <1>2, <2>2, <3>1 DEF ch
  <2>5. Sound(s, T)
    BY <1>2, <1>4, <1>6, <2>1, <2>4 DEF Sound
  <2>6. Sized(s, i + 1)
    <3> DEFINE l == Len(Chain(r))
    <3>1. l \in Nat
      <4>1. Len(r.stack) \in Nat
        BY <1>3
      <4> HIDE DEF l
      <4> QED BY <2>3, <4>1 DEF l
    <3>2. i >= 2 * n - l
      BY <2>1 DEF Sized, AtValue
    <3> HIDE DEF l, n
    <3>3. i + 1 >= 2 * (n + 1) - l - 1
      BY <1>6, <3>1, <3>2
    <3> QED BY <1>6, <2>1, <2>2, <3>3 DEF Sized, l
  <2> QED BY <2>5, <2>6 DEF s
<1> QED BY <1>7, <1>8

\* After the start of an object or an array.
LEMMA SoundOpens ==
    ASSUME NEW T, NEW r, Sound(r, T), NEW i \in Nat, Sized(r, i), NEW c \in T,
           AtValue(r), c \in Openings
    PROVE  Sound(Token(r, c), T) /\ Sized(Token(r, c), i + 1)
<1> DEFINE e == NextNode(r, KindOf(c), c)
           s == Token(r, c)
           S == NodesOf(T, Nat)
           n == Len(r.nodes)
           isObj == c = "{"
<1>1. r \in ReadersOf(T) /\ r.expect \notin Ended
  BY DEF Sound, AtValue, Ended
<1>2. /\ e \in S /\ s \in ReadersOf(T)
      /\ s.nodes = Append(r.nodes, e) /\ s.name = r.name /\ s.current = n + 1
      /\ s.stack = (IF r.current = 0 THEN r.stack ELSE Append(r.stack, r.current))
      /\ s.expect = (IF isObj THEN "member" ELSE "element")
  <2>2. e = NextNode(r, KindOf(c), c) /\ s = Token(r, c)
    OBVIOUS
  <2> HIDE DEF S, e, s
  <2>3. Opens(r, c, e, s, T)
    BY <1>1, <2>2, StepOpens, Zenon
  <2>1. /\ e \in NodesOf(T, Nat) /\ s \in ReadersOf(T)
        /\ s.nodes = Append(r.nodes, e) /\ s.name = r.name /\ s.current = Len(r.nodes) + 1
        /\ s.stack = (IF r.current = 0 THEN r.stack ELSE Append(r.stack, r.current))
        /\ s.expect = (IF c = "{" THEN "member" ELSE "element")
    BY <2>3, Zenon DEF Opens
  <2> QED BY <2>1, Zenon DEF S
<1>3. r.nodes \in Seq(S) /\ r.stack \in Seq(Nat) /\ r.current \in Nat
  BY OfChain
<1>4. \A k \in 1 .. n + 1 : HolderOK(s.nodes, k)
  BY <1>2, NextHolder
<1>5. e.holder = r.current /\ e.type \in Compounds /\ (e.type = "obj" <=> isObj)
  BY DEF NextNode, KindOf, Compounds
<1> HIDE DEF s, e, S, isObj
<1>6. Len(s.nodes) = n + 1 /\ s.nodes # <<>> /\ n \in Nat /\ s.nodes[n + 1] = e
  <2>1. Len(Append(r.nodes, e)) = n + 1 /\ Append(r.nodes, e)[n + 1] = e
    BY <1>2, <1>3, AppendProperties
  <2>2. Append(r.nodes, e) # <<>> /\ n \in Nat
    BY <1>2, <1>3, AppendProperties
  <2> QED BY <1>2, <2>1, <2>2
<1>7. InObject(s) <=> isObj
  <2>1. n + 1 # 0
    BY <1>6
  <2> QED BY <1>2, <1>5, <1>6, <2>1 DEF InObject
<1>8. Around(Chain(s), s.nodes) /\ 2 * (n + 1) - Len(Chain(s)) <= i + 1
  <2>1. CASE r.nodes = <<>>
    <3>1. r.current = 0 /\ r.stack = <<>> /\ n = 0
      BY <1>1, <2>1, Outside
    <3>2. Chain(s) = Append(<<>>, 1) /\ s.nodes = Append(<<>>, e)
      BY <1>2, <2>1, <3>1 DEF Chain
    <3>3. Around(Chain(s), s.nodes)
      BY <1>2, <1>5, <3>2, AroundFirst
    <3>4. Len(Chain(s)) = 1
      BY <3>2, AppendProperties, EmptySeq
    <3> QED BY <3>1, <3>3, <3>4
  <2>2. CASE r.nodes # <<>>
    <3>1. r.current # 0 /\ Around(Chain(r), r.nodes)
      BY <1>1, <2>2, Outside
    <3>2. Chain(s) = Append(Chain(r), n + 1)
      BY <1>2, <3>1 DEF Chain
    <3> DEFINE ch == Chain(r)
               l == Len(ch)
    <3>3. ch \in Seq(Nat) /\ ch[l] = r.current
      BY OfChain
    <3> HIDE DEF ch
    <3>4. Around(Append(ch, n + 1), Append(r.nodes, e))
      BY <1>2, <1>3, <1>5, <3>1, <3>3, AroundDeeper DEF ch
    <3>5. Len(Chain(s)) = l + 1 /\ l \in Nat
      BY <1>6, <3>2, <3>3, AppendProperties DEF ch
    <3>6. i >= 2 * n - l
      BY <2>2 DEF Sized, AtValue, ch
    <3> HIDE DEF l, n
    <3>7. 2 * (n + 1) - (l + 1) <= i + 1
      BY <1>6, <3>5, <3>6
    <3> QED BY <1>2, <3>2, <3>4, <3>5, <3>7 DEF ch
  <2> QED BY <2>1, <2>2
<1>9. Sound(s, T)
  BY <1>2, <1>4, <1>6, <1>7, <1>8 DEF Sound
<1>10. Sized(s, i + 1)
  BY <1>2, <1>6, <1>8 DEF Sized
<1> QED BY <1>9, <1>10 DEF s

\* After the end of one.
LEMMA SoundCloses ==
    ASSUME NEW T, NEW r, Sound(r, T), NEW i \in Nat, Sized(r, i), NEW c, r.expect \notin Ended,
           Closes(r, c)
    PROVE  Sound(Token(r, c), T) /\ Sized(Token(r, c), i + 1)
<1> DEFINE s == Token(r, c)
           n == Len(r.nodes)
           l == Len(r.stack)
<1>1. r.nodes # <<>> /\ Around(Chain(r), r.nodes)
  <2>1. r.nodes # <<>>
    BY Outside DEF Closes
  <2> QED BY <2>1, Outside
<1>2. /\ s \in ReadersOf(T) /\ s.nodes = r.nodes /\ s.name = r.name
      /\ r.current = 1 => s.expect = "done"
      /\ r.current # 1 => /\ s.expect = "next" /\ Chain(s) = r.stack
                          /\ Around(r.stack, r.nodes) /\ r.stack # <<>>
  BY <1>1, StepCloses
<1> HIDE DEF s
<1>3. n \in Nat /\ l \in Nat /\ Len(Chain(r)) = l + 1 /\ Chain(r)[l + 1] = r.current
  BY OfChain
<1>4. i >= 2 * n - (l + 1) - 1
  <2>1. i >= 2 * n - Len(Chain(r)) - 1 \/ i >= 2 * n - Len(Chain(r))
    BY <1>1 DEF Sized, Closes
  <2> HIDE DEF n, l
  <2> QED BY <1>3, <2>1
<1>5. CASE r.current = 1
  <2>1. l = 0
    <3>1. SUFFICES ASSUME l # 0
                   PROVE  FALSE
      OBVIOUS
    <3>2. 1 \in 1 .. l + 1 /\ l + 1 \in 1 .. l + 1 /\ 1 < l + 1
      BY <1>3, <3>1
    <3>3. Chain(r)[1] < Chain(r)[l + 1] /\ Chain(r)[1] = 1
      BY <1>1, <1>3, <3>2 DEF Around
    <3> QED BY <1>3, <1>5, <3>3
  <2>2. i >= 2 * n - 2
    <3> HIDE DEF n, l
    <3> QED BY <1>3, <1>4, <2>1
  <2>3. Sound(s, T)
    BY <1>1, <1>2, <1>5 DEF Sound
  <2>4. Sized(s, i + 1)
    <3> HIDE DEF n
    <3>1. i + 1 >= 2 * n - 1
      BY <1>3, <2>2
    <3> QED BY <1>2, <1>5, <3>1 DEF Sized, n
  <2> QED BY <2>3, <2>4 DEF s
<1>6. CASE r.current # 1
  <2>1. Sound(s, T)
    BY <1>1, <1>2, <1>6 DEF Sound
  <2>2. Sized(s, i + 1)
    <3> HIDE DEF n, l
    <3>1. i + 1 >= 2 * n - l - 1
      BY <1>3, <1>4
    <3> QED BY <1>2, <1>6, <3>1 DEF Sized, n, l
  <2> QED BY <2>1, <2>2 DEF s
<1> QED BY <1>5, <1>6

\* A name, a colon or a comma where one belongs.
Continues(r, c) ==
    \/ r.expect \in {"member", "pair"} /\ c \in Strings
    \/ r.expect = "colon" /\ c = ":"
    \/ r.expect = "next" /\ c = ","

\* s is where r is after such a token c.
Carries(r, c, s, T) ==
    /\ s \in ReadersOf(T) /\ s.nodes = r.nodes /\ s.stack = r.stack /\ s.current = r.current
    /\ \/ r.expect \in {"member", "pair"} /\ s.name = c /\ c \in Strings /\ s.expect = "colon"
       \/ r.expect = "colon" /\ s.name = r.name /\ s.expect = "value"
       \/ r.expect = "next" /\ s.name = r.name /\ s.expect = IF InObject(r) THEN "pair" ELSE "value"

\* The reader after a name, a colon or a comma.
LEMMA StepCarries ==
    ASSUME NEW T, NEW r \in ReadersOf(T), NEW c \in T, Continues(r, c), NEW s, s = Token(r, c)
    PROVE  Carries(r, c, s, T)
<1> DEFINE mode == IF InObject(r) THEN "pair" ELSE "value"
<1>1. "colon" \in Expected /\ "value" \in Expected /\ mode \in Expected
  BY DEF Expected
<1> HIDE DEF mode
<1>2. CASE r.expect \in {"member", "pair"} /\ c \in Strings
  <2>1. s = [r EXCEPT !.name = c, !.expect = "colon"]
    BY <1>2, TokenNames
  <2>2. /\ s \in ReadersOf(T) /\ s.nodes = r.nodes /\ s.stack = r.stack /\ s.current = r.current
        /\ s.name = c /\ s.expect = "colon"
    BY <1>1, <1>2, <2>1 DEF ReadersOf
  <2> QED BY <1>2, <2>2, Zenon DEF Carries
<1>3. CASE r.expect = "colon" /\ c = ":"
  <2>1. s = [r EXCEPT !.expect = "value"]
    BY <1>3, TokenNames
  <2>2. /\ s \in ReadersOf(T) /\ s.nodes = r.nodes /\ s.stack = r.stack /\ s.current = r.current
        /\ s.name = r.name /\ s.expect = "value"
    BY <1>1, <2>1 DEF ReadersOf
  <2> QED BY <1>3, <2>2, Zenon DEF Carries
<1>4. CASE r.expect = "next" /\ c = ","
  <2>1. s = [r EXCEPT !.expect = mode]
    BY <1>4, TokenSeparates DEF mode
  <2>2. /\ s \in ReadersOf(T) /\ s.nodes = r.nodes /\ s.stack = r.stack /\ s.current = r.current
        /\ s.name = r.name /\ s.expect = mode
    BY <1>1, <2>1 DEF ReadersOf
  <2> QED BY <1>4, <2>2, Zenon DEF Carries, mode
<1> QED BY <1>2, <1>3, <1>4, Zenon DEF Continues

\* After a name, a colon or a comma.
LEMMA SoundOther ==
    ASSUME NEW T, NEW r, Sound(r, T), NEW i \in Nat, Sized(r, i), NEW c \in T, Continues(r, c)
    PROVE  Sound(Token(r, c), T) /\ Sized(Token(r, c), i + 1)
<1> DEFINE s == Token(r, c)
           n == Len(r.nodes)
           l == Len(Chain(r))
<1>1. r \in ReadersOf(T) /\ r.expect \notin Ended /\ r.expect # "value" /\ r.expect # "done"
  BY DEF Sound, Ended, Continues
<1>2. r.nodes # <<>> /\ Around(Chain(r), r.nodes)
  BY <1>1, Outside
<1>2a. s = Token(r, c)
  OBVIOUS
<1> HIDE DEF s
<1>2b. Carries(r, c, s, T)
  BY <1>1, <1>2a, StepCarries
<1>3. /\ s \in ReadersOf(T) /\ s.nodes = r.nodes /\ s.stack = r.stack /\ s.current = r.current
      /\ \/ r.expect \in {"member", "pair"} /\ s.name \in Strings /\ s.expect = "colon"
         \/ r.expect = "colon" /\ s.name = r.name /\ s.expect = "value"
         \/ r.expect = "next" /\ s.expect = IF InObject(r) THEN "pair" ELSE "value"
  BY <1>2b DEF Carries
<1>4. Chain(s) = Chain(r) /\ (InObject(s) <=> InObject(r))
  BY <1>3 DEF Chain, InObject
<1>5. n \in Nat /\ l \in Nat
  <2>1. n \in Nat /\ Len(r.stack) \in Nat /\ l = Len(r.stack) + 1
    BY OfChain
  <2> HIDE DEF l, n
  <2> QED BY <2>1
<1>6. Sound(s, T)
  <2>1. r.expect = "colon" => r.name \in Strings /\ InObject(r)
    BY DEF Sound
  <2>2. r.expect \in {"member", "pair"} => InObject(r)
    BY DEF Sound
  <2>3. s.expect \in {"colon", "value", "pair"}
    BY <1>3
  <2>4. s.expect \in {"member", "colon", "pair"} => InObject(s)
    BY <1>3, <1>4, <2>2
  <2>5. s.expect = "colon" \/ (s.expect = "value" /\ InObject(s)) => s.name \in Strings
    BY <1>3, <1>4, <2>1
  <2>6. \A k \in 1 .. Len(s.nodes) : HolderOK(s.nodes, k)
    BY <1>3 DEF Sound
  <2> QED BY <1>2, <1>3, <1>4, <2>3, <2>4, <2>5, <2>6 DEF Sound
<1>7. Sized(s, i + 1)
  <2>1. i >= 2 * n - l - 1 \/ i >= 2 * n - l
    BY <1>2 DEF Sized
  <2> HIDE DEF n, l
  <2>2. i + 1 >= 2 * n - l
    BY <1>5, <2>1
  <2>3. s.expect \notin {"done", "next"}
    BY <1>3
  <2> QED BY <1>3, <1>4, <2>2, <2>3 DEF Sized, n, l
<1> QED BY <1>6, <1>7 DEF s

\* After any token.
LEMMA SoundStep ==
    ASSUME NEW T, NEW r, Sound(r, T), NEW i \in Nat, Sized(r, i), NEW c \in T,
           c \notin Skipped, r.expect \notin Ended, Token(r, c).expect # "failed"
    PROVE  /\ Sound(Token(r, c), T) /\ Sized(Token(r, c), i + 1)
           /\ \/ AtValue(r) /\ c \in Strings \cup Literals
              \/ AtValue(r) /\ c \in Openings
              \/ Closes(r, c)
              \/ Continues(r, c)
<1>1. r.expect \in Expected /\ DOMAIN r = DOMAIN NewReader /\ r = [f \in DOMAIN r |-> r[f]]
  BY DEF Sound, ReadersOf, NewReader
<1>2. \/ AtValue(r) /\ c \in Strings \cup Literals
      \/ AtValue(r) /\ c \in Openings
      \/ Closes(r, c)
      \/ Continues(r, c)
  BY <1>1, StepKinds DEF Continues
<1>3. CASE AtValue(r) /\ c \in Strings \cup Literals
  BY <1>2, <1>3, SoundLeaf
<1>4. CASE AtValue(r) /\ c \in Openings
  BY <1>2, <1>4, SoundOpens
<1>5. CASE Closes(r, c)
  BY <1>2, <1>5, SoundCloses
<1>6. CASE Continues(r, c)
  BY <1>2, <1>6, SoundOther
<1> QED BY <1>2, <1>3, <1>4, <1>5, <1>6

-----------------------------------------------------------------------------
(* White space *)

\* A reader is where the tokens have taken it, whatever follows them.
LEMMA ReadsAgree ==
    ASSUME NEW S, NEW x \in Seq(S), NEW y, NEW r, NEW R, NEW F, Reads(R, r, x), Reads(F, r, y),
           Len(y) \in Nat, Len(x) <= Len(y), \A i \in 1 .. Len(x) : y[i] = x[i]
    PROVE  \A i \in 0 .. Len(x) : F[i] = R[i]
<1> DEFINE n == Len(x)
           T == {i \in Nat : i <= n => F[i] = R[i]}
<1>1. n \in Nat
  OBVIOUS
<1> HIDE DEF n
<1>2. 0 \in T
  BY DEF Reads
<1>3. ASSUME NEW i \in Nat, i \in T
      PROVE  i + 1 \in T
  <2>1. SUFFICES ASSUME i + 1 <= n
                 PROVE  F[i + 1] = R[i + 1]
    OBVIOUS
  <2> DEFINE j == i + 1
  <2>2. j \in 1 .. n /\ j \in 1 .. Len(y) /\ j - 1 = i
    BY <1>1, <2>1 DEF n
  <2>3. F[i] = R[i]
    BY <1>1, <1>3, <2>1
  <2> HIDE DEF j
  <2>4. F[j] = Token(F[i], y[j]) /\ R[j] = Token(R[i], x[j]) /\ y[j] = x[j]
    BY <2>2 DEF Reads, n
  <2>5. F[j] = R[j]
    BY <2>3, <2>4
  <2> QED BY <2>5 DEF j
<1>4. Nat \subseteq T
  <2> HIDE DEF T
  <2> QED BY <1>2, <1>3, Induction
<1> QED BY <1>1, <1>4 DEF n

\* A token more.
LEMMA ReadMore ==
    ASSUME NEW S, NEW x \in Seq(S), NEW c \in S
    PROVE  ReadText(Append(x, c)) = Token(ReadText(x), c)
<1> DEFINE y == Append(x, c)
           n == Len(x)
<1>1. PICK R : Reads(R, NewReader, x) /\ ReadText(x) = R[n]
  BY Reading
<1>2. y \in Seq(S) /\ n \in Nat /\ Len(y) = n + 1 /\ y[n + 1] = c /\ \A i \in 1 .. n : y[i] = x[i]
  BY AppendProperties
<1> HIDE DEF y
<1>3. PICK F : Reads(F, NewReader, y) /\ ReadText(y) = F[Len(y)]
  BY <1>2, Reading
<1>4. F[n] = R[n]
  <2>1. \A i \in 0 .. n : F[i] = R[i]
    BY <1>1, <1>2, <1>3, ReadsAgree
  <2> QED BY <1>2, <2>1
<1>5. F[n + 1] = Token(F[n], y[n + 1])
  <2>1. n + 1 \in 1 .. n + 1 /\ (n + 1) - 1 = n
    BY <1>2
  <2> QED BY <1>2, <1>3, <2>1 DEF Reads
<1> QED BY <1>1, <1>2, <1>3, <1>4, <1>5 DEF y

\* A text is read as without its white space.
LEMMA ReadOnly ==
    ASSUME NEW T, NEW x \in Seq(T)
    PROVE  /\ Only(x, T \ Skipped) \in Seq(T \ Skipped)
           /\ Len(Only(x, T \ Skipped)) <= Len(x)
           /\ ReadText(Only(x, T \ Skipped)) = ReadText(x)
<1> DEFINE n == Len(x)
           P == T \ Skipped
           S == T \cap P
<1>1. PICK u : Picks(u, x, P) /\ \A i \in 0 .. n : u[i] \in Seq(S)
  BY Picking
<1>2. PICK R : Reads(R, NewReader, x) /\ ReadText(x) = R[n]
  BY Reading
<1>3. n \in Nat /\ \A i \in 1 .. n : x[i] \in T
  OBVIOUS
<1> HIDE DEF n
<1> DEFINE W == {i \in Nat : i <= n => ReadText(u[i]) = R[i] /\ Len(u[i]) <= i}
<1>4. 0 \in W
  <2>1. <<>> \in Seq(T)
    BY EmptySeq
  <2>2. PICK F : Reads(F, NewReader, <<>>) /\ ReadText(<<>>) = F[Len(<<>>)]
    BY <2>1, Reading
  <2>3. Len(<<>>) = 0
    OBVIOUS
  <2> QED BY <1>1, <1>2, <2>2, <2>3 DEF Picks, Reads
<1>5. ASSUME NEW i \in Nat, i \in W
      PROVE  i + 1 \in W
  <2>1. SUFFICES ASSUME i + 1 <= n
                 PROVE  ReadText(u[i + 1]) = R[i + 1] /\ Len(u[i + 1]) <= i + 1
    OBVIOUS
  <2> DEFINE j == i + 1
  <2>2. j \in 1 .. n /\ j - 1 = i /\ i \in 0 .. n /\ i <= n
    BY <1>3, <2>1
  <2>3. ReadText(u[i]) = R[i] /\ Len(u[i]) <= i
    BY <1>5, <2>2
  <2>4. x[j] \in T /\ R[j] = Token(R[i], x[j]) /\ u[j] = IF x[j] \in P THEN Append(u[i], x[j]) ELSE u[i]
    <3> HIDE DEF j
    <3> QED BY <1>1, <1>2, <1>3, <2>2 DEF Picks, Reads, n
  <2>5. u[i] \in Seq(S)
    BY <1>1, <2>2
  <2> HIDE DEF j
  <2>6. CASE x[j] \in P
    <3>1. x[j] \in S
      BY <2>4, <2>6
    <3> HIDE DEF S
    <3>2. u[j] = Append(u[i], x[j])
      BY <2>4, <2>6
    <3>3. ReadText(u[j]) = R[j]
      BY <2>3, <2>4, <2>5, <3>1, <3>2, ReadMore
    <3>4. Len(u[j]) = Len(u[i]) + 1 /\ Len(u[i]) \in Nat
      BY <2>5, <3>1, <3>2, AppendProperties
    <3>5. Len(u[j]) <= i + 1
      BY <2>3, <3>4
    <3> QED BY <3>3, <3>5 DEF j
  <2>7. CASE x[j] \notin P
    <3>1. u[j] = u[i] /\ x[j] \in Skipped
      BY <2>4, <2>7
    <3>2. R[j] = R[i]
      BY <2>4, <3>1, TokenIgnored
    <3>3. Len(u[i]) \in Nat
      <4> HIDE DEF S
      <4> QED BY <2>5
    <3>4. Len(u[j]) <= i + 1
      BY <2>3, <3>1, <3>3
    <3> QED BY <2>3, <3>1, <3>2, <3>4 DEF j
  <2> QED BY <2>6, <2>7
<1>6. ReadText(u[n]) = R[n] /\ Len(u[n]) <= n
  <2>1. Nat \subseteq W
    <3> HIDE DEF W
    <3> QED BY <1>4, <1>5, Induction
  <2> QED BY <1>3, <2>1
<1>7. Only(x, P) = u[n] /\ u[n] \in Seq(S)
  BY <1>1, <1>3 DEF Picks, n
<1>8. S = P
  OBVIOUS
<1> HIDE DEF S, P
<1> QED BY <1>2, <1>6, <1>7, <1>8 DEF P, n

-----------------------------------------------------------------------------
(* The text of a value is the only one *)

\* The next node of V is in what r has open last.
HasMore(r, V) == Len(r.nodes) < Len(V) /\ V[Len(r.nodes) + 1].holder = r.current

\* r is on its way to V.
Foresees(r, V) ==
    /\ Len(r.nodes) <= Len(V) /\ \A k \in 1 .. Len(r.nodes) : V[k] = r.nodes[k]
    /\ r.expect = "done" => Len(r.nodes) = Len(V)
    /\ r.expect # "done" /\ r.nodes # <<>> =>
          \A j \in Len(r.nodes) + 1 .. Len(V) :
              V[j].holder > Len(r.nodes) \/ \E i \in 1 .. Len(Chain(r)) : V[j].holder = Chain(r)[i]
    /\ r.expect \in {"value", "pair", "colon"} => HasMore(r, V)
    /\ r.expect = "colon" \/ (r.expect = "value" /\ InObject(r)) => V[Len(r.nodes) + 1].name = r.name

\* The token that brings it nearer.
Tells(r, V) ==
    LET next == V[Len(r.nodes) + 1]
    IN  CASE r.expect = "value" -> next.token
          [] r.expect = "pair" -> next.name
          [] r.expect = "colon" -> ":"
          [] r.expect = "element" -> IF HasMore(r, V) THEN next.token ELSE "]"
          [] r.expect = "member" -> IF HasMore(r, V) THEN next.name ELSE "}"
          [] r.expect = "next" ->
                IF HasMore(r, V) THEN "," ELSE IF InObject(r) THEN "}" ELSE "]"

\* Where a node may start, and one does.
LEMMA TellsNode ==
    ASSUME NEW r, NEW V, AtValue(r), HasMore(r, V)
    PROVE  Tells(r, V) = V[Len(r.nodes) + 1].token
<1>1. CASE r.expect = "value"
  BY <1>1 DEF Tells
<1>2. CASE r.expect = "element"
  BY <1>2 DEF Tells
<1> QED BY <1>1, <1>2 DEF AtValue

\* Where an object or an array ends.
LEMMA TellsEnd ==
    ASSUME NEW r, NEW V, NEW c, Closes(r, c), ~ HasMore(r, V)
    PROVE  Tells(r, V) = c
<1>1. CASE r.expect = "element"
  <2>1. c = "]"
    BY <1>1 DEF Closes
  <2> QED BY <1>1, <2>1 DEF Tells
<1>2. CASE r.expect = "member"
  <2>1. c = "}"
    BY <1>2 DEF Closes
  <2> QED BY <1>2, <2>1 DEF Tells
<1>3. CASE r.expect = "next"
  <2>1. c = IF InObject(r) THEN "}" ELSE "]"
    BY <1>3 DEF Closes
  <2> QED BY <1>3, <2>1 DEF Tells
<1> QED BY <1>1, <1>2, <1>3 DEF Closes

\* In between.
LEMMA TellsOther ==
    ASSUME NEW r, NEW V, NEW c, Continues(r, c), HasMore(r, V),
           r.expect \in {"member", "pair"} => V[Len(r.nodes) + 1].name = c
    PROVE  Tells(r, V) = c
<1>1. CASE r.expect = "member"
  BY <1>1 DEF Tells
<1>2. CASE r.expect = "pair"
  BY <1>2 DEF Tells
<1>3. CASE r.expect = "colon" /\ c = ":"
  BY <1>3 DEF Tells
<1>4. CASE r.expect = "next" /\ c = ","
  BY <1>4 DEF Tells
<1> QED BY <1>1, <1>2, <1>3, <1>4 DEF Continues

\* Before a node.
LEMMA ForeseesNode ==
    ASSUME NEW T, NEW r, Sound(r, T), AtValue(r), NEW e \in NodesOf(T, Nat),
           e.holder = r.current, InObject(r) => e.name = r.name,
           NEW s, s.nodes = Append(r.nodes, e),
           r.nodes # <<>> =>
              /\ s.expect # "done"
              /\ \A i \in 1 .. Len(Chain(s)) : \/ Chain(s)[i] = Len(r.nodes) + 1
                                               \/ \E k \in 1 .. Len(Chain(r)) : Chain(s)[i] = Chain(r)[k],
           NEW V \in Seq(NodesOf(T, Nat)), Foresees(s, V)
    PROVE  Foresees(r, V) /\ Tells(r, V) = e.token
<1> DEFINE n == Len(r.nodes)
           m == Len(V)
           l == Len(Chain(r))
           S == NodesOf(T, Nat)
<1>1. r.nodes \in Seq(S) /\ n \in Nat /\ m \in Nat
  BY OfChain
<1>2. l \in Nat /\ l >= 1 /\ Chain(r)[l] = r.current
  <2>1. l = Len(r.stack) + 1 /\ Chain(r)[l] = r.current /\ Len(r.stack) \in Nat
    BY OfChain
  <2> HIDE DEF l
  <2> QED BY <2>1
<1>3. Len(s.nodes) = n + 1 /\ s.nodes[n + 1] = e /\ \A k \in 1 .. n : s.nodes[k] = r.nodes[k]
  BY <1>1, AppendProperties
<1>4. \A j \in 1 .. m : V[j].holder \in Nat
  BY DEF NodesOf
<1> HIDE DEF n, m, l
<1>5. n + 1 <= m /\ \A k \in 1 .. n + 1 : V[k] = s.nodes[k]
  BY <1>3 DEF Foresees, m
<1>6. V[n + 1] = e
  <2>1. n + 1 \in 1 .. n + 1
    BY <1>1
  <2> QED BY <1>3, <1>5, <2>1
<1>7. \A k \in 1 .. n : V[k] = r.nodes[k]
  <2>1. \A k \in 1 .. n : k \in 1 .. n + 1
    BY <1>1
  <2> QED BY <1>3, <1>5, <2>1
<1>8. HasMore(r, V)
  <2>1. n < m
    BY <1>1, <1>5
  <2> QED BY <1>6, <2>1 DEF HasMore, n, m
<1>9. ASSUME r.nodes # <<>>, NEW j \in n + 1 .. m
      PROVE  V[j].holder > n \/ \E i \in 1 .. l : V[j].holder = Chain(r)[i]
  <2>1. CASE j = n + 1
    <3>1. V[j].holder = Chain(r)[l] /\ l \in 1 .. l
      BY <1>2, <1>6, <2>1
    <3> QED BY <3>1
  <2>2. CASE j # n + 1
    <3>1. j \in (n + 1) + 1 .. m /\ j \in 1 .. m
      BY <1>1, <2>2
    <3>2. s.expect # "done" /\ s.nodes # <<>>
      <4>1. s.nodes # <<>>
        BY <1>1, AppendProperties
      <4> QED BY <1>9, <4>1
    <3>3. V[j].holder > n + 1 \/ \E i \in 1 .. Len(Chain(s)) : V[j].holder = Chain(s)[i]
      BY <1>3, <3>1, <3>2 DEF Foresees, m
    <3>4. CASE V[j].holder > n + 1
      <4>1. V[j].holder > n
        BY <1>1, <1>4, <3>1, <3>4
      <4> QED BY <4>1
    <3>5. CASE \E i \in 1 .. Len(Chain(s)) : V[j].holder = Chain(s)[i]
      <4>1. V[j].holder = n + 1 \/ \E k \in 1 .. l : V[j].holder = Chain(r)[k]
        BY <1>9, <3>5 DEF n, l
      <4>2. n + 1 > n
        BY <1>1
      <4> QED BY <4>1, <4>2
    <3> QED BY <3>3, <3>4, <3>5
  <2> QED BY <2>1, <2>2
<1>10. r.expect \notin {"done", "colon", "pair"}
  BY DEF AtValue
<1>11. n <= m
  BY <1>1, <1>5
<1>12. Foresees(r, V)
  BY <1>6, <1>7, <1>8, <1>9, <1>10, <1>11 DEF Foresees, n, m, l
<1> QED BY <1>6, <1>8, <1>12, TellsNode DEF n

\* Before the end of an object or an array.
LEMMA ForeseesEnd ==
    ASSUME NEW T, NEW r, Sound(r, T), NEW c, Closes(r, c), r.expect \notin Ended,
           NEW V \in Seq(NodesOf(T, Nat)), Foresees(Token(r, c), V)
    PROVE  Foresees(r, V) /\ Tells(r, V) = c
<1> DEFINE s == Token(r, c)
           n == Len(r.nodes)
           m == Len(V)
           l == Len(Chain(r))
           st == r.stack
<1>1. r.nodes # <<>> /\ Around(Chain(r), r.nodes) /\ r.current \in 1 .. n /\ r.expect # "done"
  <2>1. r.nodes # <<>>
    BY Outside DEF Closes
  <2> QED BY <2>1, Outside DEF Ended
<1>2. /\ s.nodes = r.nodes
      /\ r.current = 1 => s.expect = "done"
      /\ r.current # 1 => /\ s.expect = "next" /\ Chain(s) = st
                          /\ \A i \in 1 .. Len(st) : st[i] < r.current
  BY <1>1, StepCloses
<1> HIDE DEF s
<1>3. n \in Nat /\ m \in Nat /\ \A j \in 1 .. m : V[j].holder \in Nat
  BY OfChain DEF NodesOf
<1>4. st \in Seq(Nat) /\ l = Len(st) + 1 /\ \A i \in 1 .. Len(st) : Chain(r)[i] = st[i]
  <2>1. st \in Seq(Nat) /\ r.current \in Nat
    BY OfChain
  <2> QED BY <2>1, AppendProperties DEF Chain
<1>5. n <= m /\ \A k \in 1 .. n : V[k] = r.nodes[k]
  BY <1>2 DEF Foresees, s
<1>6. r.current = 1 => n = m
  BY <1>2 DEF Foresees, s
<1>7. ASSUME r.current # 1, NEW j \in n + 1 .. m
      PROVE  V[j].holder > n \/ \E i \in 1 .. Len(st) : V[j].holder = st[i]
  <2>1. s.expect # "done" /\ s.nodes # <<>>
    BY <1>1, <1>2, <1>7
  <2> QED BY <1>2, <1>7, <2>1 DEF Foresees, s
<1> HIDE DEF n, m, l, st
<1>8. ~ HasMore(r, V)
  <2>1. SUFFICES ASSUME n < m, V[n + 1].holder = r.current
                 PROVE  FALSE
    BY DEF HasMore, n, m
  <2>2. n + 1 \in n + 1 .. m /\ r.current # 1 /\ r.current <= n
    BY <1>1, <1>3, <1>6, <2>1
  <2>3. \E i \in 1 .. Len(st) : V[n + 1].holder = st[i]
    <3>1. ~ (V[n + 1].holder > n)
      BY <1>1, <1>3, <2>1, <2>2
    <3> QED BY <1>7, <2>2, <3>1
  <2>4. PICK i \in 1 .. Len(st) : r.current = st[i]
    BY <2>1, <2>3
  <2>5. st[i] < r.current
    BY <1>2, <2>2
  <2> QED BY <1>1, <1>3, <2>4, <2>5
<1>9. ASSUME NEW j \in n + 1 .. m
      PROVE  V[j].holder > n \/ \E i \in 1 .. l : V[j].holder = Chain(r)[i]
  <2>1. CASE r.current = 1
    BY <1>3, <1>6, <2>1
  <2>2. CASE r.current # 1
    <3>1. \A i \in 1 .. Len(st) : i \in 1 .. l
      <4>1. Len(st) \in Nat
        BY <1>4
      <4> QED BY <1>4, <4>1
    <3>2. V[j].holder > n \/ \E i \in 1 .. Len(st) : V[j].holder = st[i]
      BY <1>7, <2>2
    <3> QED BY <1>4, <3>1, <3>2
  <2> QED BY <2>1, <2>2
<1>10. r.expect \notin {"value", "pair", "colon"}
  BY DEF Closes
<1>11. Foresees(r, V)
  BY <1>1, <1>5, <1>9, <1>10 DEF Foresees, n, m, l
<1> QED BY <1>8, <1>11, TellsEnd

\* Before a name, a colon or a comma.
LEMMA ForeseesOther ==
    ASSUME NEW T, NEW r, Sound(r, T), NEW c \in T, Continues(r, c), NEW V, Foresees(Token(r, c), V)
    PROVE  Foresees(r, V) /\ Tells(r, V) = c
<1> DEFINE s == Token(r, c)
           n == Len(r.nodes)
<1>1. s = Token(r, c) /\ r \in ReadersOf(T)
  BY DEF Sound
<1> HIDE DEF s
<1>2. Carries(r, c, s, T)
  BY <1>1, StepCarries
<1>3. /\ s.nodes = r.nodes /\ s.stack = r.stack /\ s.current = r.current
      /\ \/ r.expect \in {"member", "pair"} /\ s.name = c /\ s.expect = "colon"
         \/ r.expect = "colon" /\ s.name = r.name /\ s.expect = "value"
         \/ r.expect = "next" /\ s.expect = IF InObject(r) THEN "pair" ELSE "value"
  BY <1>2 DEF Carries
<1>4. Chain(s) = Chain(r) /\ (InObject(s) <=> InObject(r)) /\ (HasMore(s, V) <=> HasMore(r, V))
  BY <1>3 DEF Chain, InObject, HasMore
<1>5. s.expect \in {"value", "pair", "colon"}
  BY <1>3
<1>6. HasMore(r, V)
  BY <1>1, <1>4, <1>5 DEF Foresees
<1>7. r.expect \in {"member", "pair"} => V[n + 1].name = c
  BY <1>1, <1>3 DEF Foresees
<1>8. r.expect = "colon" => V[n + 1].name = r.name
  <2>1. SUFFICES ASSUME r.expect = "colon"
                 PROVE  V[n + 1].name = r.name
    OBVIOUS
  <2>2. InObject(r)
    BY <2>1 DEF Sound
  <2>3. InObject(s) /\ s.expect = "value" /\ s.name = r.name
    BY <1>3, <1>4, <2>1, <2>2
  <2> QED BY <1>1, <1>3, <2>3 DEF Foresees
<1>9. r.expect \notin {"value", "done"}
  BY <1>3
<1>10. /\ n <= Len(V) /\ \A k \in 1 .. n : V[k] = r.nodes[k]
       /\ r.nodes # <<>> =>
            \A j \in n + 1 .. Len(V) :
              V[j].holder > n \/ \E i \in 1 .. Len(Chain(r)) : V[j].holder = Chain(r)[i]
  <2>1. s.expect # "done"
    BY <1>5
  <2> QED BY <1>1, <1>3, <1>4, <2>1 DEF Foresees
<1>11. Foresees(r, V)
  BY <1>6, <1>8, <1>9, <1>10 DEF Foresees
<1> QED BY <1>6, <1>7, <1>11, TellsOther

\* Before any token.
LEMMA ForeseesStep ==
    ASSUME NEW T, NEW r, Sound(r, T), NEW i \in Nat, Sized(r, i), NEW c \in T,
           c \notin Skipped, r.expect \notin Ended, Token(r, c).expect # "failed",
           NEW V \in Seq(NodesOf(T, Nat)), Foresees(Token(r, c), V)
    PROVE  Foresees(r, V) /\ Tells(r, V) = c
<1> DEFINE s == Token(r, c)
           n == Len(r.nodes)
           l == Len(Chain(r))
<1>1. r \in ReadersOf(T)
  BY DEF Sound
<1>2. \/ AtValue(r) /\ c \in Strings \cup Literals
      \/ AtValue(r) /\ c \in Openings
      \/ Closes(r, c)
      \/ Continues(r, c)
  BY SoundStep
<1>3. r.nodes # <<>> => r.current # 0
  BY Outside
<1>4. Chain(r) \in Seq(Nat) /\ l \in Nat
  BY OfChain
<1>5. CASE AtValue(r) /\ c \in Strings \cup Literals
  <2> DEFINE e == NextNode(r, TypeOf(c), c)
  <2>1. /\ e \in NodesOf(T, Nat)
        /\ s.nodes = Append(r.nodes, e) /\ s.stack = r.stack
        /\ s.current = (IF r.current = 0 THEN 1 ELSE r.current)
        /\ s.expect = Follows(r.current = 0)
    BY <1>1, <1>5, StepLeaf
  <2>2. e.holder = r.current /\ (InObject(r) => e.name = r.name) /\ e.token = c
    BY DEF NextNode
  <2> HIDE DEF s, e, l
  <2>3. r.nodes # <<>> => s.expect # "done" /\ Chain(s) = Chain(r)
    BY <1>3, <2>1 DEF Follows, Chain
  <2>4. r.nodes # <<>> =>
          /\ s.expect # "done"
          /\ \A k \in 1 .. Len(Chain(s)) : \/ Chain(s)[k] = n + 1
                                           \/ \E j \in 1 .. Len(Chain(r)) : Chain(s)[k] = Chain(r)[j]
    BY <2>3
  <2>5. Foresees(r, V) /\ Tells(r, V) = e.token
    BY <1>5, <2>1, <2>2, <2>4, ForeseesNode DEF s
  <2> QED BY <2>2, <2>5
<1>6. CASE AtValue(r) /\ c \in Openings
  <2> DEFINE e == NextNode(r, KindOf(c), c)
  <2>0. e = NextNode(r, KindOf(c), c) /\ s = Token(r, c)
    OBVIOUS
  <2>2. e.holder = r.current /\ (InObject(r) => e.name = r.name) /\ e.token = c
    BY DEF NextNode
  <2> HIDE DEF s, e, l
  <2>1. Opens(r, c, e, s, T)
    BY <1>1, <1>6, <2>0, StepOpens, Zenon
  <2>3. /\ e \in NodesOf(T, Nat)
        /\ s.nodes = Append(r.nodes, e) /\ s.current = n + 1
        /\ s.stack = (IF r.current = 0 THEN r.stack ELSE Append(r.stack, r.current))
    BY <2>1, Zenon DEF Opens
  <2>4. s.expect # "done"
    <3>1. s.expect = (IF c = "{" THEN "member" ELSE "element")
      BY <2>1, Zenon DEF Opens
    <3> QED BY <3>1
  <2>5. r.nodes # <<>> =>
          /\ s.expect # "done"
          /\ \A k \in 1 .. Len(Chain(s)) : \/ Chain(s)[k] = n + 1
                                           \/ \E j \in 1 .. Len(Chain(r)) : Chain(s)[k] = Chain(r)[j]
    <3>1. SUFFICES ASSUME r.nodes # <<>>, NEW k \in 1 .. Len(Chain(s))
                   PROVE  \/ Chain(s)[k] = n + 1
                          \/ \E j \in 1 .. Len(Chain(r)) : Chain(s)[k] = Chain(r)[j]
      BY <2>4
    <3>2. Chain(s) = Append(Chain(r), n + 1)
      BY <1>3, <2>3, <3>1 DEF Chain
    <3>3. n + 1 \in Nat
      <4>1. r.nodes \in Seq(NodesOf(T, Nat))
        BY OfChain
      <4> QED BY <4>1, NextPlace
    <3> HIDE DEF n
    <3> DEFINE d == Chain(s)
    <3>4. Len(d) = l + 1 /\ d[l + 1] = n + 1 /\ \A j \in 1 .. l : d[j] = Chain(r)[j]
      BY <1>4, <3>2, <3>3, AppendProperties DEF l
    <3> HIDE DEF d
    <3>5. k \in 1 .. l \/ k = l + 1
      BY <1>4, <3>1, <3>4 DEF d
    <3>6. d[k] = n + 1 \/ \E j \in 1 .. l : d[k] = Chain(r)[j]
      BY <3>4, <3>5
    <3> QED BY <3>6 DEF d, l
  <2>6. Foresees(r, V) /\ Tells(r, V) = e.token
    <3>1. AtValue(r)
      BY <1>6
    <3>2. Foresees(s, V)
      BY <2>0
    <3> QED BY <2>2, <2>3, <2>5, <3>1, <3>2, ForeseesNode
  <2> QED BY <2>2, <2>6
<1>7. CASE Closes(r, c)
  BY <1>7, ForeseesEnd
<1>8. CASE Continues(r, c)
  BY <1>8, ForeseesOther
<1> QED BY <1>2, <1>5, <1>6, <1>7, <1>8

\* P is the reader before and after each token of x, all of which it needs.
Needs(P, x) ==
    /\ P[0] = NewReader
    /\ \A i \in 1 .. Len(x) : P[i - 1].expect \notin Ended /\ P[i] = Token(P[i - 1], x[i])

\* It is sound all the way.
LEMMA SoundAllTheWay ==
    ASSUME NEW T, T \cap Skipped = {}, NEW x \in Seq(T), NEW P, Needs(P, x), P[Len(x)].expect # "failed"
    PROVE  \A i \in 0 .. Len(x) : /\ Sound(P[i], T) /\ Sized(P[i], i)
                                  /\ P[i].expect # "failed"
<1> DEFINE n == Len(x)
           W == {i \in Nat : i <= n => Sound(P[i], T) /\ Sized(P[i], i)}
<1>1. n \in Nat /\ \A i \in 1 .. n : x[i] \in T
  OBVIOUS
<1> HIDE DEF n
<1>2. \A i \in 0 .. n : P[i].expect # "failed"
  <2>1. ASSUME NEW i \in 0 .. n, i # n
        PROVE  P[i].expect # "failed"
    <3>1. i + 1 \in 1 .. n /\ (i + 1) - 1 = i
      BY <1>1, <2>1
    <3>2. P[i].expect \notin Ended
      BY <3>1 DEF Needs, n
    <3> QED BY <3>2 DEF Ended
  <2> QED BY <2>1 DEF n
<1>3. 0 \in W
  BY SoundAtFirst DEF Needs
<1>4. ASSUME NEW i \in Nat, i \in W
      PROVE  i + 1 \in W
  <2>1. SUFFICES ASSUME i + 1 <= n
                 PROVE  Sound(P[i + 1], T) /\ Sized(P[i + 1], i + 1)
    OBVIOUS
  <2> DEFINE j == i + 1
  <2>2. j \in 1 .. n /\ j \in 0 .. n /\ j - 1 = i /\ i <= n
    BY <1>1, <2>1
  <2>3. Sound(P[i], T) /\ Sized(P[i], i)
    BY <1>4, <2>2
  <2> HIDE DEF j
  <2>4. P[i].expect \notin Ended /\ P[j] = Token(P[i], x[j])
    BY <2>2 DEF Needs, n
  <2>5. x[j] \in T /\ x[j] \notin Skipped /\ P[j].expect # "failed"
    BY <1>1, <1>2, <2>2
  <2>6. Sound(P[j], T) /\ Sized(P[j], i + 1)
    BY <2>3, <2>4, <2>5, SoundStep
  <2> QED BY <2>6 DEF j
<1>5. Nat \subseteq W
  <2> HIDE DEF W
  <2> QED BY <1>3, <1>4, Induction
<1> QED BY <1>1, <1>2, <1>5 DEF n

\* And it foresees where it ends.
LEMMA ForeseesAllTheWay ==
    ASSUME NEW T, T \cap Skipped = {}, NEW x \in Seq(T), NEW P, Needs(P, x), P[Len(x)].expect = "done"
    PROVE  \A i \in 1 .. Len(x) : Tells(P[i - 1], P[Len(x)].nodes) = x[i]
<1> DEFINE n == Len(x)
           V == P[n].nodes
           W == {d \in Nat : d <= n => Foresees(P[n - d], V)}
<1>1. n \in Nat /\ \A i \in 1 .. n : x[i] \in T
  OBVIOUS
<1>2. \A i \in 0 .. n : Sound(P[i], T) /\ Sized(P[i], i) /\ P[i].expect # "failed"
  BY SoundAllTheWay
<1> HIDE DEF n
<1>3. V \in Seq(NodesOf(T, Nat))
  <2>1. n \in 0 .. n
    BY <1>1
  <2> QED BY <1>2, <2>1, OfChain
<1>4. Foresees(P[n], V)
  <2>1. Len(V) \in Nat
    BY <1>3
  <2> QED BY <2>1 DEF Foresees, n
<1> HIDE DEF V
<1>5. 0 \in W
  <2>1. n - 0 = n
    BY <1>1
  <2> QED BY <1>4, <2>1
<1>6. ASSUME NEW i \in 1 .. n, Foresees(P[i], V)
      PROVE  Foresees(P[i - 1], V) /\ Tells(P[i - 1], V) = x[i]
  <2> DEFINE j == i - 1
  <2>1. j \in Nat /\ j \in 0 .. n /\ i \in 0 .. n
    BY <1>1
  <2>2. P[j].expect \notin Ended /\ P[i] = Token(P[j], x[i])
    BY DEF Needs, n
  <2> HIDE DEF j
  <2>3. Sound(P[j], T) /\ Sized(P[j], j) /\ P[i].expect # "failed"
    BY <1>2, <2>1
  <2>4. x[i] \in T /\ x[i] \notin Skipped
    BY <1>1
  <2>5. Foresees(P[j], V) /\ Tells(P[j], V) = x[i]
    BY <1>3, <1>6, <2>1, <2>2, <2>3, <2>4, ForeseesStep
  <2> QED BY <2>5 DEF j
<1>7. ASSUME NEW d \in Nat, d \in W
      PROVE  d + 1 \in W
  <2>1. SUFFICES ASSUME d + 1 <= n
                 PROVE  Foresees(P[n - (d + 1)], V)
    OBVIOUS
  <2> DEFINE i == n - d
  <2>2. i \in 1 .. n /\ n - (d + 1) = i - 1 /\ d <= n
    BY <1>1, <2>1
  <2>3. Foresees(P[i], V)
    BY <1>7, <2>2
  <2> HIDE DEF i
  <2>4. Foresees(P[i - 1], V)
    BY <1>6, <2>2, <2>3
  <2> QED BY <2>2, <2>4
<1>8. Nat \subseteq W
  <2> HIDE DEF W
  <2> QED BY <1>5, <1>7, Induction
<1>9. ASSUME NEW i \in 1 .. n
      PROVE  Tells(P[i - 1], V) = x[i]
  <2>1. n - i \in Nat /\ n - i <= n /\ n - (n - i) = i
    BY <1>1
  <2>2. Foresees(P[i], V)
    BY <1>8, <2>1
  <2> QED BY <1>6, <2>2
<1> QED BY <1>9 DEF n, V

\* So what is read as the same value is the same text.
LEMMA OneText ==
    ASSUME NEW T, T \cap Skipped = {}, NEW x \in Seq(T), NEW y \in Seq(T),
           NEW s, NEW t, Takes(NewReader, x, s), Takes(NewReader, y, t),
           s.expect = "done", t.expect = "done", s.nodes = t.nodes
    PROVE  x = y
<1>1. PICK P : Needs(P, x) /\ P[Len(x)] = s
  BY DEF Takes, Needs
<1>2. PICK Q : Needs(Q, y) /\ Q[Len(y)] = t
  BY DEF Takes, Needs
<1> DEFINE n == Len(x)
           m == Len(y)
           V == s.nodes
           W == {i \in Nat : i <= n /\ i <= m => P[i] = Q[i]}
<1>3. n \in Nat /\ m \in Nat
  OBVIOUS
<1>4. \A i \in 1 .. n : Tells(P[i - 1], V) = x[i]
  BY <1>1, ForeseesAllTheWay
<1>5. \A i \in 1 .. m : Tells(Q[i - 1], V) = y[i]
  BY <1>2, ForeseesAllTheWay
<1> HIDE DEF n, m, V
<1>6. 0 \in W
  BY <1>1, <1>2 DEF Needs
<1>7. ASSUME NEW i \in Nat, i \in W
      PROVE  i + 1 \in W
  <2>1. SUFFICES ASSUME i + 1 <= n, i + 1 <= m
                 PROVE  P[i + 1] = Q[i + 1]
    OBVIOUS
  <2> DEFINE j == i + 1
  <2>2. j \in 1 .. n /\ j \in 1 .. m /\ j - 1 = i /\ i <= n /\ i <= m
    BY <1>3, <2>1
  <2>3. P[i] = Q[i]
    BY <1>7, <2>2
  <2> HIDE DEF j
  <2>4. x[j] = y[j]
    BY <1>4, <1>5, <2>2, <2>3
  <2>5. P[j] = Token(P[i], x[j]) /\ Q[j] = Token(Q[i], y[j])
    BY <1>1, <1>2, <2>2 DEF Needs, n, m
  <2>6. P[j] = Q[j]
    BY <2>3, <2>4, <2>5
  <2> QED BY <2>6 DEF j
<1>8. Nat \subseteq W
  <2> HIDE DEF W
  <2> QED BY <1>6, <1>7, Induction
<1>9. n = m
  <2>1. CASE n < m
    <3>1. P[n] = Q[n]
      BY <1>3, <1>8, <2>1
    <3>2. Q[n].expect = "done"
      BY <1>1, <3>1 DEF n
    <3>3. n + 1 \in 1 .. m /\ (n + 1) - 1 = n
      BY <1>3, <2>1
    <3>4. Q[n].expect \notin Ended
      BY <1>2, <3>3 DEF Needs, m
    <3> QED BY <3>2, <3>4 DEF Ended
  <2>2. CASE m < n
    <3>1. P[m] = Q[m]
      BY <1>3, <1>8, <2>2
    <3>2. P[m].expect = "done"
      BY <1>2, <3>1 DEF m
    <3>3. m + 1 \in 1 .. n /\ (m + 1) - 1 = m
      BY <1>3, <2>2
    <3>4. P[m].expect \notin Ended
      BY <1>1, <3>3 DEF Needs, n
    <3> QED BY <3>2, <3>4 DEF Ended
  <2> QED BY <1>3, <2>1, <2>2
<1>10. \A i \in 1 .. n : x[i] = y[i]
  <2>1. SUFFICES ASSUME NEW i \in 1 .. n
                 PROVE  x[i] = y[i]
    OBVIOUS
  <2>2. i - 1 \in Nat /\ i - 1 <= n /\ i - 1 <= m
    BY <1>3, <1>9
  <2>3. P[i - 1] = Q[i - 1]
    BY <1>8, <2>2
  <2> QED BY <1>4, <1>5, <1>9, <2>3
<1> QED BY <1>9, <1>10, SeqEqual DEF n, m

-----------------------------------------------------------------------------
(* What is accepted *)

\* A sequence starts with another.
LEMMA Starts ==
    ASSUME NEW S, NEW x \in Seq(S), NEW y \in Seq(S)
    PROVE  IsPrefix(x, y) <=> Len(x) <= Len(y) /\ \A i \in 1 .. Len(x) : y[i] = x[i]
<1>1. Len(x) \in Nat /\ SubSeq(x, 1, Len(x)) = x
  OBVIOUS
<1>2. ASSUME Len(x) <= Len(y)
      PROVE  SubSeq(y, 1, Len(x)) \in Seq(S) /\ Len(SubSeq(y, 1, Len(x))) = Len(x)
             /\ \A i \in 1 .. Len(x) : SubSeq(y, 1, Len(x))[i] = y[i]
  BY <1>1, <1>2
<1> DEFINE z == SubSeq(y, 1, Len(x))
<1> HIDE DEF z
<1>3. ASSUME Len(x) <= Len(y), \A i \in 1 .. Len(x) : y[i] = x[i]
      PROVE  x = z
  <2>1. z \in Seq(S) /\ Len(z) = Len(x) /\ \A i \in 1 .. Len(x) : z[i] = x[i]
    BY <1>2, <1>3 DEF z
  <2> QED BY <2>1, SeqEqual
<1>4. IsPrefix(x, y) <=> Len(x) <= Len(y) /\ x = z
  BY <1>1 DEF IsPrefix, z
<1> QED BY <1>2, <1>3, <1>4 DEF z

\* A sequence of at most n members.
LEMMA Bounded ==
    ASSUME NEW S, NEW n \in Nat, NEW x
    PROVE  x \in BoundedSeq(S, n) <=> x \in Seq(S) /\ Len(x) <= n
<1>1. ASSUME x \in BoundedSeq(S, n)
      PROVE  x \in Seq(S) /\ Len(x) <= n
  <2>1. PICK m \in 0 .. n : x \in [1 .. m -> S]
    BY <1>1 DEF BoundedSeq, SeqOf
  <2>2. x \in Seq(S) /\ Len(x) = m
    BY <2>1
  <2> QED BY <2>2
<1>2. ASSUME x \in Seq(S), Len(x) <= n
      PROVE  x \in BoundedSeq(S, n)
  <2>1. Len(x) \in 0 .. n /\ x \in [1 .. Len(x) -> S]
    BY <1>2, LenProperties
  <2> QED BY <2>1 DEF BoundedSeq, SeqOf
<1> QED BY <1>1, <1>2

\* Where a value is complete.
LEMMA DoneSomewhere ==
    ASSUME NEW S, NEW y \in Seq(S), IsRead(y)
    PROVE  \E x \in Seq(S) : IsPrefix(x, y) /\ Takes(NewReader, x, ReadText(y))
<1> DEFINE n == Len(y)
<1>1. PICK R : Reads(R, NewReader, y) /\ ReadText(y) = R[n]
  BY Reading
<1> DEFINE W == {i \in 0 .. n : R[i].expect \in Ended}
<1>2. n \in Nat /\ n \in W
  BY <1>1 DEF IsRead, Ended
<1>3. PICK m \in W : \A i \in W : m <= i
  <2>1. W \subseteq Nat /\ W # {}
    BY <1>2
  <2> HIDE DEF W
  <2> QED BY <2>1, LeastElement
<1>4. m \in 0 .. n /\ R[m].expect \in Ended /\ \A i \in 0 .. n : i < m => R[i].expect \notin Ended
  BY <1>3
<1>5. R[m] = ReadText(y)
  BY <1>1, <1>4, RestIgnored
<1> DEFINE x == SubSeq(y, 1, m)
<1>6. x \in Seq(S) /\ Len(x) = m /\ \A i \in 1 .. m : x[i] = y[i]
  BY <1>2, <1>4
<1> HIDE DEF x, n, W
<1>7. IsPrefix(x, y)
  <2>1. Len(x) <= Len(y)
    BY <1>2, <1>4, <1>6 DEF n
  <2> QED BY <1>6, <2>1, Starts
<1>8. Takes(NewReader, x, R[m])
  <2>1. R[0] = NewReader
    BY <1>1 DEF Reads
  <2>2. ASSUME NEW i \in 1 .. m
        PROVE  R[i - 1].expect \notin Ended /\ R[i] = Token(R[i - 1], x[i])
    <3>1. i - 1 \in 0 .. n /\ i - 1 < m /\ i \in 1 .. n
      BY <1>2, <1>4
    <3> QED BY <1>1, <1>4, <1>6, <3>1 DEF Reads, n
  <2> QED BY <1>6, <2>1, <2>2 DEF Takes
<1> QED BY <1>5, <1>6, <1>7, <1>8

\* Few tokens make few nodes, held by earlier ones.
LEMMA FewNodes ==
    ASSUME NEW v \in Seq(NodesOf(Tokens \ Skipped, Nat)), v # <<>>,
           \A k \in 1 .. Len(v) : HolderOK(v, k),
           NEW i \in Nat, i <= MaxTokens, i >= 2 * Len(v) - 1
    PROVE  v \in Values /\ IsTree(v)
<1> DEFINE n == Len(v)
<1>1. n \in Nat /\ DOMAIN v = 1 .. n
  OBVIOUS
<1>2. IsValue(v)
  BY <1>1 DEF IsValue
<1>3. \A k \in 1 .. n : v[k] \in JsonNodes
  <2>1. \A k \in 1 .. n : v[k] \in NodesOf(Tokens \ Skipped, Nat)
    OBVIOUS
  <2> QED BY <2>1, MoreTokens
<1> HIDE DEF n
<1>4. v \in Seq(JsonNodes)
  BY <1>1, <1>3 DEF n
<1>5. IsTree(v)
  BY <1>2, <1>4 DEF IsTree
<1>6. n <= MaxNodes
  BY <1>1, BoundsAssumption DEF n
<1>7. ASSUME NEW k \in 1 .. n
      PROVE  v[k] \in NodesOf(Tokens, 0 .. MaxNodes - 1)
  <2> DEFINE e == v[k]
  <2>1. /\ e \in [type : Compounds \cup Literals \cup {"str"}, holder : Nat, token : Tokens \ Skipped,
                  name : ((Tokens \ Skipped) \cap Strings) \cup {"none"}]
        /\ NodeOK(e)
    BY DEF NodesOf, n
  <2>2. e.holder \in 0 .. MaxNodes - 1
    <3>1. e.holder \in Nat /\ MaxNodes \in Nat
      BY <2>1, BoundsAssumption
    <3>2. CASE k = 1
      BY <1>1, <1>5, <1>6, <3>1, <3>2, OfTree
    <3>3. CASE k # 1
      <4>1. e.holder \in 1 .. k - 1
        BY <1>5, <3>3, OfTree DEF n
      <4> QED BY <1>1, <1>6, <3>1, <4>1
    <3> QED BY <3>2, <3>3
  <2> HIDE DEF e
  <2>3. /\ e = [type |-> e.type, holder |-> e.holder, token |-> e.token, name |-> e.name]
        /\ e.type \in Compounds \cup Literals \cup {"str"} /\ e.token \in Tokens
        /\ e.name \in (Tokens \cap Strings) \cup {"none"}
    BY <2>1
  <2>4. e \in [type : Compounds \cup Literals \cup {"str"}, holder : 0 .. MaxNodes - 1,
               token : Tokens, name : (Tokens \cap Strings) \cup {"none"}]
    BY <2>2, <2>3
  <2> QED BY <2>1, <2>4 DEF NodesOf, e
<1>8. v \in Seq(NodesOf(Tokens, 0 .. MaxNodes - 1))
  <2> DEFINE S == NodesOf(Tokens, 0 .. MaxNodes - 1)
  <2>1. \A k \in 1 .. n : v[k] \in S
    BY <1>7
  <2> HIDE DEF S
  <2>2. v \in Seq(S)
    BY <1>1, <2>1 DEF n
  <2> QED BY <2>2 DEF S
<1>9. v \in Values
  <2>1. v \in BoundedSeq(NodesOf(Tokens, 0 .. MaxNodes - 1), MaxNodes)
    BY <1>6, <1>8, Bounded, BoundsAssumption DEF n
  <2> QED BY <1>2, <2>1 DEF Values
<1> QED BY <1>5, <1>9

\* And these are values of any tokens.
LEMMA OfValues ==
    ASSUME NEW v \in Values
    PROVE  IsTree(v)
<1> DEFINE S == NodesOf(Tokens, 0 .. MaxNodes - 1)
<1>1. v \in Seq(S) /\ IsValue(v)
  BY Bounded, BoundsAssumption DEF Values
<1>2. \A e \in S : e \in NodesOf(Tokens, Nat)
  <2>1. 0 .. MaxNodes - 1 \subseteq Nat
    OBVIOUS
  <2> QED BY <2>1 DEF NodesOf
<1>3. \A e \in S : e \in JsonNodes
  BY <1>2, MoreTokens
<1> HIDE DEF S
<1>4. v \in Seq(JsonNodes)
  BY <1>1, <1>3
<1> QED BY <1>1, <1>4 DEF IsTree

\* The text of a value in an accepted text, and its only one.
LEMMA TextOfRead ==
    ASSUME NEW y \in Seq(Tokens \ Skipped), Len(y) <= MaxTokens, IsRead(y)
    PROVE  /\ ValueOf(y) \in Values
           /\ WriteText(ValueOf(y)) \in Seq(Symbols \cup (Tokens \ Skipped))
           /\ IsPrefix(WriteText(ValueOf(y)), y)
<1> DEFINE T == Tokens \ Skipped
           S == Symbols \cup T
           s == ReadText(y)
           V == ValueOf(y)
<1>1. PICK x \in Seq(T) : IsPrefix(x, y) /\ Takes(NewReader, x, s)
  BY DoneSomewhere
<1>2. s.expect = "done" /\ s.nodes = V
  BY DEF IsRead, ValueOf
<1> HIDE DEF s, V
<1>3. PICK P : Needs(P, x) /\ P[Len(x)] = s
  BY <1>1 DEF Takes, Needs
<1>4. Sound(s, T) /\ Sized(s, Len(x)) /\ Len(x) \in Nat
  <2>1. T \cap Skipped = {} /\ Len(x) \in Nat /\ Len(x) \in 0 .. Len(x)
    BY <1>1
  <2> HIDE DEF T
  <2> QED BY <1>1, <1>2, <1>3, <2>1, SoundAllTheWay
<1>5. V \in Seq(NodesOf(T, Nat)) /\ V # <<>> /\ \A k \in 1 .. Len(V) : HolderOK(V, k)
  BY <1>2, <1>4, OfChain DEF Sound
<1>6. Len(x) >= 2 * Len(V) - 1
  BY <1>2, <1>4 DEF Sized
<1>7. Len(x) <= MaxTokens
  <2>1. Len(x) <= Len(y) /\ Len(y) \in Nat /\ MaxTokens \in Nat
    BY <1>1, BoundsAssumption DEF IsPrefix
  <2> QED BY <1>4, <2>1
<1>8. V \in Values /\ IsTree(V)
  BY <1>4, <1>5, <1>6, <1>7, FewNodes
<1>9. WriteText(V) = x
  <2>1. PICK t : Takes(NewReader, WriteText(V), t) /\ t.expect = "done" /\ t.nodes = V
    BY <1>8, ValueBack
  <2>2. WriteText(V) \in Seq(S)
    BY <1>8, ValueBack, Wider
  <2>3. x \in Seq(S)
    BY <1>1, Wider
  <2>4. S \cap Skipped = {}
    BY Kinds DEF Symbols
  <2> HIDE DEF S, T
  <2> QED BY <1>1, <1>2, <2>1, <2>2, <2>3, <2>4, OneText
<1>10. x \in Seq(S)
  BY <1>1, Wider
<1> QED BY <1>1, <1>8, <1>9, <1>10 DEF V

\* A text that starts with that of a value is read as this one.
LEMMA ReadOfText ==
    ASSUME NEW v \in Values, NEW y \in Seq(Tokens), IsPrefix(WriteText(v), y)
    PROVE  IsRead(y) /\ ValueOf(y) = v
<1> DEFINE x == WriteText(v)
           S == Symbols \cup Tokens
<1>1. IsTree(v)
  BY OfValues
<1>2. x \in Seq(Symbols)
  BY <1>1, ValueBack
<1>3. PICK s : Takes(NewReader, x, s) /\ s.expect = "done" /\ s.nodes = v
  BY <1>1, ValueBack
<1> HIDE DEF x
<1>4. x \in Seq(S) /\ y \in Seq(S)
  BY <1>2, Wider
<1> HIDE DEF S
<1>5. Len(x) <= Len(y) /\ \A i \in 1 .. Len(x) : y[i] = x[i]
  BY <1>4, Starts DEF x
<1>6. ReadText(y) = s
  BY <1>3, <1>4, <1>5, ReadAtStart
<1> QED BY <1>3, <1>6 DEF IsRead, ValueOf

\* A text of few tokens is read when, white space aside, it starts with the text of a
\* value, and as that value.
THEOREM OnlyValuesRead ==
    ASSUME NEW x \in BoundedSeq(Tokens, MaxTokens),
           NEW text, text = Only(x, Tokens \ Skipped),
           NEW starts, starts = {w \in Texts : IsPrefix(w.text, text)}
    PROVE  /\ IsRead(x) <=> starts # {}
           /\ IsRead(x) => {w.value : w \in starts} = {ValueOf(x)}
<1>1. x \in Seq(Tokens) /\ Len(x) <= MaxTokens
  BY Bounded, BoundsAssumption
<1>2. text \in Seq(Tokens \ Skipped) /\ Len(text) <= Len(x) /\ ReadText(text) = ReadText(x)
  BY <1>1, ReadOnly
<1>3. (IsRead(text) <=> IsRead(x)) /\ ValueOf(text) = ValueOf(x)
  BY <1>2 DEF IsRead, ValueOf
<1>4. Len(text) <= MaxTokens
  <2>1. Len(text) \in Nat /\ Len(x) \in Nat /\ MaxTokens \in Nat
    BY <1>1, <1>2, BoundsAssumption, LenProperties
  <2> QED BY <1>1, <1>2, <2>1
<1>5. text \in Seq(Tokens)
  BY <1>2, Wider
<1>6. ASSUME NEW w \in starts
      PROVE  IsRead(x) /\ w.value = ValueOf(x)
  <2>1. w \in Texts /\ IsPrefix(w.text, text)
    OBVIOUS
  <2>2. PICK v \in Values : w = [value |-> v, text |-> WriteText(v)]
    BY <2>1 DEF Texts
  <2>3. w.value = v /\ w.text = WriteText(v)
    BY <2>2
  <2>4. IsRead(text) /\ ValueOf(text) = v
    BY <1>5, <2>1, <2>3, ReadOfText
  <2> QED BY <1>3, <2>3, <2>4
<1>7. ASSUME IsRead(x)
      PROVE  \E w \in starts : w.value = ValueOf(x)
  <2> DEFINE v == ValueOf(text)
             w == [value |-> v, text |-> WriteText(v)]
  <2>1. v \in Values /\ IsPrefix(WriteText(v), text)
    BY <1>2, <1>3, <1>4, <1>7, TextOfRead
  <2> HIDE DEF v
  <2>2. w \in Texts /\ w.text = WriteText(v) /\ w.value = v
    BY <2>1 DEF Texts
  <2> HIDE DEF w
  <2>3. w \in starts
    BY <2>1, <2>2
  <2> QED BY <1>3, <2>2, <2>3 DEF v
<1>8. IsRead(x) <=> starts # {}
  BY <1>6, <1>7
<1>9. ASSUME IsRead(x)
      PROVE  {w.value : w \in starts} = {ValueOf(x)}
  <2>1. \A a \in {w.value : w \in starts} : a = ValueOf(x)
    BY <1>6
  <2>2. ValueOf(x) \in {w.value : w \in starts}
    BY <1>7, <1>9
  <2> QED BY <2>1, <2>2
<1> QED BY <1>8, <1>9

(***************************************************************************)
(* The specification                                                       *)
(***************************************************************************)

\* What is written is the text of the source, and the result is read from it with what
\* follows it; what arrives is of few tokens, and the result is read from it alone.
TextInv ==
    /\ codec \in DOMAIN Sources =>
        /\ source \in Sources[codec]
        /\ written # <<>> => written = WriteAs(codec, source)
        /\ result # <<>> => /\ written # <<>>
                            /\ \E f \in Followers[codec] : result = ReadAs(codec, written \o f)
    /\ codec = "any" =>
        /\ written \in BoundedSeq(Tokens, MaxTokens)
        /\ result # <<>> => written # <<>> /\ result = ReadAs("value", written)

\* It is kept by every step.
LEMMA TextsKept == Spec => []TextInv
<1>0. "any" \notin DOMAIN Sources
  BY TextsAssumption
<1>1. Init => TextInv
  <2>1. <<>> \in BoundedSeq(Tokens, MaxTokens)
    <3>1. <<>> \in Seq(Tokens) /\ Len(<<>>) = 0
      OBVIOUS
    <3>2. MaxTokens \in Nat /\ Len(<<>>) <= MaxTokens
      BY <3>1, BoundsAssumption
    <3> QED BY <3>1, <3>2, Bounded, Zenon
  <2> QED BY <1>0, <2>1 DEF Init, TextInv
<1>2. TextInv /\ [Next]_vars => TextInv'
  <2> SUFFICES ASSUME TextInv, [Next]_vars PROVE TextInv'
    OBVIOUS
  <2>1. CASE Write
    <3>1. /\ codec' = codec /\ source' = source /\ result' = result
          /\ written = <<>> /\ written' = WriteAs(codec, source) /\ codec # "any"
      BY <2>1 DEF Write
    <3>2. WriteAs(codec, source)' = WriteAs(codec, source)
      BY <3>1 DEF WriteAs
    <3>3. codec \in DOMAIN Sources => result = <<>>
      BY <3>1 DEF TextInv
    <3> QED BY <3>1, <3>2, <3>3 DEF TextInv
  <2>2. CASE Arrive
    <3>1. /\ codec' = codec /\ codec = "any" /\ written = <<>> /\ result' = result
          /\ written' \in BoundedSeq(Tokens, MaxTokens)
      BY <2>2 DEF Arrive
    <3>2. result = <<>>
      BY <3>1 DEF TextInv
    <3> QED BY <1>0, <3>1, <3>2 DEF TextInv
  <2>3. CASE Read
    <3>1. codec' = codec /\ source' = source /\ written' = written /\ written # <<>>
      BY <2>3 DEF Read
    <3>2. WriteAs(codec, source)' = WriteAs(codec, source)
      BY <3>1 DEF WriteAs
    <3>3. codec # "any" => \E f \in Followers[codec] : result' = ReadAs(codec, written \o f)
      BY <2>3 DEF Read
    <3>4. codec = "any" => result' = ReadAs("value", written)
      BY <2>3 DEF Read
    <3> QED BY <1>0, <3>1, <3>2, <3>3, <3>4 DEF TextInv, ReadAs
  <2>4. CASE UNCHANGED vars
    BY <2>4 DEF TextInv, vars, WriteAs, ReadAs
  <2> QED BY <2>1, <2>2, <2>3, <2>4 DEF Next
<1> QED BY <1>1, <1>2, PTL DEF Spec

\* What encode() has written is the bits of its bytes, six to a character, padded to a
\* multiple of four.
THEOREM SixBitsWritten == Spec => []WritesSixBits
<1>1. TextInv => WritesSixBits
  <2> SUFFICES ASSUME TextInv, codec = "base64", written # <<>> PROVE WritesSixBits
    BY DEF WritesSixBits
  <2>1. source \in Seq(Bytes) /\ written = Encode(source)
    BY TextsAssumption DEF TextInv, WriteAs
  <2>2. Len(written) = 4 * ((Len(source) + 2) \div 3) /\ DOMAIN written = 1 .. Len(written)
    BY <2>1, EncodeText
  <2>3. \A i \in 1 .. Len(written) :
          written[i] = IF 6 * (i - 1) < 8 * Len(source)
                       THEN Alphabet[SixBits(source, 6 * (i - 1))] ELSE Pad
    BY <2>1, EncodeSixBits
  <2> QED BY <2>2, <2>3 DEF WritesSixBits
<1> QED BY <1>1, TextsKept, PTL

\* The token of a device and every string are read as they were written, whatever follows
\* them in the text: for all texts of bytes, of any length.
THEOREM TextsReadBack == Spec => []TextsComeBack
<1>1. TextInv => TextsComeBack
  <2> SUFFICES ASSUME TextInv, codec \in {"base64", "string"}, result # <<>> PROVE result = source
    BY DEF TextsComeBack
  <2>1. source \in Sources[codec] /\ written = WriteAs(codec, source)
    BY TextsAssumption DEF TextInv
  <2>2. PICK f \in Followers[codec] : result = ReadAs(codec, written \o f)
    BY TextsAssumption DEF TextInv
  <2>3. source \in Seq(Bytes) /\ f \in Seq(Bytes)
    BY <2>1, TextsAssumption
  <2>4. CASE codec = "base64"
    <3>1. f # <<>> => ~ IsBase64(f[1])
      BY <2>4, TextsAssumption
    <3>2. result = Decode(Encode(source) \o f)
      BY <2>1, <2>2, <2>4 DEF WriteAs, ReadAs
    <3> QED BY <2>3, <3>1, <3>2, TextRoundTrip
  <2>5. CASE codec = "string"
    <3>1. result = ReadString(WriteString(source) \o f)
      BY <2>1, <2>2, <2>5 DEF WriteAs, ReadAs
    <3> QED BY <2>3, <3>1, StringRoundTrip
  <2> QED BY <2>4, <2>5
<1> QED BY <1>1, TextsKept, PTL

\* A value is read as it was written, with every nesting and every name, whatever follows
\* it in the text: for all values, however deep.
THEOREM ValuesReadBack == Spec => []ValuesComeBack
<1>1. TextInv => ValuesComeBack
  <2> SUFFICES ASSUME TextInv, codec = "value", result # <<>> PROVE result = source
    BY DEF ValuesComeBack
  <2>1. source \in Sources["value"] /\ written = WriteText(source)
    BY TextsAssumption DEF TextInv, WriteAs
  <2>2. PICK f \in Followers["value"] : result = ReadAs("value", written \o f)
    BY TextsAssumption DEF TextInv
  <2>3. f \in Seq(Range(f)) /\ IsTree(source)
    BY <2>1, TextsAssumption DEF IsTree, JsonNodes, Symbols
  <2>4. IsRead(written \o f) /\ ValueOf(written \o f) = source
    BY <2>1, <2>3, ValueRoundTrip
  <2> QED BY <2>2, <2>4 DEF ReadAs
<1> QED BY <1>1, TextsKept, PTL

\* Of what arrives, the texts of values are read, each as its value, and nothing else is:
\* for texts over any tokens, up to any length.
THEOREM OnlyValuesAccepted == Spec => []AcceptsValues
<1>1. TextInv => AcceptsValues
  <2> SUFFICES ASSUME TextInv, codec = "any", written # <<>> PROVE AcceptsValues
    BY DEF AcceptsValues
  <2>1. /\ written \in BoundedSeq(Tokens, MaxTokens)
        /\ result # <<>> => result = ReadAs("value", written)
    BY DEF TextInv
  <2> DEFINE text == Only(written, Tokens \ Skipped)
             starts == {w \in Texts : IsPrefix(w.text, text)}
  <2>2. /\ IsRead(written) <=> starts # {}
        /\ IsRead(written) => {w.value : w \in starts} = {ValueOf(written)}
    BY <2>1, OnlyValuesRead
  <2>3. result # <<>> => IsRead(written) /\ result = ValueOf(written)
    BY <2>1 DEF ReadAs
  <2> QED BY <2>2, <2>3 DEF AcceptsValues
<1> QED BY <1>1, TextsKept, PTL

=============================================================================
