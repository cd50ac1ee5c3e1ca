--------------------------- MODULE SequenceFacts ---------------------------
(***************************************************************************)
(* Induction over the naturals and over a sequence of pieces, for the      *)
(* proofs about texts: what the parser of HTTP makes of a request, and     *)
(* what the codecs write and read.                                         *)
(***************************************************************************)
EXTENDS SequencesExt, SequenceTheorems, WellFoundedInduction, TLAPS

-----------------------------------------------------------------------------
(* Induction, for sets: the library states it for predicates *)

\* A set of naturals has a least element.
LEMMA LeastElement ==
    ASSUME NEW T, T \subseteq Nat, T # {}
    PROVE  \E x \in T : \A y \in T : x <= y
<1>1. \E x \in T : \A y \in T : ~ (<<y, x>> \in OpToRel(<, Nat))
  BY WFMin, NatLessThanWellFounded, Zenon
<1>2. PICK x \in T : \A y \in T : ~ (<<y, x>> \in OpToRel(<, Nat))
  BY <1>1
<1>3. \A y \in T : ~ (y < x)
  BY <1>2, Zenon DEF OpToRel
<1> QED BY <1>3

\* A set with 0 and each successor of a member has all naturals.
LEMMA Induction ==
    ASSUME NEW T, 0 \in T, \A n \in Nat : n \in T => n + 1 \in T
    PROVE  Nat \subseteq T
<1> SUFFICES ASSUME Nat \ T # {} PROVE FALSE
  OBVIOUS
<1>1. PICK x \in Nat \ T : \A y \in Nat \ T : x <= y
  BY LeastElement
<1>2. x - 1 \in Nat /\ x - 1 \in T
  BY <1>1
<1> QED BY <1>2

-----------------------------------------------------------------------------
(* Concatenation of a sequence of sequences *)

\* FlattenSeq, piece by piece.
LEMMA Flattening ==
    ASSUME NEW S, NEW s \in Seq(Seq(S))
    PROVE  \E F \in [0 .. Len(s) -> Seq(S)] :
              /\ F[0] = <<>>
              /\ \A j \in 1 .. Len(s) : F[j] = F[j - 1] \o s[j]
              /\ FlattenSeq(s) = F[Len(s)]
<1> DEFINE Eq(F, n) == F = [i \in 1 .. n |-> IF i = 1 THEN s[i] ELSE F[i - 1] \o s[i]]
           T == {n \in Nat : n <= Len(s) => \E F : Eq(F, n)}
<1>1. 0 \in T
  <2> DEFINE F == [i \in 1 .. 0 |-> s[i]]
  <2>1. Eq(F, 0)
    OBVIOUS
  <2> QED BY <2>1
<1>2. ASSUME NEW n \in Nat, n \in T PROVE n + 1 \in T
  <2> HIDE DEF Eq
  <2> SUFFICES ASSUME n + 1 <= Len(s) PROVE \E F : Eq(F, n + 1)
    OBVIOUS
  <2> USE DEF Eq
  <2>0. \E F : Eq(F, n)
    <3> HIDE DEF Eq
    <3> QED BY <1>2
  <2>1. PICK G : Eq(G, n)
    BY <2>0
  <2> DEFINE F == [i \in 1 .. n + 1 |->
                     IF i <= n THEN G[i] ELSE IF i = 1 THEN s[i] ELSE G[i - 1] \o s[i]]
  <2>2. \A i \in 1 .. n + 1 : F[i] = IF i = 1 THEN s[i] ELSE F[i - 1] \o s[i]
    <3> SUFFICES ASSUME NEW i \in 1 .. n + 1
                 PROVE  F[i] = IF i = 1 THEN s[i] ELSE F[i - 1] \o s[i]
      OBVIOUS
    <3>1. CASE i <= n
      <4>1. G[i] = IF i = 1 THEN s[i] ELSE G[i - 1] \o s[i]
        <5>1. i \in 1 .. n
          BY <3>1
        <5> QED BY <2>1, <5>1, Zenon
      <4> QED BY <3>1, <4>1
    <3>2. CASE i = n + 1
      BY <3>2
    <3> QED BY <3>1, <3>2
  <2>3. Eq(F, n + 1)
    <3> DEFINE E == [i \in 1 .. n + 1 |-> IF i = 1 THEN s[i] ELSE F[i - 1] \o s[i]]
    <3>1. F = [i \in 1 .. n + 1 |-> F[i]]
      OBVIOUS
    <3>2. F = E
      <4> HIDE DEF F
      <4> QED BY <2>2, <3>1
    <3> HIDE DEF F
    <3> QED BY <3>2
  <2> QED BY <2>3
<1> HIDE DEF Eq, T
<1>3. \E F : Eq(F, Len(s))
  <2>1. Nat \subseteq T
    BY <1>1, <1>2, Induction
  <2> QED BY <2>1 DEF T
<1> DEFINE flatten == CHOOSE F : Eq(F, Len(s))
<1>4. Eq(flatten, Len(s))
  BY <1>3
<1>5. FlattenSeq(s) = IF Len(s) = 0 THEN s ELSE flatten[Len(s)]
  BY DEF FlattenSeq, Eq
<1> HIDE DEF flatten
<1>6. \A j \in 1 .. Len(s) : flatten[j] = IF j = 1 THEN s[j] ELSE flatten[j - 1] \o s[j]
  BY <1>4 DEF Eq
<1>7. \A j \in 1 .. Len(s) : s[j] \in Seq(S)
  OBVIOUS
<1> DEFINE G == [j \in 0 .. Len(s) |-> IF j = 0 THEN <<>> ELSE flatten[j]]
<1>8. G[0] = <<>> /\ FlattenSeq(s) = G[Len(s)] /\ DOMAIN G = 0 .. Len(s)
  <2>1. Len(s) = 0 => s = <<>>
    OBVIOUS
  <2> QED BY <1>5, <2>1
<1>9. \A j \in 1 .. Len(s) : G[j] = IF j = 1 THEN s[j] ELSE G[j - 1] \o s[j]
  <2> SUFFICES ASSUME NEW j \in 1 .. Len(s) PROVE G[j] = IF j = 1 THEN s[j] ELSE G[j - 1] \o s[j]
    OBVIOUS
  <2>1. G[j] = flatten[j] /\ (j # 1 => G[j - 1] = flatten[j - 1])
    OBVIOUS
  <2> HIDE DEF G
  <2> QED BY <1>6, <2>1, Zenon
<1>10. G = [j \in 0 .. Len(s) |-> G[j]]
  OBVIOUS
<1> HIDE DEF G
<1> DEFINE Q == {n \in Nat : n <= Len(s) => G[n] \in Seq(S)}
<1>11. Nat \subseteq Q
  <2>1. 0 \in Q
    <3>1. <<>> \in Seq(S)
      OBVIOUS
    <3> QED BY <1>8, <3>1
  <2>2. ASSUME NEW n \in Nat, n \in Q PROVE n + 1 \in Q
    <3> SUFFICES ASSUME n + 1 <= Len(s) PROVE G[n + 1] \in Seq(S)
      OBVIOUS
    <3>1. G[n] \in Seq(S) /\ s[n + 1] \in Seq(S)
      BY <1>7, <2>2
    <3>2. n + 1 \in 1 .. Len(s) /\ (n + 1) - 1 = n
      OBVIOUS
    <3>3. G[n + 1] = s[n + 1] \/ G[n + 1] = G[n] \o s[n + 1]
      BY <1>9, <3>2, Zenon
    <3>4. G[n] \o s[n + 1] \in Seq(S)
      BY <3>1
    <3> QED BY <3>1, <3>3, <3>4
  <2> HIDE DEF Q
  <2> QED BY <2>1, <2>2, Induction
<1>12. G \in [0 .. Len(s) -> Seq(S)]
  <2>1. ASSUME NEW j \in 0 .. Len(s) PROVE G[j] \in Seq(S)
    BY <1>11
  <2> HIDE DEF Q
  <2> QED BY <1>10, <2>1
<1>13. \A j \in 1 .. Len(s) : G[j] = G[j - 1] \o s[j]
  <2> SUFFICES ASSUME NEW j \in 1 .. Len(s) PROVE G[j] = G[j - 1] \o s[j]
    OBVIOUS
  <2>1. CASE j = 1
    <3>1. G[j] = s[j] /\ s[j] \in Seq(S)
      BY <1>7, <1>9, <2>1
    <3>2. <<>> \o s[j] = s[j]
      BY <3>1, ConcatEmptySeq
    <3>3. G[j - 1] = <<>>
      BY <1>8, <2>1
    <3> QED BY <3>1, <3>2, <3>3
  <2>2. CASE j # 1
    BY <1>9, <2>2
  <2> QED BY <2>1, <2>2
<1> QED BY <1>8, <1>12, <1>13

-----------------------------------------------------------------------------
(* Pieces of texts *)

\* One element and one more.
LEMMA OneMore ==
    ASSUME NEW S, NEW c \in S, NEW e \in S
    PROVE  <<c>> \in Seq(S) /\ Append(<<c>>, e) = <<c, e>>
<1> DEFINE a == <<c>>
           w == <<c, e>>
<1>1. a \in Seq(S)
  OBVIOUS
<1>2. Len(a) = 1 /\ a[1] = c
  OBVIOUS
<1>3. w \in Seq(S) /\ Len(w) = 2 /\ w[1] = c /\ w[2] = e
  OBVIOUS
<1> HIDE DEF a, w
<1>4. /\ Append(a, e) \in Seq(S) /\ Len(Append(a, e)) = Len(a) + 1
      /\ Append(a, e)[Len(a) + 1] = e
  BY <1>1
<1>5. \A i \in 1 .. Len(a) : Append(a, e)[i] = a[i]
  BY <1>1
<1>6. \A i \in 1 .. 2 : Append(a, e)[i] = w[i]
  BY <1>2, <1>3, <1>4, <1>5
<1>7. Append(a, e) = w
  BY <1>2, <1>3, <1>4, <1>6, SeqEqual
<1> QED BY <1>1, <1>7 DEF a, w

\* Appending to the end of two pieces.
LEMMA AppendAfter ==
    ASSUME NEW S, NEW v \in Seq(S), NEW x \in Seq(S), NEW c \in S
    PROVE  v \o Append(x, c) = Append(v \o x, c)
BY AppendIsConcat, ConcatAssociative, ConcatProperties

\* Pieces put together in either order.
LEMMA Regrouped ==
    ASSUME NEW S, NEW a \in Seq(S), NEW b \in Seq(S), NEW e \in Seq(S)
    PROVE  a \o (b \o e) = a \o b \o e
BY ConcatAssociative

\* A sequence over a set is one over a larger set.
LEMMA Wider ==
    ASSUME NEW S, NEW T, S \subseteq T, NEW x \in Seq(S)
    PROVE  x \in Seq(T)
OBVIOUS

\* A piece of a text.
LEMMA Piece ==
    ASSUME NEW S, NEW x \in Seq(S), NEW t \in Nat, NEW k \in Nat, t + k <= Len(x)
    PROVE  SubSeq(x, t + 1, t + k) \in Seq(S) /\ Len(SubSeq(x, t + 1, t + k)) = k
<1>1. /\ t + 1 \in Int /\ t + k \in Int /\ Len(x) \in Nat
      /\ \A i \in t + 1 .. t + k : x[i] \in S
  OBVIOUS
<1>2. /\ SubSeq(x, t + 1, t + k) \in Seq(S)
      /\ Len(SubSeq(x, t + 1, t + k)) = IF t + 1 <= t + k THEN t + k - (t + 1) + 1 ELSE 0
  BY <1>1, SubSeqProperties
<1> QED BY <1>2

\* Two pieces that meet.
LEMMA Joined ==
    ASSUME NEW S, NEW b \in Seq(S), NEW p \in Nat, NEW q \in Nat, p <= q, q <= Len(b)
    PROVE  SubSeq(b, 1, p) \o SubSeq(b, p + 1, q) = SubSeq(b, 1, q)
<1> DEFINE x == SubSeq(b, 1, p)
           y == SubSeq(b, p + 1, q)
           z == SubSeq(b, 1, q)
<1>1. \A i \in 1 .. q : b[i] \in S
  OBVIOUS
<1>2. x \in Seq(S) /\ Len(x) = p /\ \A i \in 1 .. p : x[i] = b[i]
  OBVIOUS
<1>3. z \in Seq(S) /\ Len(z) = q /\ \A i \in 1 .. q : z[i] = b[i]
  OBVIOUS
<1>4. y \in Seq(S) /\ Len(y) = q - p /\ \A i \in 1 .. q - p : y[i] = b[p + i]
  OBVIOUS
<1> HIDE DEF x, y, z
<1>5. /\ x \o y \in Seq(S) /\ Len(x \o y) = Len(x) + Len(y)
      /\ \A i \in 1 .. Len(x) + Len(y) : (x \o y)[i] = IF i <= Len(x) THEN x[i] ELSE y[i - Len(x)]
  BY <1>2, <1>4, ConcatProperties
<1> DEFINE w == x \o y
<1>6. w \in Seq(S) /\ Len(w) = q /\ \A i \in 1 .. q : w[i] = IF i <= p THEN x[i] ELSE y[i - p]
  BY <1>2, <1>4, <1>5
<1> HIDE DEF w
<1>7. ASSUME NEW i \in 1 .. q PROVE w[i] = z[i]
  <2>1. CASE i <= p
    BY <1>2, <1>3, <1>6, <2>1
  <2>2. CASE i > p
    <3>1. i - p \in 1 .. q - p /\ p + (i - p) = i
      BY <2>2
    <3>2. y[i - p] = b[i]
      BY <1>4, <3>1
    <3> QED BY <1>3, <1>6, <2>2, <3>2
  <2> QED BY <2>1, <2>2
<1>8. w = z
  BY <1>3, <1>6, <1>7, SeqEqual
<1> QED BY <1>8 DEF w, x, y, z

\* Where each piece is in the whole: piece j after place l[j - 1].
Placed(l, p, x) ==
    /\ l[0] = 0 /\ l[Len(p)] = Len(x)
    /\ \A j \in 1 .. Len(p) :
          /\ l[j] = l[j - 1] + Len(p[j]) /\ l[j] <= Len(x)
          /\ \A k \in 1 .. Len(p[j]) : x[l[j - 1] + k] = p[j][k]

\* Every whole has such places.
LEMMA Places ==
    ASSUME NEW S, NEW p \in Seq(Seq(S))
    PROVE  FlattenSeq(p) \in Seq(S) /\ \E l \in [0 .. Len(p) -> Nat] : Placed(l, p, FlattenSeq(p))
<1>0. PICK x : x = FlattenSeq(p)
  OBVIOUS
<1>1. PICK F \in [0 .. Len(p) -> Seq(S)] :
        /\ F[0] = <<>>
        /\ \A j \in 1 .. Len(p) : F[j] = F[j - 1] \o p[j]
        /\ x = F[Len(p)]
  BY <1>0, Flattening
<1> DEFINE N == Len(p)
           l == [j \in 0 .. N |-> Len(F[j])]
<1>2. N \in Nat /\ \A j \in 1 .. N : p[j] \in Seq(S) /\ Len(p[j]) \in Nat
  <2>1. ASSUME NEW j \in 1 .. N PROVE p[j] \in Seq(S)
    OBVIOUS
  <2>2. ASSUME NEW a \in Seq(S) PROVE Len(a) \in Nat
    OBVIOUS
  <2> QED BY <2>1, <2>2
<1>3. \A j \in 0 .. N : F[j] \in Seq(S)
  BY <1>1
<1>4. \A j \in 0 .. N : l[j] = Len(F[j]) /\ l[j] \in Nat
  <2>1. ASSUME NEW a \in Seq(S) PROVE Len(a) \in Nat
    OBVIOUS
  <2> QED BY <1>3, <2>1
<1>5. l[0] = 0 /\ l[N] = Len(x) /\ l = [j \in 0 .. N |-> l[j]]
  <2>1. Len(<<>>) = 0
    OBVIOUS
  <2> QED BY <1>1, <1>2, <2>1
<1> HIDE DEF l, N
<1>6. ASSUME NEW j \in 1 .. N
      PROVE  /\ l[j] = l[j - 1] + Len(p[j])
             /\ \A i \in 1 .. l[j - 1] : F[j][i] = F[j - 1][i]
             /\ \A k \in 1 .. Len(p[j]) : F[j][l[j - 1] + k] = p[j][k]
  <2>1. PICK a, b, c : a = F[j - 1] /\ b = p[j] /\ c = F[j]
    OBVIOUS
  <2>2. a \in Seq(S) /\ b \in Seq(S) /\ c = a \o b /\ l[j - 1] = Len(a) /\ l[j] = Len(c)
    <3>1. j - 1 \in 0 .. N /\ j \in 0 .. N
      BY <1>2
    <3> QED BY <1>1, <1>2, <1>3, <1>4, <2>1, <3>1 DEF N
  <2>3. /\ Len(a \o b) = Len(a) + Len(b)
        /\ \A i \in 1 .. Len(a) : (a \o b)[i] = a[i]
        /\ \A k \in 1 .. Len(b) : (a \o b)[Len(a) + k] = b[k]
    BY <2>2
  <2> QED BY <2>1, <2>2, <2>3
<1> DEFINE Kept(m, n) == l[m] <= l[n] /\ \A i \in 1 .. l[m] : F[n][i] = F[m][i]
           Q == {n \in Nat : n <= N => \A m \in 0 .. n : Kept(m, n)}
<1>7. 0 \in Q
  <2>1. \A m \in 0 .. 0 : m = 0
    OBVIOUS
  <2>2. l[0] <= l[0]
    BY <1>5
  <2> QED BY <2>1, <2>2
<1>8. ASSUME NEW n \in Nat, n \in Q PROVE n + 1 \in Q
  <2> SUFFICES ASSUME n + 1 <= N, NEW m \in 0 .. n + 1 PROVE Kept(m, n + 1)
    OBVIOUS
  <2>1. n + 1 \in 1 .. N /\ (n + 1) - 1 = n /\ n \in 0 .. N /\ n + 1 \in 0 .. N /\ m \in 0 .. N
    BY <1>2
  <2>2. /\ l[n + 1] = l[n] + Len(p[n + 1])
        /\ \A i \in 1 .. l[n] : F[n + 1][i] = F[n][i]
    BY <1>6, <2>1
  <2>3. Len(p[n + 1]) \in Nat /\ l[n] \in Nat /\ l[n + 1] \in Nat /\ l[m] \in Nat
    BY <1>2, <1>4, <2>1
  <2>4. CASE m = n + 1
    BY <2>3, <2>4
  <2>5. CASE m \in 0 .. n
    <3>1. Kept(m, n)
      BY <1>8, <2>1, <2>5
    <3>2. 1 .. l[m] \subseteq 1 .. l[n]
      BY <2>3, <3>1
    <3> QED BY <2>2, <2>3, <3>1, <3>2
  <2>6. m = n + 1 \/ m \in 0 .. n
    OBVIOUS
  <2> QED BY <2>4, <2>5, <2>6
<1> HIDE DEF Q, Kept
<1>9. N \in Q
  BY <1>2, <1>7, <1>8, Induction
<1>10. \A m \in 0 .. N : Kept(m, N)
  BY <1>2, <1>9 DEF Q
<1>11. ASSUME NEW j \in 1 .. N
       PROVE  /\ l[j] = l[j - 1] + Len(p[j]) /\ l[j] <= Len(x)
              /\ \A k \in 1 .. Len(p[j]) : x[l[j - 1] + k] = p[j][k]
  <2>1. j \in 0 .. N /\ j - 1 \in 0 .. N
    BY <1>2
  <2>2. l[j] \in Nat /\ l[j - 1] \in Nat /\ Len(p[j]) \in Nat
    BY <1>2, <1>4, <2>1
  <2>3. l[j] = l[j - 1] + Len(p[j]) /\ \A k \in 1 .. Len(p[j]) : F[j][l[j - 1] + k] = p[j][k]
    BY <1>6
  <2>4. l[j] <= l[N] /\ \A i \in 1 .. l[j] : F[N][i] = F[j][i]
    BY <1>10, <2>1 DEF Kept
  <2>5. ASSUME NEW k \in 1 .. Len(p[j]) PROVE l[j - 1] + k \in 1 .. l[j]
    BY <2>2, <2>3
  <2> QED BY <1>1, <1>5, <2>3, <2>4, <2>5 DEF N
<1>12. l \in [0 .. N -> Nat]
  BY <1>4, <1>5
<1>13. x \in Seq(S)
  BY <1>1, <1>2, <1>3 DEF N
<1>14. Placed(l, p, x)
  BY <1>5, <1>11 DEF N, Placed
<1> QED BY <1>0, <1>12, <1>13, <1>14 DEF N

\* A function defined from its end backwards: what is at a place of a text depends on
\* what comes later in it.
ReadBack(e, n, Stops, Passes, at, here, next) ==
    e = [i \in 1 .. n |-> IF i \in Stops THEN at[i]
                         ELSE IF i \in Passes THEN e[next[i]] ELSE here[i] \o e[next[i]]]

\* There is one, if each place refers to later ones only.
LEMMA Backwards ==
    ASSUME NEW n \in Nat, NEW Stops, NEW Passes, NEW at, NEW here,
           NEW next, \A i \in 1 .. n : i \notin Stops => next[i] \in i + 1 .. n
    PROVE  \E e : ReadBack(e, n, Stops, Passes, at, here, next)
<1> DEFINE V(e, i) == IF i \in Stops THEN at[i]
                      ELSE IF i \in Passes THEN e[next[i]] ELSE here[i] \o e[next[i]]
           Eq(e, k) == DOMAIN e = k + 1 .. n /\ e = [i \in DOMAIN e |-> e[i]] /\ \A i \in k + 1 .. n : e[i] = V(e, i)
           T == {m \in Nat : m <= n => \E e : Eq(e, n - m)}
<1>1. 0 \in T
  <2> DEFINE e == [i \in n + 1 .. n |-> 0]
  <2>0. DOMAIN e = n + 1 .. n /\ e = [i \in DOMAIN e |-> e[i]] /\ \A i \in n + 1 .. n : FALSE
    OBVIOUS
  <2>1. Eq(e, n)
    <3> HIDE DEF e, V
    <3> QED BY <2>0
  <2>2. n - 0 = n
    OBVIOUS
  <2> HIDE DEF Eq
  <2> QED BY <2>1, <2>2
<1>2. ASSUME NEW m \in Nat, m \in T PROVE m + 1 \in T
  <2> HIDE DEF Eq
  <2> SUFFICES ASSUME m + 1 <= n PROVE \E e : Eq(e, n - (m + 1))
    OBVIOUS
  <2>1. PICK G : Eq(G, n - m)
    BY <1>2
  <2>2. PICK k : k = n - m
    OBVIOUS
  <2>3. k \in 1 .. n /\ n - (m + 1) = k - 1 /\ (k - 1) + 1 = k
    BY <2>2
  <2> HIDE DEF T
  <2>4. \A i \in k + 1 .. n : G[i] = V(G, i)
    BY <2>1, <2>2 DEF Eq
  <2> HIDE DEF V
  <2> DEFINE E == [i \in k .. n |-> IF i = k THEN V(G, k) ELSE G[i]]
  <2>5. \A i \in k + 1 .. n : E[i] = G[i]
    BY <2>3
  <2>6. E[k] = V(G, k) /\ DOMAIN E = k .. n /\ E = [i \in DOMAIN E |-> E[i]]
    BY <2>3
  <2> HIDE DEF E
  <2>7. ASSUME NEW i \in k .. n PROVE V(E, i) = V(G, i)
    <3>1. CASE i \in Stops
      BY <3>1 DEF V
    <3>2. CASE i \notin Stops
      <4>1. i \in 1 .. n
        BY <2>3
      <4>2. next[i] \in i + 1 .. n
        BY <3>2, <4>1
      <4>3. next[i] \in k + 1 .. n
        BY <2>3, <4>1, <4>2
      <4>4. E[next[i]] = G[next[i]]
        BY <2>5, <4>3
      <4> QED BY <4>4 DEF V
    <3> QED BY <3>1, <3>2
  <2>8. ASSUME NEW i \in k .. n PROVE E[i] = V(E, i)
    <3>1. CASE i = k
      BY <2>6, <2>7, <3>1
    <3>2. CASE i \in k + 1 .. n
      BY <2>4, <2>5, <2>7, <3>2
    <3>3. i = k \/ i \in k + 1 .. n
      BY <2>3
    <3> QED BY <3>1, <3>2, <3>3
  <2>9. Eq(E, k - 1)
    BY <2>3, <2>6, <2>8 DEF Eq
  <2> QED BY <2>3, <2>9
<1> HIDE DEF T
<1>3. n \in T
  BY <1>1, <1>2, Induction
<1>4. n - n = 0 /\ 0 + 1 = 1 /\ n <= n
  OBVIOUS
<1>5. \E e : Eq(e, 0)
  <2> HIDE DEF Eq
  <2>1. \E e : Eq(e, n - n)
    BY <1>3, <1>4 DEF T
  <2> QED BY <1>4, <2>1
<1>6. PICK e : Eq(e, 0)
  BY <1>5
<1>7. DOMAIN e = 1 .. n /\ e = [i \in DOMAIN e |-> e[i]] /\ \A i \in 1 .. n : e[i] = V(e, i)
  BY <1>4, <1>6
<1>8. e = [i \in 1 .. n |-> V(e, i)]
  <2> HIDE DEF V, Eq
  <2> QED BY <1>7
<1> QED BY <1>8 DEF ReadBack

=============================================================================
