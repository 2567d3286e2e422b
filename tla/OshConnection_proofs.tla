------------------------- MODULE OshConnection_proofs -------------------------
(***************************************************************************)
(* Theorems about OshConnection, for any outputs, inputs and pings, and    *)
(* about what Screen makes of a text.                                      *)
(***************************************************************************)
EXTENDS OshConnection, SequenceTheorems, WellFoundedInduction, TLAPS

Bytes == 0 .. 255

\* What does not begin a code, and what does not begin a terminal sequence either.
Literal == Bytes \ {Backslash}
Plain   == Literal \ {ESC}

-----------------------------------------------------------------------------
(* What osh displays of a text.                                            *)

\* The least of a set of numbers: what stands for induction here.
LEMMA Least ==
    ASSUME NEW T, T \subseteq Nat, T # {}
    PROVE  \E n \in T : n \in Nat /\ \A m \in 0 .. n - 1 : m \notin T
<1> DEFINE R == OpToRel(<, Nat)
<1>1. IsWellFoundedOn(R, Nat)
  BY NatLessThanWellFounded
<1>2. PICK n \in T : \A m \in T : <<m, n>> \notin R
  <2> HIDE DEF R
  <2> QED  BY <1>1, WFMin
<1>3. n \in Nat /\ \A m \in T : m \in Nat /\ ~(m < n)
  BY <1>2 DEF OpToRel
<1>4. \A m \in 0 .. n - 1 : m \notin T
  BY <1>3
<1> HIDE DEF R
<1> QED  BY <1>3, <1>4

\* A copy, from the end to the beginning.
Copying(f, s) ==
    f = [i \in 1 .. Len(s) + 1 |-> IF i > Len(s) THEN <<>> ELSE <<s[i]>> \o f[i + 1]]

LEMMA Rest ==
    ASSUME NEW s \in Seq(Bytes), NEW i \in 1 .. Len(s)
    PROVE  <<s[i]>> \o SubSeq(s, i + 1, Len(s)) = SubSeq(s, i, Len(s))
  OBVIOUS

LEMMA CopyExists == \A s \in Seq(Bytes) : \E f : Copying(f, s)
<1> SUFFICES ASSUME NEW s \in Seq(Bytes) PROVE \E f : Copying(f, s)
  OBVIOUS
<1> DEFINE w == [i \in 1 .. Len(s) + 1 |-> SubSeq(s, i, Len(s))]
<1>1. Len(s) \in Nat
  OBVIOUS
<1>2. SubSeq(s, Len(s) + 1, Len(s)) = <<>>
  BY <1>1
<1>3. ASSUME NEW i \in 1 .. Len(s) + 1
      PROVE  w[i] = IF i > Len(s) THEN <<>> ELSE <<s[i]>> \o w[i + 1]
  <2>1. CASE i > Len(s)
    <3>1. i = Len(s) + 1
      BY <1>1, <2>1
    <3> QED  BY <1>2, <2>1, <3>1
  <2>2. CASE ~(i > Len(s))
    <3>1. i \in 1 .. Len(s) /\ i + 1 \in 1 .. Len(s) + 1
      BY <1>1, <2>2
    <3> QED  BY <2>2, <3>1, Rest
  <2> QED  BY <2>1, <2>2
<1>4. Copying(w, s)
  <2> HIDE DEF w
  <2>1. w = [i \in 1 .. Len(s) + 1 |-> w[i]]
    BY DEF w
  <2> QED  BY <1>3, <2>1 DEF Copying
<1> HIDE DEF w
<1> QED  BY <1>4

LEMMA CopyIs ==
    ASSUME NEW s \in Seq(Bytes), NEW f, Copying(f, s)
    PROVE  f[1] = s
<1> DEFINE L == Len(s)
           T == {k \in 0 .. L : f[L + 1 - k] # SubSeq(s, L + 1 - k, L)}
<1>1. L \in Nat
  OBVIOUS
<1>2. ASSUME T # {} PROVE FALSE
  <2>1. T \subseteq Nat
    BY <1>1
  <2>2. PICK k \in T : k \in Nat /\ \A m \in 0 .. k - 1 : m \notin T
    <3> HIDE DEF T
    <3> QED  BY <1>2, <2>1, Least
  <2>3. ASSUME k = 0 PROVE FALSE
    <3>1. L + 1 \in 1 .. L + 1 /\ L + 1 > L
      BY <1>1
    <3>2. f[L + 1] = <<>>
      BY <3>1 DEF Copying
    <3>3. SubSeq(s, L + 1, L) = <<>>
      BY <1>1
    <3>4. L + 1 - k = L + 1
      BY <1>1, <2>3
    <3> QED  BY <2>2, <3>2, <3>3, <3>4
  <2>4. k - 1 \in 0 .. k - 1 /\ k - 1 \in 0 .. L
    BY <1>1, <2>2, <2>3
  <2> DEFINE i == L + 1 - k
  <2>5. i \in 1 .. L /\ i + 1 = L + 1 - (k - 1) /\ i \in 1 .. L + 1 /\ ~(i > L)
    BY <1>1, <2>2, <2>3
  <2>6. f[i + 1] = SubSeq(s, i + 1, L)
    BY <2>2, <2>4, <2>5
  <2>7. f[i] = <<s[i]>> \o f[i + 1]
    BY <2>5 DEF Copying
  <2>8. f[i] = SubSeq(s, i, L)
    BY <2>5, <2>6, <2>7, Rest
  <2> QED  BY <2>2, <2>8
<1>3. L \in 0 .. L /\ L + 1 - L = 1
  BY <1>1
<1>4. f[1] = SubSeq(s, 1, L)
  BY <1>2, <1>3
<1>5. SubSeq(s, 1, L) = s
  BY SubSeqFull
<1> QED  BY <1>4, <1>5

Lacks(s, b) == \A i \in 1 .. Len(s) : s[i] # b

\* What has no backslash in it has no code.
LEMMA UnescapePlain ==
    ASSUME NEW s \in Seq(Bytes), Lacks(s, Backslash)
    PROVE  Unescape(s) = s
<1> DEFINE Def(f) == [i \in 1 .. Len(s) + 1 |->
                        IF i > Len(s) THEN <<>>
                        ELSE IF IsCode(s, i)
                          THEN <<CHOOSE v \in HexValues(s[i + 2], s[i + 3]) : TRUE>> \o f[i + 4]
                          ELSE <<s[i]>> \o f[i + 1]]
<1>1. \A i \in 1 .. Len(s) + 1 : i > Len(s) \/ ~IsCode(s, i)
  BY DEF Lacks, IsCode
<1>2. ASSUME NEW f PROVE Def(f) = [i \in 1 .. Len(s) + 1 |-> IF i > Len(s) THEN <<>> ELSE <<s[i]>> \o f[i + 1]]
  BY <1>1
<1>3. \A f : f = Def(f) <=> Copying(f, s)
  <2> HIDE DEF Def
  <2> QED BY <1>2 DEF Copying
<1>4. Unescape(s) = (CHOOSE f : f = Def(f))[1]
  BY DEF Unescape
<1> HIDE DEF Def
<1>5. Copying(CHOOSE f : f = Def(f), s)
  BY <1>3, CopyExists
<1> QED  BY <1>4, <1>5, CopyIs

\* What has no ESC in it is printed.
LEMMA FilterPlain ==
    ASSUME NEW s \in Seq(Bytes), Lacks(s, ESC)
    PROVE  Filter(s) = s
<1> DEFINE Def(f) == [i \in 1 .. Len(s) + 1 |->
                        IF i > Len(s) THEN <<>>
                        ELSE LET n == SequenceLength(SubSeq(s, i, Len(s)))
                             IN  IF n > 0 THEN f[i + n] ELSE <<s[i]>> \o f[i + 1]]
<1>1. ASSUME NEW i \in 1 .. Len(s) + 1, ~(i > Len(s))
      PROVE  SequenceLength(SubSeq(s, i, Len(s))) = 0
  <2>1. i \in 1 .. Len(s)
    BY <1>1
  <2>2. SubSeq(s, i, Len(s))[1] = s[i]
    BY <2>1
  <2>3. SubSeq(s, i, Len(s))[1] # ESC
    BY <2>1, <2>2 DEF Lacks
  <2> QED  BY <2>3 DEF SequenceLength
<1>2. ASSUME NEW f PROVE Def(f) = [i \in 1 .. Len(s) + 1 |-> IF i > Len(s) THEN <<>> ELSE <<s[i]>> \o f[i + 1]]
  BY <1>1
<1>3. \A f : f = Def(f) <=> Copying(f, s)
  <2> HIDE DEF Def
  <2> QED BY <1>2 DEF Copying
<1>4. Filter(s) = (CHOOSE f : f = Def(f))[1]
  BY DEF Filter
<1> HIDE DEF Def
<1>5. Copying(CHOOSE f : f = Def(f), s)
  BY <1>3, CopyExists
<1> QED  BY <1>4, <1>5, CopyIs

\* From the first piece on, the pieces of p one after the other.
Joining(f, p, n) ==
    f = [i \in 1 .. n |-> IF i = 1 THEN p[1] ELSE f[i - 1] \o p[i]]

LEMMA JoinExists ==
    ASSUME NEW p, NEW n \in Nat \ {0}
    PROVE  \E f : Joining(f, p, n)
<1> DEFINE T == {k \in 1 .. n : ~ \E f : Joining(f, p, k)}
<1>1. ASSUME T # {} PROVE FALSE
  <2>1. T \subseteq Nat
    OBVIOUS
  <2>2. PICK k \in T : k \in Nat /\ \A m \in 0 .. k - 1 : m \notin T
    <3> HIDE DEF T
    <3> QED  BY <1>1, <2>1, Least
  <2>3. CASE k = 1
    <3> DEFINE g == [i \in 1 .. 1 |-> p[1]]
    <3>1. Joining(g, p, 1)
      BY DEF Joining
    <3> HIDE DEF g
    <3> QED  BY <2>2, <2>3, <3>1
  <2>4. CASE k # 1
    <3>1. k - 1 \in 0 .. k - 1 /\ k - 1 \in 1 .. n
      BY <2>2, <2>4
    <3>2. PICK f : Joining(f, p, k - 1)
      BY <2>2, <3>1
    <3> DEFINE g == [i \in 1 .. k |-> IF i = k THEN f[k - 1] \o p[k] ELSE f[i]]
    <3>3. ASSUME NEW i \in 1 .. k
          PROVE  g[i] = IF i = 1 THEN p[1] ELSE g[i - 1] \o p[i]
      <4>1. CASE i = k
        <5>1. k - 1 \in 1 .. k /\ k - 1 # k
          BY <3>1
        <5>2. g[k - 1] = f[k - 1]
          BY <5>1
        <5> QED  BY <2>4, <4>1, <5>2
      <4>2. CASE i # k
        <5>1. i \in 1 .. k - 1 /\ (i # 1 => i - 1 \in 1 .. k /\ i - 1 # k)
          BY <3>1, <4>2
        <5>2. f[i] = IF i = 1 THEN p[1] ELSE f[i - 1] \o p[i]
          BY <3>2, <5>1 DEF Joining
        <5>3. g[i] = f[i] /\ (i # 1 => g[i - 1] = f[i - 1])
          BY <4>2, <5>1
        <5> QED  BY <5>2, <5>3
      <4> QED  BY <4>1, <4>2
    <3>4. g = [i \in 1 .. k |-> g[i]]
      OBVIOUS
    <3>5. Joining(g, p, k)
      <4> HIDE DEF g
      <4> QED  BY <3>3, <3>4 DEF Joining
    <3> HIDE DEF g
    <3> QED  BY <2>2, <3>5
  <2> QED  BY <2>3, <2>4
<1>2. n \in 1 .. n
  OBVIOUS
<1> QED  BY <1>1, <1>2

\* What the codes of a text are, one after the other.
LEMMA EscapeJoins ==
    ASSUME NEW s \in Seq(Bytes), s # <<>>
    PROVE  \E f : /\ Joining(f, [i \in 1 .. Len(s) |-> EscapeByte(s[i])], Len(s))
                  /\ Escape(s) = f[Len(s)]
<1> DEFINE p == [i \in 1 .. Len(s) |-> EscapeByte(s[i])]
           Def(f) == [i \in 1 .. Len(p) |-> IF i = 1 THEN p[i] ELSE f[i - 1] \o p[i]]
<1>1. Len(s) \in Nat \ {0} /\ DOMAIN s = 1 .. Len(s)
  BY EmptySeq, LenProperties
<1>2. Len(p) = Len(s)
  BY <1>1
<1>3. Escape(s) = FlattenSeq(p)
  BY <1>1 DEF Escape
<1> HIDE DEF p
<1>4. FlattenSeq(p) = (CHOOSE f : f = Def(f))[Len(s)]
  BY <1>1, <1>2 DEF FlattenSeq
<1>5. \A f : Def(f) = [i \in 1 .. Len(s) |-> IF i = 1 THEN p[1] ELSE f[i - 1] \o p[i]]
  BY <1>2
<1>6. \A f : f = Def(f) <=> Joining(f, p, Len(s))
  <2> HIDE DEF Def
  <2> QED  BY <1>5 DEF Joining
<1> HIDE DEF Def
<1>7. Joining(CHOOSE f : f = Def(f), p, Len(s))
  BY <1>1, <1>6, JoinExists
<1> QED  BY <1>3, <1>4, <1>7 DEF p

\* How far the reading of a text goes at i.
Reading(f, s, i) ==
    f[i] = IF i > Len(s) THEN <<>>
           ELSE IF IsCode(s, i)
             THEN <<CHOOSE v \in HexValues(s[i + 2], s[i + 3]) : TRUE>> \o f[i + 4]
             ELSE <<s[i]>> \o f[i + 1]

LEMMA ReadExists ==
    ASSUME NEW s \in Seq(Bytes)
    PROVE  \E f : /\ f = [i \in 1 .. Len(s) + 1 |-> f[i]]
                  /\ \A i \in 1 .. Len(s) + 1 : Reading(f, s, i)
<1> DEFINE L == Len(s)
           Upto(k, f) == /\ f = [i \in L + 1 - k .. L + 1 |-> f[i]]
                         /\ \A i \in L + 1 - k .. L + 1 : Reading(f, s, i)
           T == {k \in 0 .. L : ~ \E f : Upto(k, f)}
<1>1. L \in Nat
  OBVIOUS
<1>2. ASSUME T # {} PROVE FALSE
  <2>1. T \subseteq Nat
    BY <1>1
  <2>2. PICK k \in T : k \in Nat /\ \A m \in 0 .. k - 1 : m \notin T
    <3> HIDE DEF T
    <3> QED  BY <1>2, <2>1, Least
  <2>3. CASE k = 0
    <3> DEFINE g == [i \in L + 1 .. L + 1 |-> <<>>]
    <3>1. L + 1 - k = L + 1 /\ \A i \in L + 1 .. L + 1 : i = L + 1 /\ i > L
      BY <1>1, <2>3
    <3>2. Upto(k, g)
      BY <3>1 DEF Reading
    <3> HIDE DEF g, Upto
    <3> QED  BY <2>2, <3>2
  <2>4. CASE k # 0
    <3> DEFINE j == L + 1 - k
    <3>1. k - 1 \in 0 .. k - 1 /\ k - 1 \in 0 .. L /\ L + 1 - (k - 1) = j + 1 /\ j \in 1 .. L
      BY <1>1, <2>2, <2>4
    <3>2. PICK f : Upto(k - 1, f)
      <4> HIDE DEF Upto
      <4> QED  BY <2>2, <3>1
    <3> DEFINE b == IF IsCode(s, j)
                      THEN <<CHOOSE v \in HexValues(s[j + 2], s[j + 3]) : TRUE>> \o f[j + 4]
                      ELSE <<s[j]>> \o f[j + 1]
               g == [i \in j .. L + 1 |-> IF i = j THEN b ELSE f[i]]
    <3>3. \A i \in j .. L + 1 : i # j => i \in j + 1 .. L + 1 /\ g[i] = f[i]
      BY <1>1, <3>1
    <3>4. \A i \in j .. L + 1 : /\ IsCode(s, i) => i + 4 \in j .. L + 1
                                /\ ~(i > L) => i + 1 \in j .. L + 1
                                /\ i + 1 # j /\ i + 4 # j
      <4>1. \A i : IsCode(s, i) => i + 3 <= L
        BY DEF IsCode
      <4> HIDE DEF g, b, Upto, T
      <4> QED  BY <1>1, <3>1, <4>1
    <3>5. g[j] = b /\ ~(j > L) /\ j \in j .. L + 1
      BY <1>1, <3>1
    <3> HIDE DEF g
    <3>6. Reading(g, s, j)
      BY <3>3, <3>4, <3>5 DEF Reading
    <3>7. ASSUME NEW i \in j .. L + 1, i # j PROVE Reading(g, s, i)
      <4>1. Reading(f, s, i)
        BY <3>1, <3>2, <3>3, <3>7
      <4> QED  BY <3>3, <3>4, <3>7, <4>1 DEF Reading
    <3>8. g = [i \in j .. L + 1 |-> g[i]]
      BY DEF g
    <3>9. Upto(k, g)
      BY <3>6, <3>7, <3>8
    <3> HIDE DEF Upto
    <3> QED  BY <2>2, <3>9
  <2> QED  BY <2>3, <2>4
<1>3. L \in 0 .. L /\ L + 1 - L = 1
  BY <1>1
<1>4. \E f : Upto(L, f)
  <2> HIDE DEF Upto
  <2> QED  BY <1>2, <1>3
<1> QED  BY <1>3, <1>4

\* The code of a byte.
LEMMA Code ==
    ASSUME NEW b \in Literal
    PROVE  /\ EscapeByte(b) \in Seq(Bytes)
           /\ \/ EscapeByte(b) = <<b>>
              \/ /\ Len(EscapeByte(b)) = 4
                 /\ EscapeByte(b)[1] = Backslash /\ EscapeByte(b)[2] = LetterX
                 /\ HexValues(EscapeByte(b)[3], EscapeByte(b)[4]) = {b}
<1>1. CASE ~(b < 32 /\ b \notin {9, 10, 13})
  BY <1>1 DEF EscapeByte, Literal
<1>2. CASE b < 32 /\ b \notin {9, 10, 13}
  <2> DEFINE h == b \div 16
             l == b % 16
  <2>1. b \in Nat /\ h \in {0, 1} /\ l \in 0 .. 15 /\ b = 16 * h + l
    BY <1>2 DEF Literal, Bytes
  <2> HIDE DEF h, l
  <2>2. DigitValues(HexDigit(l)) = {l} /\ DigitValues(HexDigit(h)) = {h}
    <3>1. ASSUME NEW m \in 0 .. 15, NEW n \in 0 .. 15,
                 HexDigit(m) = HexDigit(n) \/ (n > 9 /\ HexDigit(m) = 55 + n)
          PROVE  m = n
      BY <3>1 DEF HexDigit
    <3>2. ASSUME NEW m \in 0 .. 15
          PROVE  DigitValues(HexDigit(m)) = {m}
      BY <3>1 DEF DigitValues
    <3> QED  BY <2>1, <3>2
  <2>3. HexDigit(h) \in {48, 49} /\ HexDigit(l) \in Bytes
    BY <2>1 DEF HexDigit, Bytes
  <2>4. EscapeByte(b) = <<Backslash, LetterX, HexDigit(h), HexDigit(l)>>
    BY <1>2 DEF EscapeByte, h, l
  <2>5. HexValues(HexDigit(h), HexDigit(l)) = {b}
    <3>1. HexDigit(h) # 43
      BY <2>3
    <3>2. HexValues(HexDigit(h), HexDigit(l)) = {16 * m + n : m \in {h}, n \in {l}}
      BY <2>2, <3>1 DEF HexValues
    <3> QED  BY <2>1, <3>2
  <2>6. Backslash \in Bytes /\ LetterX \in Bytes
    BY DEF Bytes, Backslash, LetterX
  <2> QED  BY <2>3, <2>4, <2>5, <2>6 DEF Bytes
<1> QED  BY <1>1, <1>2

LEMMA Concat ==
    ASSUME NEW a \in Seq(Bytes), NEW b \in Seq(Bytes), NEW c, c = a \o b
    PROVE  /\ c \in Seq(Bytes)
           /\ Len(a) \in Nat /\ Len(b) \in Nat /\ Len(c) = Len(a) + Len(b)
           /\ \A j \in 1 .. Len(a) : c[j] = a[j] /\ j \in 1 .. Len(c)
           /\ \A j \in 1 .. Len(b) : c[Len(a) + j] = b[j] /\ Len(a) + j \in 1 .. Len(c)
<1>1. /\ c \in Seq(Bytes) /\ Len(a) \in Nat /\ Len(b) \in Nat /\ Len(c) = Len(a) + Len(b)
  BY ConcatProperties, LenProperties
<1>2. \A j \in 1 .. Len(c) : c[j] = IF j <= Len(a) THEN a[j] ELSE b[j - Len(a)]
  BY ConcatProperties
<1>3. ASSUME NEW j \in 1 .. Len(a)
      PROVE  c[j] = a[j] /\ j \in 1 .. Len(c)
  <2>1. j \in 1 .. Len(c) /\ j <= Len(a)
    BY <1>1
  <2> QED  BY <1>2, <2>1
<1>4. ASSUME NEW j \in 1 .. Len(b)
      PROVE  c[Len(a) + j] = b[j] /\ Len(a) + j \in 1 .. Len(c)
  <2>1. Len(a) + j \in 1 .. Len(c) /\ ~(Len(a) + j <= Len(a)) /\ Len(a) + j - Len(a) = j
    BY <1>1
  <2> QED  BY <1>2, <2>1
<1> QED  BY <1>1, <1>3, <1>4

\* What is joined first is a beginning of the whole.
LEMMA Joined ==
    ASSUME NEW n \in Nat \ {0}, NEW p \in [1 .. n -> Seq(Bytes)], NEW f, Joining(f, p, n)
    PROVE  /\ \A k \in 1 .. n : f[k] \in Seq(Bytes)
           /\ \A k \in 1 .. n : Len(f[k]) <= Len(f[n])
           /\ \A k \in 1 .. n : \A j \in 1 .. Len(f[k]) : f[n][j] = f[k][j]
<1>1. \A k \in 1 .. n : f[k] = IF k = 1 THEN p[1] ELSE f[k - 1] \o p[k]
  BY DEF Joining
<1>2. \A k \in 1 .. n : f[k] \in Seq(Bytes)
  <2> DEFINE T == {k \in 1 .. n : f[k] \notin Seq(Bytes)}
  <2>1. ASSUME T # {} PROVE FALSE
    <3>1. PICK k \in T : k \in Nat /\ \A m \in 0 .. k - 1 : m \notin T
      <4>1. T \subseteq Nat
        OBVIOUS
      <4> HIDE DEF T
      <4> QED  BY <2>1, <4>1, Least
    <3>2. k # 1 => k - 1 \in 0 .. k - 1 /\ k - 1 \in 1 .. n
      BY <3>1
    <3>3. k # 1 => f[k - 1] \in Seq(Bytes)
      BY <3>1, <3>2
    <3>4. p[k] \in Seq(Bytes) /\ (k # 1 => f[k] = f[k - 1] \o p[k]) /\ (k = 1 => f[k] = p[k])
      BY <1>1
    <3>5. f[k] \in Seq(Bytes)
      BY <3>3, <3>4, ConcatProperties
    <3> QED  BY <3>5
  <2> QED  BY <2>1
<1>3. ASSUME NEW k \in 1 .. n, NEW l \in 1 .. n, l = k + 1
      PROVE  Len(f[k]) <= Len(f[l]) /\ \A j \in 1 .. Len(f[k]) : f[l][j] = f[k][j] /\ j \in 1 .. Len(f[l])
  <2>1. l # 1 /\ l - 1 = k
    BY <1>3
  <2>2. f[l] = f[k] \o p[l] /\ f[k] \in Seq(Bytes) /\ p[l] \in Seq(Bytes)
    BY <1>1, <1>2, <2>1
  <2> HIDE DEF Joining
  <2>3. /\ Len(f[k]) \in Nat /\ Len(p[l]) \in Nat /\ Len(f[l]) = Len(f[k]) + Len(p[l])
        /\ \A j \in 1 .. Len(f[k]) : f[l][j] = f[k][j] /\ j \in 1 .. Len(f[l])
    BY <2>2, Concat
  <2> QED  BY <2>3
<1>4. ASSUME NEW k \in 1 .. n
      PROVE  Len(f[k]) <= Len(f[n]) /\ \A j \in 1 .. Len(f[k]) : f[n][j] = f[k][j]
  <2> DEFINE Begins(i) == Len(f[i]) <= Len(f[n]) /\ \A j \in 1 .. Len(f[i]) : f[n][j] = f[i][j]
             T == {m \in 0 .. n - 1 : ~Begins(n - m)}
  <2>1. ASSUME T # {} PROVE FALSE
    <3>1. PICK m \in T : m \in Nat /\ \A q \in 0 .. m - 1 : q \notin T
      <4>1. T \subseteq Nat
        OBVIOUS
      <4> HIDE DEF T
      <4> QED  BY <2>1, <4>1, Least
    <3>2. Begins(n)
      BY <1>2
    <3>3. m # 0
      BY <3>1, <3>2
    <3> DEFINE q == n - m
               l == n - (m - 1)
    <3>4. m - 1 \in 0 .. m - 1 /\ m - 1 \in 0 .. n - 1 /\ q \in 1 .. n /\ l \in 1 .. n /\ l = q + 1
      BY <3>1, <3>3
    <3>5. Begins(l)
      <4> HIDE DEF Begins
      <4> QED  BY <3>1, <3>4
    <3> HIDE DEF q, l
    <3>6. Len(f[q]) <= Len(f[l]) /\ \A j \in 1 .. Len(f[q]) : f[l][j] = f[q][j] /\ j \in 1 .. Len(f[l])
      BY <1>3, <3>4
    <3>7. Len(f[q]) \in Nat /\ Len(f[l]) \in Nat /\ Len(f[n]) \in Nat
      BY <1>2, <3>4, LenProperties
    <3>8. Begins(q)
      BY <3>5, <3>6, <3>7
    <3> QED  BY <3>1, <3>8 DEF q
  <2>2. n - k \in 0 .. n - 1 /\ n - (n - k) = k
    OBVIOUS
  <2>3. Begins(n - (n - k))
    <3> HIDE DEF Begins
    <3> QED  BY <2>1, <2>2
  <2> QED  BY <2>2, <2>3
<1> QED  BY <1>2, <1>4

\* osh gets back what the daemon escaped, byte by byte, if there is no backslash in it
\* (daemon.rs 650, osh-cli/src/protocol.rs 297).
THEOREM UnescapeEscaped ==
    ASSUME NEW s \in Seq(Literal)
    PROVE  Escape(s) \in Seq(Bytes) /\ Unescape(Escape(s)) = s
<1>1. s \in Seq(Bytes)
  BY DEF Literal
<1>2. CASE s = <<>>
  <2>1. Escape(s) = <<>>
    <3>1. [i \in DOMAIN s |-> EscapeByte(s[i])] = <<>>
      BY <1>2
    <3>2. FlattenSeq(<<>>) = <<>>
      BY DEF FlattenSeq
    <3> QED  BY <3>1, <3>2 DEF Escape
  <2>2. <<>> \in Seq(Bytes) /\ Lacks(<<>>, Backslash)
    BY DEF Lacks
  <2> QED  BY <1>2, <2>1, <2>2, UnescapePlain
<1>3. CASE s # <<>>
  <2> DEFINE n == Len(s)
             p == [i \in 1 .. n |-> EscapeByte(s[i])]
  <2>1. n \in Nat \ {0} /\ \A i \in 1 .. n : s[i] \in Literal
    BY <1>3, EmptySeq, LenProperties, ElementOfSeq
  <2>2. PICK f : Joining(f, p, n) /\ Escape(s) = f[n]
    BY <1>1, <1>3, EscapeJoins
  <2>3. p \in [1 .. n -> Seq(Bytes)]
    BY <2>1, Code
  <2> DEFINE e == f[n]
             L == Len(e)
             At(k) == IF k = 1 THEN 1 ELSE Len(f[k - 1]) + 1
  <2>4. /\ \A k \in 1 .. n : f[k] \in Seq(Bytes)
        /\ \A k \in 1 .. n : Len(f[k]) <= L
        /\ \A k \in 1 .. n : \A j \in 1 .. Len(f[k]) : e[j] = f[k][j]
    <3> HIDE DEF p
    <3> QED  BY <2>1, <2>2, <2>3, Joined
  <2> HIDE DEF p
  <2>5. e \in Seq(Bytes) /\ L \in Nat
    BY <2>1, <2>4, LenProperties
  <2>6. ASSUME NEW k \in 1 .. n
        PROVE  /\ At(k) \in 1 .. L + 1
               /\ At(k + 1) = At(k) + Len(p[k])
               /\ At(k + 1) <= L + 1
               /\ \A j \in 1 .. Len(p[k]) : e[At(k) + j - 1] = p[k][j]
    <3>1. p[k] \in Seq(Bytes) /\ Len(p[k]) \in Nat
      BY <2>3, LenProperties
    <3>2. CASE k = 1
      <4>1. f[1] = p[1]
        BY <2>1, <2>2 DEF Joining
      <4>3. At(k) = 1 /\ At(k + 1) = Len(p[1]) + 1
        BY <3>2, <4>1
      <4>4. \A j \in 1 .. Len(p[1]) : e[j] = p[1][j] /\ 1 + j - 1 = j
        BY <2>4, <3>2, <4>1
      <4> QED  BY <2>4, <2>5, <3>1, <3>2, <4>1, <4>3, <4>4
    <3>3. CASE k # 1
      <4> DEFINE i == k - 1
      <4>1. i \in 1 .. n /\ k + 1 # 1 /\ k + 1 - 1 = k
        BY <2>1, <3>3
      <4>2. At(k) = Len(f[i]) + 1 /\ At(k + 1) = Len(f[k]) + 1
        BY <3>3, <4>1
      <4>3. f[k] = f[i] \o p[k] /\ f[i] \in Seq(Bytes)
        BY <2>2, <2>4, <3>3, <4>1 DEF Joining
      <4> HIDE DEF i, e, At
      <4>4. /\ Len(f[i]) \in Nat /\ Len(f[k]) = Len(f[i]) + Len(p[k])
            /\ \A j \in 1 .. Len(p[k]) : f[k][Len(f[i]) + j] = p[k][j] /\ Len(f[i]) + j \in 1 .. Len(f[k])
        <5> DEFINE a == f[i]
                   b == p[k]
                   c == f[k]
        <5>1. a \in Seq(Bytes) /\ b \in Seq(Bytes) /\ c = a \o b
          BY <3>1, <4>3
        <5> HIDE DEF a, b, c
        <5>2. /\ Len(a) \in Nat /\ Len(c) = Len(a) + Len(b)
              /\ \A j \in 1 .. Len(b) : c[Len(a) + j] = b[j] /\ Len(a) + j \in 1 .. Len(c)
          BY <5>1, Concat
        <5> QED  BY <5>2 DEF a, b, c
      <4>5. Len(f[k]) <= L
        BY <2>4
      <4>6. ASSUME NEW j \in 1 .. Len(p[k])
            PROVE  e[At(k) + j - 1] = p[k][j]
        <5>1. e[Len(f[i]) + j] = p[k][j]
          BY <2>4, <4>4
        <5>2. At(k) + j - 1 = Len(f[i]) + j
          BY <3>1, <4>2, <4>4
        <5> QED  BY <5>1, <5>2
      <4> HIDE DEF L
      <4>7. At(k) \in 1 .. L + 1 /\ At(k + 1) = At(k) + Len(p[k]) /\ At(k + 1) <= L + 1
        <5> DEFINE x == At(k)
                   y == At(k + 1)
                   a == Len(f[i])
                   b == Len(p[k])
                   c == Len(f[k])
        <5>1. /\ x = a + 1 /\ y = c + 1 /\ a \in Nat /\ b \in Nat /\ L \in Nat
              /\ c = a + b /\ c <= L
          BY <2>5, <3>1, <4>2, <4>4, <4>5
        <5> HIDE DEF x, y, a, b, c
        <5>2. x \in 1 .. L + 1 /\ y = x + b /\ y <= L + 1
          BY <5>1
        <5> QED  BY <5>2 DEF x, y, b
      <4> QED  BY <4>6, <4>7
    <3> QED  BY <3>2, <3>3
  <2>7. At(1) = 1 /\ At(n + 1) = L + 1
    BY <2>1
  <2> HIDE DEF e, L, At
  <2> DEFINE Def(g) == [i \in 1 .. Len(e) + 1 |->
                          IF i > Len(e) THEN <<>>
                          ELSE IF IsCode(e, i)
                            THEN <<CHOOSE v \in HexValues(e[i + 2], e[i + 3]) : TRUE>> \o g[i + 4]
                            ELSE <<e[i]>> \o g[i + 1]]
  <2>8. \E g : g = Def(g)
    <3>1. PICK g : /\ g = [i \in 1 .. Len(e) + 1 |-> g[i]]
                   /\ \A i \in 1 .. Len(e) + 1 : Reading(g, e, i)
      BY <2>5, ReadExists
    <3>2. g = Def(g)
      BY <3>1 DEF Reading
    <3> HIDE DEF Def
    <3> QED  BY <3>2
  <2>9. Unescape(e) = (CHOOSE g : g = Def(g))[1]
    BY DEF Unescape
  <2>10. PICK g : g = Def(g) /\ Unescape(e) = g[1]
    <3> HIDE DEF Def
    <3> QED  BY <2>8, <2>9
  <2>11. ASSUME NEW i \in 1 .. L + 1
         PROVE  g[i] = IF i > L THEN <<>>
                       ELSE IF IsCode(e, i)
                         THEN <<CHOOSE v \in HexValues(e[i + 2], e[i + 3]) : TRUE>> \o g[i + 4]
                         ELSE <<e[i]>> \o g[i + 1]
    BY <2>10 DEF L
  <2> HIDE DEF Def
  <2>12. ASSUME NEW k \in 1 .. n
         PROVE  g[At(k)] = <<s[k]>> \o g[At(k + 1)]
    <3>1. p[k] = EscapeByte(s[k]) /\ s[k] \in Literal /\ s[k] # Backslash
      BY <2>1 DEF p, Literal
    <3>2. CASE p[k] = <<s[k]>>
      <4>1. Len(p[k]) = 1 /\ p[k][1] = s[k]
        BY <3>2
      <4>2. At(k) \in 1 .. L + 1 /\ At(k + 1) = At(k) + 1 /\ At(k + 1) <= L + 1 /\ At(k) + 1 - 1 = At(k)
        <5>1. At(k) \in 1 .. L + 1 /\ At(k + 1) = At(k) + Len(p[k]) /\ At(k + 1) <= L + 1
          BY <2>6
        <5> QED  BY <2>5, <4>1, <5>1
      <4>3. e[At(k)] = s[k]
        BY <2>6, <4>1, <4>2
      <4>4. ~(At(k) > L)
        BY <2>5, <4>2
      <4>5. ~IsCode(e, At(k))
        BY <3>1, <4>3 DEF IsCode
      <4> QED  BY <2>11, <4>2, <4>3, <4>4, <4>5
    <3>3. CASE /\ Len(p[k]) = 4
               /\ p[k][1] = Backslash /\ p[k][2] = LetterX
               /\ HexValues(p[k][3], p[k][4]) = {s[k]}
      <4>1. At(k) \in 1 .. L + 1 /\ At(k + 1) = At(k) + 4 /\ At(k + 1) <= L + 1
        BY <2>6, <3>3
      <4>2. \A j \in 1 .. 4 : e[At(k) + j - 1] = p[k][j]
        BY <2>6, <3>3
      <4>3. /\ At(k) + 1 - 1 = At(k) /\ At(k) + 2 - 1 = At(k) + 1
            /\ At(k) + 3 - 1 = At(k) + 2 /\ At(k) + 4 - 1 = At(k) + 3
            /\ ~(At(k) > L) /\ At(k) + 3 <= L
        BY <2>5, <4>1
      <4>4. e[At(k)] = p[k][1] /\ e[At(k) + 1] = p[k][2] /\ e[At(k) + 2] = p[k][3] /\ e[At(k) + 3] = p[k][4]
        BY <4>2, <4>3
      <4>5. HexValues(e[At(k) + 2], e[At(k) + 3]) = {s[k]}
        BY <3>3, <4>4
      <4>6. IsCode(e, At(k))
        BY <3>3, <4>3, <4>4, <4>5 DEF IsCode, L
      <4>7. (CHOOSE v \in HexValues(e[At(k) + 2], e[At(k) + 3]) : TRUE) = s[k]
        BY <4>5
      <4> QED  BY <2>11, <4>1, <4>3, <4>6, <4>7
    <3> QED  BY <3>1, <3>2, <3>3, Code
  <2>13. g[L + 1] = <<>>
    <3>1. L + 1 \in 1 .. L + 1 /\ L + 1 > L
      BY <2>5
    <3> QED  BY <2>11, <3>1
  <2> DEFINE h == [k \in 1 .. n + 1 |-> g[At(k)]]
  <2>14. Copying(h, s)
    <3>1. ASSUME NEW k \in 1 .. n + 1
          PROVE  h[k] = IF k > n THEN <<>> ELSE <<s[k]>> \o h[k + 1]
      <4>1. CASE k > n
        <5>1. k = n + 1
          BY <2>1, <4>1
        <5> QED  BY <2>1, <2>7, <2>13, <4>1, <5>1
      <4>2. CASE ~(k > n)
        <5>1. k \in 1 .. n /\ k + 1 \in 1 .. n + 1
          BY <2>1, <4>2
        <5> QED  BY <2>12, <4>2, <5>1
      <4> QED  BY <4>1, <4>2
    <3>2. h = [k \in 1 .. n + 1 |-> h[k]]
      OBVIOUS
    <3> HIDE DEF h
    <3> QED  BY <3>1, <3>2 DEF Copying
  <2>15. h[1] = s
    <3> HIDE DEF h
    <3> QED  BY <1>1, <2>14, CopyIs
  <2>16. h[1] = g[1]
    BY <2>1, <2>7
  <2> QED  BY <2>2, <2>5, <2>10, <2>15, <2>16 DEF e
<1> QED  BY <1>2, <1>3

\* A message of a text without ESC and backslash is displayed as it is, whether the
\* daemon has escaped it, for a PTY, or not (daemon.rs 287, osh-cli/src/protocol.rs 288-293).
THEOREM DisplayedPlain ==
    ASSUME NEW s \in Seq(Plain)
    PROVE  /\ Displayed(s) = s
           /\ Displayed(Escape(s)) = s
<1>1. s \in Seq(Bytes) /\ \A i \in 1 .. Len(s) : s[i] \in Plain
  BY ElementOfSeq DEF Plain, Literal
<1>2. Lacks(s, Backslash) /\ Lacks(s, ESC)
  BY <1>1 DEF Lacks, Plain, Literal
<1>3. s \in Seq(Literal)
  BY DEF Plain
<1> QED  BY <1>1, <1>2, <1>3, UnescapePlain, UnescapeEscaped, FilterPlain DEF Displayed

-----------------------------------------------------------------------------
(* Types.                                                                  *)

Payload  == Seq(Bytes) \cup {Escape(s) : s \in Seq(Bytes)}
Messages == Answers \cup Reports \cup {"PING", "DATA"}
Letter   == [msg : Messages, data : Payload]

Wires ==
    /\ kind \in {"osh", "admin"}
    /\ printed \in Seq(Bytes) /\ unsent \in Seq(Bytes)
    /\ final \in Finals \cup {"none"}
    /\ session \in BOOLEAN
    /\ daemon \in {"idle", "remove", "left", "gone"}
    /\ handler \in {"serve", "leave", "gone"}
    /\ inbox \in Seq({"EXEC", "INPUT", "ADMIN_RELOAD"})
    /\ queue \in Seq(Letter)
    /\ outbox \in Seq(Letter)
    /\ peer \in Answers \cup Reports \cup {"run", "closed", "timeout", "unexpected"}

LEMMA LetterType ==
    ASSUME NEW m \in Messages, NEW s \in Seq(Bytes)
    PROVE  /\ [msg |-> m, data |-> <<>>] \in Letter
           /\ [msg |-> m, data |-> s] \in Letter
           /\ [msg |-> m, data |-> Escape(s)] \in Letter
<1>1. <<>> \in Seq(Bytes)
  BY EmptySeq
<1> QED  BY <1>1 DEF Letter, Payload

LEMMA WiresStep == Wires /\ [ConnNext]_connVars => Wires'
<1> SUFFICES ASSUME Wires, [ConnNext]_connVars PROVE Wires'
  OBVIOUS
<1> USE DEF Wires, connVars, oshVars, daemonVars, relayVars
<1>1. ASSUME NEW m \in Messages, Queued(m)
      PROVE  queue' \in Seq(Letter)
  <2>1. [msg |-> m, data |-> <<>>] \in Letter
    BY LetterType, EmptySeq
  <2> QED  BY <1>1, <2>1, AppendProperties DEF Queued
<1>2. ASSUME NEW m, Handles(m)
      PROVE  inbox' \in Seq({"EXEC", "INPUT", "ADMIN_RELOAD"})
  BY <1>2, HeadTailProperties DEF Handles
<1>3. CASE RelayPing
  <2>1. "PING" \in Messages
    BY DEF Messages
  <2> QED  BY <1>1, <1>3, <2>1 DEF RelayPing
<1>4. CASE HandleExec
  <2>1. Refusals \subseteq Messages
    BY DEF Messages, Answers
  <2> QED  BY <1>1, <1>2, <1>4, <2>1 DEF HandleExec, KeepsHandling
<1>5. CASE HandleInput
  <2>1. "INVALID_REQ_ID" \in Messages
    BY DEF Messages, Answers
  <2> QED  BY <1>1, <1>2, <1>5, <2>1 DEF HandleInput, KeepsHandling
<1>6. CASE HandleReload
  <2>1. Reports \subseteq Messages
    BY DEF Messages
  <2> QED  BY <1>1, <1>2, <1>6, <2>1 DEF HandleReload, KeepsHandling
<1>7. CASE HandlerLeaves
  BY <1>7 DEF HandlerLeaves
<1>8. CASE HandlerReturns
  BY <1>8, EmptySeq DEF HandlerReturns
<1>9. CASE Write
  BY <1>9, HeadTailProperties, AppendProperties DEF Write
<1>10. ASSUME NEW n \in 1 .. Len(unsent), OnData(n)
       PROVE  Wires'
  <2> DEFINE chunk == SubSeq(unsent, 1, n)
  <2>1. n \in Nat /\ n <= Len(unsent) /\ Len(unsent) \in Nat
    BY LenProperties
  <2>2. chunk \in Seq(Bytes) /\ SubSeq(unsent, n + 1, Len(unsent)) \in Seq(Bytes)
    BY <2>1, SubSeqProperties
  <2>3. "DATA" \in Messages
    BY DEF Messages
  <2>4. [msg |-> "DATA", data |-> IF pty THEN Escape(chunk) ELSE chunk] \in Letter
    BY <2>2, <2>3, LetterType
  <2>5. queue' \in Seq(Letter)
    BY <1>10, <2>4, AppendProperties DEF OnData, Forward
  <2> QED  BY <1>10, <2>2, <2>5 DEF OnData
<1>11. ASSUME NEW m \in Finals, OnFinal(m)
       PROVE  Wires'
  <2>1. m \in Messages
    BY DEF Messages, Answers
  <2>2. [msg |-> m, data |-> <<>>] \in Letter
    BY <2>1, LetterType, EmptySeq
  <2>3. queue' \in Seq(Letter)
    BY <1>11, <2>2, AppendProperties DEF OnFinal, Forward
  <2> QED  BY <1>11, <2>3 DEF OnFinal
<1>12. CASE OnDisconnect
  <2>1. "DEVICE_OFFLINE" \in Messages
    BY DEF Messages, Answers, Refusals
  <2>2. [msg |-> "DEVICE_OFFLINE", data |-> <<>>] \in Letter
    BY <2>1, LetterType, EmptySeq
  <2>3. queue' \in Seq(Letter)
    BY <1>12, <2>2, AppendProperties DEF OnDisconnect, Forward
  <2> QED  BY <1>12, <2>3 DEF OnDisconnect
<1>13. CASE RemoveSession
  BY <1>13 DEF RemoveSession
<1>14. ASSUME NEW m, OshReads(m) \/ AdminReads(m)
       PROVE  Wires'
  <2>1. outbox # <<>> /\ outbox' \in {<<>>, Tail(outbox)}
    BY <1>14 DEF OshReads, AdminReads, Ends, Reads
  <2>2. outbox' \in Seq(Letter)
    <3>1. Tail(outbox) \in Seq(Letter)
      BY <2>1, HeadTailProperties
    <3>2. <<>> \in Seq(Letter)
      BY EmptySeq
    <3> QED  BY <2>1, <3>1, <3>2
  <2>3. peer' \in Answers \cup Reports \cup {"run", "closed", "timeout", "unexpected"}
    BY <1>14 DEF OshReads, AdminReads, Ends
  <2> QED  BY <1>14, <2>2, <2>3 DEF OshReads, AdminReads
<1>15. CASE SendInput
  <2>1. inbox' \in Seq({"EXEC", "INPUT", "ADMIN_RELOAD"})
    BY <1>15, AppendProperties DEF SendInput
  <2> QED  BY <1>15, <2>1 DEF SendInput
<1>16. CASE PeerGivesUp
  BY <1>16, EmptySeq DEF PeerGivesUp, Ends
<1>17. CASE UNCHANGED connVars
  BY <1>17
<1> QED
  BY <1>3, <1>4, <1>5, <1>6, <1>7, <1>8, <1>9, <1>10, <1>11, <1>12, <1>13, <1>14, <1>15, <1>16, <1>17
  DEF ConnNext, RelayStep, DaemonStep, PeerStep

-----------------------------------------------------------------------------
(* What is on its way to the peer.                                         *)

Within(q, K) == \E i \in 1 .. Len(q) : q[i].msg \in K

Sent(K) == Within(outbox, K) \/ Within(queue, K)

\* The relay has still to read m.
Waits(m) == \E i \in 1 .. Len(inbox) : inbox[i] = m

LEMMA WithinAppend ==
    ASSUME NEW q \in Seq(Letter), NEW m \in Letter
    PROVE  \A K : Within(Append(q, m), K) <=> Within(q, K) \/ m.msg \in K
<1>1. /\ Len(q) \in Nat /\ Len(Append(q, m)) = Len(q) + 1
      /\ \A i \in 1 .. Len(q) : Append(q, m)[i] = q[i]
      /\ Append(q, m)[Len(q) + 1] = m
  BY AppendProperties, LenProperties
<1>2. \A i : i \in 1 .. Len(Append(q, m)) <=> i \in 1 .. Len(q) \/ i = Len(q) + 1
  BY <1>1
<1> HIDE DEF Letter
<1> QED  BY <1>1, <1>2 DEF Within

LEMMA WithinTail ==
    ASSUME NEW q \in Seq(Letter), q # <<>>
    PROVE  \A K : Within(q, K) <=> Within(Tail(q), K) \/ Head(q).msg \in K
<1>1. /\ Len(q) \in Nat /\ Len(q) > 0 /\ Len(Tail(q)) = Len(q) - 1 /\ Head(q) = q[1]
      /\ \A i \in 1 .. Len(Tail(q)) : Tail(q)[i] = q[i + 1]
  BY HeadTailProperties, LenProperties, EmptySeq
<1>2. \A i \in 1 .. Len(Tail(q)) : i + 1 \in 1 .. Len(q)
  BY <1>1
<1>3. \A i \in 1 .. Len(q) : i = 1 \/ (i - 1 \in 1 .. Len(Tail(q)) /\ Tail(q)[i - 1] = q[i])
  BY <1>1
<1>4. 1 \in 1 .. Len(q)
  BY <1>1
<1> QED  BY <1>1, <1>2, <1>3, <1>4 DEF Within

LEMMA WithinEmpty == \A K : ~Within(<<>>, K)
  BY EmptySeq DEF Within

\* A message of the relay, and what makes it send that message.
Says(m) ==
    \/ m = "PING"
    \/ /\ m \in Refusals /\ Handles("EXEC")
       /\ UNCHANGED <<session, final, daemon, handler, peer, shown>>
    \/ m = "INVALID_REQ_ID" /\ Handles("INPUT") /\ ~session /\ UNCHANGED <<outbox, peer>>
    \/ m \in Reports /\ Handles("ADMIN_RELOAD") /\ reloaded' = (m = "ADMIN_RELOAD_OK")
    \/ m = "DATA" /\ Produces
    \/ m \in Finals /\ Produces /\ final = "none" /\ final' = m
    \/ m = "DEVICE_OFFLINE" /\ daemon = "idle"

LEMMA AppendSent ==
    ASSUME Wires, NEW m \in Letter, queue' = Append(queue, m), UNCHANGED outbox
    PROVE  \A K : Sent(K)' <=> Sent(K) \/ m.msg \in K
  BY WithinAppend DEF Sent, Wires

LEMMA SentStep ==
    ASSUME Wires, [ConnNext]_connVars, NEW K, Sent(K)', ~Sent(K)
    PROVE  \E m \in K : Says(m)
<1> USE DEF connVars, oshVars, daemonVars, relayVars
<1>1. ASSUME NEW m \in Messages, Queued(m), UNCHANGED outbox
      PROVE  m \in K
  <2>1. [msg |-> m, data |-> <<>>] \in Letter
    BY LetterType, EmptySeq
  <2> QED  BY <1>1, <2>1, AppendSent DEF Queued
<1>2. ASSUME NEW m \in Messages, NEW d \in Payload, Forward(m, d), UNCHANGED outbox
      PROVE  m \in K
  <2>1. [msg |-> m, data |-> d] \in Letter
    BY DEF Letter
  <2>2. CASE session /\ handler # "gone"
    BY <1>2, <2>1, <2>2, AppendSent DEF Forward
  <2>3. CASE ~(session /\ handler # "gone")
    BY <1>2, <2>3 DEF Forward, Sent
  <2> QED  BY <2>2, <2>3
<1>3. ASSUME UNCHANGED <<queue, outbox>> PROVE FALSE
  BY <1>3 DEF Sent
<1>4. Refusals \cup Finals \cup Reports \cup {"PING", "INVALID_REQ_ID", "DATA", "DEVICE_OFFLINE"} \subseteq Messages
  BY DEF Messages, Answers, Refusals
<1>5. <<>> \in Payload
  BY EmptySeq DEF Payload
<1>6. CASE RelayPing
  BY <1>1, <1>4, <1>6 DEF RelayPing, Says
<1>7. CASE HandleExec
  <2>1. PICK m \in Refusals : Queued(m) /\ UNCHANGED session
    BY <1>3, <1>7 DEF HandleExec
  <2> QED  BY <1>1, <1>4, <1>7, <2>1 DEF HandleExec, KeepsHandling, Says
<1>8. CASE HandleInput
  BY <1>1, <1>3, <1>4, <1>8 DEF HandleInput, Says
<1>9. CASE HandleReload
  <2>1. PICK m \in Reports : Queued(m) /\ reloaded' = (m = "ADMIN_RELOAD_OK")
    BY <1>9 DEF HandleReload
  <2> QED  BY <1>1, <1>4, <1>9, <2>1 DEF HandleReload, Says
<1>10. CASE HandlerLeaves \/ RemoveSession \/ SendInput \/ UNCHANGED connVars
  BY <1>3, <1>10 DEF HandlerLeaves, RemoveSession, SendInput
<1>11. CASE HandlerReturns
  BY <1>11, WithinEmpty DEF HandlerReturns, Sent
<1>12. CASE Write
  <2>1. \A L : Within(queue, L) <=> Within(queue', L) \/ Head(queue).msg \in L
    BY <1>12, WithinTail DEF Write, Wires
  <2>2. Head(queue) \in Letter
    BY <1>12, HeadTailProperties DEF Write, Wires
  <2>3. \A L : Within(outbox', L) => Within(outbox, L) \/ Head(queue).msg \in L
    BY <1>12, <2>2, WithinAppend DEF Write, Wires
  <2> QED  BY <2>1, <2>3 DEF Sent
<1>13. ASSUME NEW n \in 1 .. Len(unsent), OnData(n) PROVE \E m \in K : Says(m)
  <2> DEFINE chunk == SubSeq(unsent, 1, n)
  <2>1. n \in Nat /\ n <= Len(unsent) /\ Len(unsent) \in Nat
    BY LenProperties DEF Wires
  <2>2. chunk \in Seq(Bytes)
    BY <2>1, SubSeqProperties DEF Wires
  <2>3. chunk \in Payload /\ Escape(chunk) \in Payload
    BY <2>2 DEF Payload
  <2> QED  BY <1>2, <1>4, <1>13, <2>3 DEF OnData, Says
<1>14. ASSUME NEW m \in Finals, OnFinal(m) PROVE \E x \in K : Says(x)
  BY <1>2, <1>4, <1>5, <1>14 DEF OnFinal, Says
<1>15. CASE OnDisconnect
  BY <1>2, <1>4, <1>5, <1>15 DEF OnDisconnect, Says
<1>16. ASSUME NEW m, OshReads(m) \/ AdminReads(m) PROVE FALSE
  <2>1. outbox # <<>> /\ outbox' \in {<<>>, Tail(outbox)} /\ queue' = queue
    BY <1>16 DEF OshReads, AdminReads, Ends, Reads
  <2>2. Within(outbox', K) => Within(outbox, K)
    BY <2>1, WithinTail, WithinEmpty DEF Wires
  <2> QED  BY <2>1, <2>2 DEF Sent
<1>17. CASE PeerGivesUp
  BY <1>17, WithinEmpty DEF PeerGivesUp, Ends, Sent
<1> QED
  BY <1>6, <1>7, <1>8, <1>9, <1>10, <1>11, <1>12, <1>13, <1>14, <1>15, <1>16, <1>17
  DEF ConnNext, RelayStep, DaemonStep, PeerStep

\* How the peer ends: on its own account, or with the first message for it.
LEMMA PeerSteps ==
    ASSUME Wires, [ConnNext]_connVars, peer' # peer
    PROVE  /\ peer = "run"
           /\ \/ peer' \in {"closed", "timeout", "unexpected"}
              \/ /\ outbox # <<>> /\ peer' = Head(outbox).msg /\ Sent({peer'})
                 /\ UNCHANGED <<session, final, daemon, shown, queue, inbox, reloaded>>
                 /\ kind = "osh" \/ peer' \in Reports
<1> USE DEF connVars, oshVars, daemonVars, relayVars
<1>1. CASE PeerGivesUp
  BY <1>1 DEF PeerGivesUp, Ends
<1>2. ASSUME NEW m, OshReads(m) \/ AdminReads(m), peer' \notin {"closed", "timeout", "unexpected"}
      PROVE  /\ peer = "run"
             /\ outbox # <<>> /\ peer' = Head(outbox).msg /\ Sent({peer'})
             /\ UNCHANGED <<session, final, daemon, shown, queue, inbox, reloaded>>
             /\ kind = "osh" \/ peer' \in Reports
  <2>1. peer = "run" /\ outbox # <<>> /\ peer' = Head(outbox).msg
    BY <1>2 DEF OshReads, AdminReads, Reads, Ends
  <2>2. Sent({peer'})
    BY <2>1, WithinTail DEF Sent, Wires
  <2> QED  BY <1>2, <2>1, <2>2 DEF OshReads, AdminReads, Ends
<1>3. ASSUME NEW m, OshReads(m) \/ AdminReads(m)
      PROVE  peer = "run"
  BY <1>3 DEF OshReads, AdminReads, Reads
<1>4. CASE RelayStep \/ DaemonStep \/ SendInput \/ UNCHANGED connVars
  BY <1>4
  DEF RelayStep, RelayPing, HandleExec, HandleInput, HandleReload, HandlerLeaves, HandlerReturns,
      Write, DaemonStep, OnData, OnFinal, OnDisconnect, RemoveSession, SendInput
<1> QED  BY <1>1, <1>2, <1>3, <1>4 DEF ConnNext, PeerStep

-----------------------------------------------------------------------------
(* The request.                                                            *)

\* The request is the first message of a connection, and the only one beside inputs.
Inbox ==
    \A i \in 1 .. Len(inbox) :
      inbox[i] = "INPUT" \/ (i = 1 /\ inbox[i] = IF kind = "osh" THEN "EXEC" ELSE "ADMIN_RELOAD")

LEMMA HandlesFirst ==
    ASSUME Wires, Inbox, NEW m, Handles(m)
    PROVE  /\ Waits(m)
           /\ \A i \in 1 .. Len(inbox') : inbox'[i] = "INPUT"
           /\ handler = "serve"
<1>1. /\ inbox # <<>> /\ m = Head(inbox) /\ inbox' = Tail(inbox) /\ handler = "serve"
      /\ inbox \in Seq({"EXEC", "INPUT", "ADMIN_RELOAD"})
  BY DEF Handles, Wires
<1>2. /\ Len(inbox) \in Nat /\ Len(inbox) > 0 /\ Len(inbox') = Len(inbox) - 1
      /\ Head(inbox) = inbox[1]
      /\ \A i \in 1 .. Len(inbox') : inbox'[i] = inbox[i + 1]
  BY <1>1, HeadTailProperties, LenProperties, EmptySeq
<1>3. Waits(m)
  BY <1>1, <1>2 DEF Waits
<1>4. ASSUME NEW i \in 1 .. Len(inbox')
      PROVE  inbox'[i] = "INPUT"
  <2>1. i + 1 \in 1 .. Len(inbox) /\ i + 1 # 1
    BY <1>2
  <2> QED  BY <1>2, <2>1 DEF Inbox
<1> QED  BY <1>1, <1>3, <1>4

\* What happens to the messages of the peer.
LEMMA InboxStep ==
    ASSUME Wires, Inbox, [ConnNext]_connVars
    PROVE  /\ Inbox'
           /\ \A m \in {"EXEC", "ADMIN_RELOAD"} : Waits(m)' => Waits(m) /\ ~Handles(m)
           /\ kind' = kind
           /\ handler' = "serve" =>
                \A m \in {"EXEC", "ADMIN_RELOAD"} : Waits(m) => Waits(m)' \/ Handles(m)
<1> USE DEF connVars, oshVars, daemonVars, relayVars
<1> DEFINE Goal == /\ Inbox'
                   /\ \A m \in {"EXEC", "ADMIN_RELOAD"} : Waits(m)' => Waits(m) /\ ~Handles(m)
                   /\ kind' = kind
                   /\ handler' = "serve" =>
                        \A m \in {"EXEC", "ADMIN_RELOAD"} : Waits(m) => Waits(m)' \/ Handles(m)
<1>1. ASSUME NEW x \in {"EXEC", "INPUT", "ADMIN_RELOAD"}, Handles(x), kind' = kind
      PROVE  Goal
  <2>1. \A i \in 1 .. Len(inbox') : inbox'[i] = "INPUT"
    BY <1>1, HandlesFirst
  <2>2. ASSUME NEW m \in {"EXEC", "ADMIN_RELOAD"}, Waits(m)
        PROVE  Handles(m)
    <3>1. PICK i \in 1 .. Len(inbox) : inbox[i] = m
      BY <2>2 DEF Waits
    <3>2. i = 1
      BY <3>1 DEF Inbox
    <3>3. Head(inbox) = inbox[1]
      BY <1>1 DEF Handles, Wires
    <3> QED  BY <1>1, <3>1, <3>2, <3>3 DEF Handles
  <2> QED  BY <1>1, <2>1, <2>2 DEF Inbox, Waits
<1>2. CASE HandleExec \/ HandleInput \/ HandleReload
  <2>1. kind' = kind /\ \E x \in {"EXEC", "INPUT", "ADMIN_RELOAD"} : Handles(x)
    BY <1>2 DEF HandleExec, HandleInput, HandleReload
  <2> QED  BY <1>1, <2>1
<1>3. ASSUME UNCHANGED <<inbox, kind>>
      PROVE  Goal
  <2>1. ASSUME NEW m, Handles(m) PROVE FALSE
    <3>1. /\ inbox # <<>> /\ inbox' = Tail(inbox) /\ inbox \in Seq({"EXEC", "INPUT", "ADMIN_RELOAD"})
      BY <2>1 DEF Handles, Wires
    <3>2. Len(Tail(inbox)) = Len(inbox) - 1 /\ Len(inbox) \in Nat
      BY <3>1, HeadTailProperties, LenProperties
    <3> QED  BY <1>3, <3>1, <3>2
  <2> QED  BY <1>3, <2>1 DEF Inbox, Waits
<1>4. CASE RelayPing \/ HandlerLeaves \/ Write \/ DaemonStep \/ PeerGivesUp \/ UNCHANGED connVars
  <2>1. UNCHANGED <<inbox, kind>>
    BY <1>4
    DEF RelayPing, HandlerLeaves, Write, DaemonStep, OnData, OnFinal, OnDisconnect, RemoveSession,
        PeerGivesUp
  <2> QED  BY <1>3, <2>1
<1>5. ASSUME NEW m, OshReads(m) \/ AdminReads(m) PROVE Goal
  <2>1. UNCHANGED <<inbox, kind>>
    BY <1>5 DEF OshReads, AdminReads
  <2> QED  BY <1>3, <2>1
<1>6. CASE HandlerReturns
  <2>1. inbox' = <<>> /\ kind' = kind /\ handler' # "serve"
    BY <1>6 DEF HandlerReturns
  <2> QED  BY <2>1 DEF Inbox, Waits
<1>7. CASE SendInput
  <2>1. inbox' \in {inbox, Append(inbox, "INPUT")} /\ kind' = kind /\ handler' = handler /\ kind = "osh"
    BY <1>7 DEF SendInput
  <2>2. CASE inbox' = inbox
    BY <1>3, <2>1, <2>2
  <2>3. CASE inbox' = Append(inbox, "INPUT")
    <3>1. /\ Len(inbox) \in Nat /\ Len(inbox') = Len(inbox) + 1
          /\ \A i \in 1 .. Len(inbox) : inbox'[i] = inbox[i]
          /\ inbox'[Len(inbox) + 1] = "INPUT"
      BY <2>3, AppendProperties, LenProperties DEF Wires
    <3>2. \A i : i \in 1 .. Len(inbox') <=> i \in 1 .. Len(inbox) \/ i = Len(inbox) + 1
      BY <3>1
    <3>3. Inbox'
      BY <2>1, <3>1, <3>2 DEF Inbox
    <3>4. \A m \in {"EXEC", "ADMIN_RELOAD"} : Waits(m)' <=> Waits(m)
      BY <3>1, <3>2 DEF Waits
    <3>5. ASSUME NEW m, Handles(m) PROVE FALSE
      <4>1. inbox # <<>> /\ inbox' = Tail(inbox)
        BY <3>5 DEF Handles
      <4>2. Len(Tail(inbox)) = Len(inbox) - 1
        BY <4>1, HeadTailProperties DEF Wires
      <4> QED  BY <3>1, <4>1, <4>2
    <3> QED  BY <2>1, <3>3, <3>4, <3>5
  <2> QED  BY <2>1, <2>2, <2>3
<1> QED
  BY <1>2, <1>4, <1>5, <1>6, <1>7 DEF ConnNext, RelayStep, PeerStep

-----------------------------------------------------------------------------
(* Ends, refusals and reports.                                             *)

\* An EXIT or ERROR that is on its way, or that osh has read, is the one that the
\* daemon has sent.
EndsTrue == \A m \in Finals : Sent({m}) \/ peer = m => final = m

LEMMA EndsStep == Wires /\ EndsTrue /\ [ConnNext]_connVars => EndsTrue'
<1> SUFFICES ASSUME Wires, EndsTrue, [ConnNext]_connVars,
                    NEW m \in Finals, Sent({m})' \/ peer' = m
             PROVE  final' = m
  BY DEF EndsTrue
<1>1. final # "none" => final' = final
  <2> USE DEF connVars, oshVars, daemonVars, relayVars
  <2>1. CASE UNCHANGED connVars
    BY <2>1
  <2>2. CASE RelayStep
    BY <2>2
    DEF RelayStep, RelayPing, HandleExec, HandleInput, HandleReload, HandlerLeaves,
        HandlerReturns, Write
  <2>3. CASE DaemonStep
    BY <2>3 DEF DaemonStep, OnData, OnFinal, OnDisconnect, RemoveSession
  <2>4. CASE PeerStep
    BY <2>4 DEF PeerStep, OshReads, AdminReads, SendInput, PeerGivesUp
  <2> QED  BY <2>1, <2>2, <2>3, <2>4 DEF ConnNext
<1>2. m # "none" /\ m \notin {"closed", "timeout", "unexpected"}
  BY DEF Finals
<1>3. CASE Sent({m}) \/ peer = m
  BY <1>1, <1>2, <1>3 DEF EndsTrue
<1>4. CASE ~Sent({m}) /\ peer' # peer /\ peer' = m
  BY <1>2, <1>4, PeerSteps
<1>5. CASE ~Sent({m}) /\ Sent({m})'
  <2>1. Says(m)
    BY <1>5, SentStep
  <2> QED  BY <2>1 DEF Says, Finals, Refusals, Reports
<1> QED  BY <1>3, <1>4, <1>5

Early == {"DEVICE_NOT_FOUND", "DEVICE_NOT_APPROVED"}

\* No daemon has been asked for the request, and none has sent a word.
Untouched == ~session /\ final = "none" /\ shown = <<>> /\ ~Sent({"DATA"})

\* A refusal is the only thing that becomes of a request.
RefusedEarly ==
    /\ Sent(Early) \/ peer \in Early => Untouched /\ ~Waits("EXEC")
    /\ Waits("EXEC") => Untouched

LEMMA UntouchedStep ==
    ASSUME Wires, [ConnNext]_connVars, Untouched, ~session'
    PROVE  Untouched'
<1> USE DEF connVars, oshVars, daemonVars, relayVars
<1>1. ~Produces
  BY DEF Untouched, Produces
<1>2. ~Sent({"DATA"})'
  <2>1. ~Says("DATA")
    BY <1>1 DEF Says, Refusals, Reports, Finals
  <2> QED  BY <2>1, SentStep DEF Untouched
<1>3. final' = "none"
  <2>1. CASE UNCHANGED connVars
    BY <2>1 DEF Untouched
  <2>2. CASE RelayStep
    BY <2>2
    DEF RelayStep, RelayPing, HandleExec, HandleInput, HandleReload, HandlerLeaves,
        HandlerReturns, Write, Untouched
  <2>3. CASE DaemonStep
    BY <1>1, <2>3 DEF DaemonStep, OnData, OnFinal, OnDisconnect, RemoveSession, Untouched
  <2>4. CASE PeerStep
    BY <2>4 DEF PeerStep, OshReads, AdminReads, SendInput, PeerGivesUp, Untouched
  <2> QED  BY <2>1, <2>2, <2>3, <2>4 DEF ConnNext
<1>4. shown' = <<>>
  <2>1. ASSUME NEW m, OshReads(m) PROVE shown' = shown
    <3>1. m = Head(outbox) /\ outbox # <<>>
      BY <2>1 DEF OshReads, Reads
    <3>2. m.msg = "DATA" => Sent({"DATA"})
      BY <3>1, WithinTail DEF Sent, Wires
    <3> QED  BY <2>1, <3>2 DEF OshReads, Untouched
  <2>2. CASE RelayStep \/ DaemonStep \/ SendInput \/ PeerGivesUp \/ UNCHANGED connVars
    BY <2>2
    DEF RelayStep, RelayPing, HandleExec, HandleInput, HandleReload, HandlerLeaves,
        HandlerReturns, Write, DaemonStep, OnData, OnFinal, OnDisconnect, RemoveSession,
        SendInput, PeerGivesUp, Untouched
  <2>3. ASSUME NEW m, AdminReads(m) PROVE shown' = shown
    BY <2>3 DEF AdminReads
  <2> QED  BY <2>1, <2>2, <2>3 DEF ConnNext, PeerStep, Untouched
<1> QED  BY <1>2, <1>3, <1>4 DEF Untouched

\* Only the request opens a session.
LEMMA SessionStep ==
    ASSUME Wires, [ConnNext]_connVars, session', ~session
    PROVE  Handles("EXEC") /\ daemon = "idle" /\ UNCHANGED <<queue, outbox, peer, daemon, final>>
<1> USE DEF connVars, oshVars, daemonVars, relayVars
<1>1. CASE HandleExec
  BY <1>1 DEF HandleExec
<1>2. CASE RelayPing \/ HandleInput \/ HandleReload \/ HandlerLeaves \/ HandlerReturns \/ Write
  BY <1>2 DEF RelayPing, HandleInput, HandleReload, HandlerLeaves, HandlerReturns, Write
<1>3. CASE DaemonStep \/ UNCHANGED connVars
  BY <1>3 DEF DaemonStep, OnData, OnFinal, OnDisconnect, RemoveSession
<1>4. CASE PeerStep
  BY <1>4 DEF PeerStep, OshReads, AdminReads, SendInput, PeerGivesUp
<1> QED  BY <1>1, <1>2, <1>3, <1>4 DEF ConnNext, RelayStep

LEMMA RefusedStep ==
    ASSUME Wires, Inbox, RefusedEarly, [ConnNext]_connVars
    PROVE  RefusedEarly'
<1>1. Waits("EXEC")' => Waits("EXEC") /\ ~Handles("EXEC")
  BY InboxStep
<1>2. Handles("EXEC") => Waits("EXEC")
  BY HandlesFirst
<1>3. ASSUME Untouched, ~Handles("EXEC") PROVE Untouched'
  <2>1. ~session'
    BY <1>3, SessionStep DEF Untouched, Wires
  <2> QED  BY <1>3, <2>1, UntouchedStep
<1>4. ASSUME Sent(Early)' \/ peer' \in Early
      PROVE  Untouched' /\ ~Waits("EXEC")'
  <2>1. CASE Sent(Early) \/ peer \in Early
    BY <1>1, <1>2, <1>3, <2>1 DEF RefusedEarly
  <2>2. CASE ~Sent(Early) /\ Sent(Early)'
    <3>1. PICK m \in Early : Says(m)
      BY <2>2, SentStep
    <3>2. Handles("EXEC") /\ UNCHANGED session
      BY <3>1 DEF Says, Early, Refusals, Reports, Finals
    <3>3. Untouched
      BY <1>2, <3>2 DEF RefusedEarly
    <3>4. ~session'
      BY <3>2, <3>3 DEF Untouched
    <3> QED  BY <1>1, <3>2, <3>3, <3>4, UntouchedStep
  <2>3. CASE ~Sent(Early) /\ peer' # peer /\ peer' \in Early
    <3>1. Sent({peer'})
      BY <2>3, PeerSteps DEF Early
    <3> QED  BY <2>3, <3>1 DEF Sent, Within
  <2> QED  BY <1>4, <2>1, <2>2, <2>3
<1>5. Waits("EXEC")' => Untouched'
  BY <1>1, <1>3 DEF RefusedEarly
<1> QED  BY <1>4, <1>5 DEF RefusedEarly

\* A success that is on its way to osh-admin, or that it has read, was one; there is
\* no answer before the request is handled.
ReloadTold ==
    /\ Sent({"ADMIN_RELOAD_OK"}) \/ peer = "ADMIN_RELOAD_OK" => reloaded
    /\ Waits("ADMIN_RELOAD") => ~Sent(Reports) /\ peer \notin Reports

LEMMA ReloadStep ==
    ASSUME Wires, Inbox, ReloadTold, [ConnNext]_connVars
    PROVE  ReloadTold'
<1> USE DEF connVars, oshVars, daemonVars, relayVars
<1> DEFINE OK == "ADMIN_RELOAD_OK"
<1>1. Waits("ADMIN_RELOAD")' => Waits("ADMIN_RELOAD") /\ ~Handles("ADMIN_RELOAD")
  BY InboxStep
<1>2. Handles("ADMIN_RELOAD") => Waits("ADMIN_RELOAD")
  BY HandlesFirst
<1>3. reloaded' = reloaded \/ Handles("ADMIN_RELOAD")
  <2>1. CASE HandleReload
    BY <2>1 DEF HandleReload
  <2>2. CASE RelayPing \/ HandleExec \/ HandleInput \/ HandlerLeaves \/ HandlerReturns \/ Write
    BY <2>2 DEF RelayPing, HandleExec, HandleInput, HandlerLeaves, HandlerReturns, Write, KeepsHandling
  <2>3. CASE DaemonStep \/ UNCHANGED connVars
    BY <2>3 DEF DaemonStep, OnData, OnFinal, OnDisconnect, RemoveSession
  <2>4. CASE PeerStep
    BY <2>4 DEF PeerStep, OshReads, AdminReads, SendInput, PeerGivesUp
  <2> QED  BY <2>1, <2>2, <2>3, <2>4 DEF ConnNext, RelayStep
<1>4. OK \in Reports /\ (Sent({OK}) => Sent(Reports))
  BY DEF Sent, Within, Reports
<1>5. \A m \in Reports : Sent({m}) => Sent(Reports)
  BY DEF Sent, Within
<1>6. \A m \in Reports : Says(m) => Handles("ADMIN_RELOAD") /\ reloaded' = (m = OK)
  BY DEF Says, Reports, Refusals, Finals
<1>7. ASSUME Sent({OK})' \/ peer' = OK
      PROVE  reloaded'
  <2>1. CASE Sent({OK}) \/ peer = OK
    BY <1>2, <1>3, <1>4, <2>1 DEF ReloadTold
  <2>2. CASE ~Sent({OK}) /\ Sent({OK})'
    <3>1. Says(OK)
      BY <2>2, SentStep
    <3> QED  BY <1>4, <1>6, <3>1
  <2>3. CASE ~Sent({OK}) /\ peer' # peer /\ peer' = OK
    BY <2>3, PeerSteps
  <2> QED  BY <1>7, <2>1, <2>2, <2>3
<1>8. ASSUME Waits("ADMIN_RELOAD")'
      PROVE  ~Sent(Reports)' /\ peer' \notin Reports
  <2>1. ~Handles("ADMIN_RELOAD") /\ ~Sent(Reports) /\ peer \notin Reports
    BY <1>1, <1>8 DEF ReloadTold
  <2>2. ~Sent(Reports)'
    BY <1>6, <2>1, SentStep
  <2>3. peer' \notin Reports
    BY <1>5, <2>1, PeerSteps DEF Reports
  <2> QED  BY <2>2, <2>3
<1> QED  BY <1>7, <1>8 DEF ReloadTold

-----------------------------------------------------------------------------
(* Unknown requests.                                                       *)

\* Answers that become of a request that was known.
Definite == Answers \ {"INVALID_REQ_ID"}

\* Osh has ended, or will end with what is on its way.
Answered == peer # "run" \/ Sent(Definite)

\* As long as the relay reads what osh sends, a request that is not known any more
\* has been answered.
Remembered ==
    /\ session /\ daemon = "idle" => final = "none"
    /\ handler = "serve" /\ kind = "osh" /\ (~session \/ daemon # "idle") /\ ~Waits("EXEC")
         => Answered

\* What was an answer for osh remains one.
LEMMA AnsweredKept ==
    ASSUME Wires, [ConnNext]_connVars, Answered, kind = "osh", handler' = "serve"
    PROVE  Answered'
<1> USE DEF connVars, oshVars, daemonVars, relayVars
<1>1. CASE peer # "run"
  BY <1>1, PeerSteps DEF Answered
<1>2. CASE peer = "run" /\ Sent(Definite)
  <2>1. ASSUME UNCHANGED outbox, NEW m \in Letter, queue' = Append(queue, m)
        PROVE  Sent(Definite)'
    BY <1>2, <2>1, AppendSent
  <2>2. CASE UNCHANGED <<queue, outbox>>
    BY <1>2, <2>2 DEF Answered, Sent
  <2>3. ASSUME NEW m \in Messages, Queued(m), UNCHANGED outbox PROVE Answered'
    <3>1. [msg |-> m, data |-> <<>>] \in Letter
      BY LetterType, EmptySeq
    <3> QED  BY <2>1, <2>3, <3>1 DEF Queued, Answered
  <2>4. ASSUME NEW m \in Messages, NEW d \in Payload, Forward(m, d), UNCHANGED outbox PROVE Answered'
    <3>1. [msg |-> m, data |-> d] \in Letter
      BY DEF Letter
    <3> QED  BY <2>1, <2>2, <2>4, <3>1 DEF Forward, Answered
  <2>5. Refusals \cup Finals \cup Reports \cup {"PING", "INVALID_REQ_ID", "DATA", "DEVICE_OFFLINE"} \subseteq Messages
    BY DEF Messages, Answers, Refusals
  <2>6. <<>> \in Payload
    BY EmptySeq DEF Payload
  <2>7. CASE RelayPing
    BY <2>3, <2>5, <2>7 DEF RelayPing
  <2>8. CASE HandleExec \/ HandleInput \/ HandleReload
    BY <2>2, <2>3, <2>5, <2>8 DEF HandleExec, HandleInput, HandleReload
  <2>9. CASE HandlerLeaves \/ RemoveSession \/ SendInput \/ UNCHANGED connVars
    BY <2>2, <2>9 DEF HandlerLeaves, RemoveSession, SendInput
  <2>10. CASE HandlerReturns
    BY <2>10 DEF HandlerReturns
  <2>11. CASE Write
    <3>1. Head(queue) \in Letter /\ queue # <<>> /\ queue' = Tail(queue) /\ outbox' = Append(outbox, Head(queue))
      BY <1>2, <2>11, HeadTailProperties DEF Write, Wires
    <3>2. Within(queue, Definite) <=> Within(queue', Definite) \/ Head(queue).msg \in Definite
      BY <3>1, WithinTail DEF Wires
    <3>3. Within(outbox', Definite) <=> Within(outbox, Definite) \/ Head(queue).msg \in Definite
      BY <3>1, WithinAppend DEF Wires
    <3> QED  BY <1>2, <3>2, <3>3 DEF Sent, Answered
  <2>12. ASSUME NEW n \in 1 .. Len(unsent), OnData(n) PROVE Answered'
    <3> DEFINE chunk == SubSeq(unsent, 1, n)
    <3>1. n \in Nat /\ n <= Len(unsent) /\ Len(unsent) \in Nat
      BY LenProperties DEF Wires
    <3>2. chunk \in Seq(Bytes)
      BY <3>1, SubSeqProperties DEF Wires
    <3>3. chunk \in Payload /\ Escape(chunk) \in Payload
      BY <3>2 DEF Payload
    <3> QED  BY <2>4, <2>5, <2>12, <3>3 DEF OnData
  <2>13. ASSUME NEW m \in Finals, OnFinal(m) PROVE Answered'
    BY <2>4, <2>5, <2>6, <2>13 DEF OnFinal
  <2>14. CASE OnDisconnect
    BY <2>4, <2>5, <2>6, <2>14 DEF OnDisconnect
  <2>15. ASSUME NEW m, OshReads(m) PROVE Answered'
    <3>1. m = Head(outbox) /\ outbox # <<>> /\ queue' = queue
      BY <2>15 DEF OshReads, Reads
    <3>2. CASE m.msg \in Answers
      BY <2>15, <3>2 DEF OshReads, Ends, Answers, Refusals, Finals, Answered
    <3>3. CASE m.msg \notin Answers
      <4>1. outbox' = Tail(outbox)
        BY <2>15, <3>3 DEF OshReads
      <4>2. Within(outbox, Definite) => Within(outbox', Definite)
        BY <3>1, <3>3, <4>1, WithinTail DEF Wires, Definite
      <4> QED  BY <1>2, <3>1, <4>2 DEF Sent, Answered
    <3> QED  BY <3>2, <3>3
  <2>16. ASSUME NEW m, AdminReads(m) PROVE Answered'
    BY <2>16 DEF AdminReads
  <2>17. CASE PeerGivesUp
    BY <2>17 DEF PeerGivesUp, Ends, Answered
  <2> QED
    BY <2>7, <2>8, <2>9, <2>10, <2>11, <2>12, <2>13, <2>14, <2>15, <2>16, <2>17
    DEF ConnNext, RelayStep, DaemonStep, PeerStep
<1> QED  BY <1>1, <1>2 DEF Answered

LEMMA RememberedStep ==
    ASSUME Wires, Inbox, RefusedEarly, Remembered, [ConnNext]_connVars
    PROVE  Remembered'
<1> USE DEF connVars, oshVars, daemonVars, relayVars
<1>1. /\ Waits("EXEC") => Untouched
      /\ Handles("EXEC") => Waits("EXEC")
  BY HandlesFirst DEF RefusedEarly
<1>2. ASSUME session', daemon' = "idle" PROVE final' = "none"
  <2>1. CASE ~session
    <3>1. Handles("EXEC") /\ final' = final
      BY <1>2, <2>1, SessionStep
    <3> QED  BY <1>1, <3>1 DEF Untouched
  <2>2. CASE session
    <3>1. CASE RelayStep
      BY <1>2, <2>2, <3>1
      DEF RelayStep, RelayPing, HandleExec, HandleInput, HandleReload, HandlerLeaves,
          HandlerReturns, Write, Remembered
    <3>2. CASE DaemonStep
      BY <1>2, <2>2, <3>2 DEF DaemonStep, OnData, OnFinal, OnDisconnect, RemoveSession, Remembered
    <3>3. CASE PeerStep \/ UNCHANGED connVars
      BY <1>2, <2>2, <3>3
      DEF PeerStep, OshReads, AdminReads, SendInput, PeerGivesUp, Remembered
    <3> QED  BY <3>1, <3>2, <3>3 DEF ConnNext
  <2> QED  BY <2>1, <2>2
<1>3. ASSUME handler' = "serve", kind' = "osh", ~session' \/ daemon' # "idle", ~Waits("EXEC")'
      PROVE  Answered'
  <2>1. kind = "osh" /\ (Waits("EXEC") => Handles("EXEC"))
    BY <1>3, InboxStep
  <2>2. handler = "serve"
    <3>1. CASE RelayStep
      BY <1>3, <3>1
      DEF RelayStep, RelayPing, HandleExec, HandleInput, HandleReload, HandlerLeaves,
          HandlerReturns, Write, Handles
    <3>2. CASE DaemonStep
      BY <1>3, <3>2 DEF DaemonStep, OnData, OnFinal, OnDisconnect, RemoveSession
    <3>3. CASE PeerStep \/ UNCHANGED connVars
      BY <1>3, <3>3 DEF PeerStep, OshReads, AdminReads, SendInput, PeerGivesUp
    <3> QED  BY <3>1, <3>2, <3>3 DEF ConnNext
  <2>3. CASE Answered
    BY <1>3, <2>1, <2>3, AnsweredKept
  <2>4. CASE ~Answered /\ ~Waits("EXEC")
    <3>1. session /\ daemon = "idle" /\ final = "none"
      BY <2>1, <2>2, <2>4 DEF Remembered, Wires
    <3>2. ASSUME NEW m \in Definite, Forward(m, <<>>), UNCHANGED outbox PROVE Answered'
      <4>1. [msg |-> m, data |-> <<>>] \in Letter
        BY LetterType, EmptySeq DEF Definite, Messages
      <4>2. queue' = Append(queue, [msg |-> m, data |-> <<>>])
        BY <2>2, <3>1, <3>2 DEF Forward
      <4> QED  BY <3>2, <4>1, <4>2, AppendSent DEF Answered
    <3>3. CASE RelayStep
      BY <1>3, <2>2, <3>1, <3>3
      DEF RelayStep, RelayPing, HandleExec, HandleInput, HandleReload, HandlerLeaves,
          HandlerReturns, Write
    <3>4. ASSUME NEW m \in Finals, OnFinal(m) PROVE Answered'
      <4>1. m \in Definite
        BY DEF Definite, Answers, Finals
      <4> QED  BY <3>2, <3>4, <4>1 DEF OnFinal
    <3>5. CASE OnDisconnect
      <4>1. "DEVICE_OFFLINE" \in Definite
        BY DEF Definite, Answers, Refusals
      <4> QED  BY <3>2, <3>5, <4>1 DEF OnDisconnect
    <3>6. CASE RemoveSession \/ (\E n \in 1 .. Len(unsent) : OnData(n)) \/ PeerStep \/ UNCHANGED connVars
      BY <1>3, <3>1, <3>6
      DEF RemoveSession, OnData, PeerStep, OshReads, AdminReads, SendInput, PeerGivesUp
    <3> QED  BY <3>3, <3>4, <3>5, <3>6 DEF ConnNext, DaemonStep
  <2>5. CASE Handles("EXEC")
    <3>1. HandleExec
      <4>1. inbox # <<>> /\ inbox' = Tail(inbox) /\ Head(inbox) = "EXEC"
        BY <2>5 DEF Handles
      <4>2. inbox' # inbox
        BY <4>1, HeadTailProperties, LenProperties DEF Wires
      <4>3. CASE RelayStep
        BY <1>3, <4>1, <4>2, <4>3
        DEF RelayStep, RelayPing, HandleInput, HandleReload, HandlerLeaves, HandlerReturns, Write, Handles
      <4>4. CASE DaemonStep \/ UNCHANGED connVars
        BY <4>2, <4>4 DEF DaemonStep, OnData, OnFinal, OnDisconnect, RemoveSession
      <4>5. CASE PeerStep
        <5>1. SendInput
          BY <4>2, <4>5 DEF PeerStep, OshReads, AdminReads, PeerGivesUp
        <5>2. inbox' = Append(inbox, "INPUT")
          BY <4>2, <5>1 DEF SendInput
        <5>3. Len(inbox') = Len(inbox) + 1 /\ Len(inbox) \in Nat
          BY <5>2, AppendProperties, LenProperties DEF Wires
        <5>4. Len(inbox') = Len(inbox) - 1
          BY <4>1, HeadTailProperties DEF Wires
        <5> QED  BY <5>3, <5>4
      <4> QED  BY <4>3, <4>4, <4>5 DEF ConnNext
    <3>2. PICK m \in Refusals : Queued(m)
      BY <1>3, <3>1 DEF HandleExec
    <3>3. m \in Definite /\ [msg |-> m, data |-> <<>>] \in Letter
      BY LetterType, EmptySeq DEF Definite, Messages, Answers, Refusals
    <3>4. outbox' = outbox
      BY <3>1 DEF HandleExec
    <3> QED  BY <3>2, <3>3, <3>4, AppendSent DEF Queued, Answered
  <2> QED  BY <2>1, <2>3, <2>4, <2>5
<1> QED  BY <1>2, <1>3 DEF Remembered

\* Whatever says that the request is unknown comes after an answer.
Founded(q) ==
    \A i \in 1 .. Len(q) : q[i].msg = "INVALID_REQ_ID" =>
      \E j \in 1 .. Len(q) : j < i /\ q[j].msg \in Definite

Preceded ==
    /\ peer # "INVALID_REQ_ID"
    /\ peer = "run" /\ kind = "osh" =>
         Founded(outbox) /\ (Within(outbox, Definite) \/ Founded(queue))

LEMMA FoundedAppend ==
    ASSUME NEW q \in Seq(Letter), NEW m \in Letter, Founded(q),
           m.msg = "INVALID_REQ_ID" => Within(q, Definite)
    PROVE  Founded(Append(q, m))
<1>1. /\ Len(q) \in Nat /\ Len(Append(q, m)) = Len(q) + 1
      /\ \A i \in 1 .. Len(q) : Append(q, m)[i] = q[i]
      /\ Append(q, m)[Len(q) + 1] = m
  BY AppendProperties, LenProperties
<1>2. /\ \A i : i \in 1 .. Len(Append(q, m)) <=> i \in 1 .. Len(q) \/ i = Len(q) + 1
      /\ \A i \in 1 .. Len(q) : i < Len(q) + 1
  BY <1>1
<1> HIDE DEF Letter
<1> QED  BY <1>1, <1>2 DEF Within, Founded

LEMMA FoundedTail ==
    ASSUME NEW q \in Seq(Letter), q # <<>>, Founded(q)
    PROVE  /\ Head(q).msg # "INVALID_REQ_ID"
           /\ Head(q).msg \notin Definite => Founded(Tail(q))
<1>1. /\ Len(q) \in Nat /\ Len(q) > 0 /\ Len(Tail(q)) = Len(q) - 1 /\ Head(q) = q[1]
      /\ \A i \in 1 .. Len(Tail(q)) : Tail(q)[i] = q[i + 1]
  BY HeadTailProperties, LenProperties, EmptySeq
<1>2. 1 \in 1 .. Len(q) /\ \A j \in 1 .. Len(q) : ~(j < 1)
  BY <1>1
<1>3. Head(q).msg # "INVALID_REQ_ID"
  BY <1>1, <1>2 DEF Founded
<1>4. ASSUME Head(q).msg \notin Definite, NEW i \in 1 .. Len(Tail(q)), Tail(q)[i].msg = "INVALID_REQ_ID"
      PROVE  \E j \in 1 .. Len(Tail(q)) : j < i /\ Tail(q)[j].msg \in Definite
  <2>1. i + 1 \in 1 .. Len(q) /\ q[i + 1].msg = "INVALID_REQ_ID"
    BY <1>1, <1>4
  <2>2. PICK j \in 1 .. Len(q) : j < i + 1 /\ q[j].msg \in Definite
    BY <2>1 DEF Founded
  <2>3. j # 1
    BY <1>1, <1>4, <2>2
  <2>4. j - 1 \in 1 .. Len(Tail(q)) /\ j - 1 < i /\ Tail(q)[j - 1] = q[j]
    BY <1>1, <2>2, <2>3
  <2> QED  BY <2>2, <2>4
<1> QED  BY <1>3, <1>4 DEF Founded

LEMMA PrecededStep ==
    ASSUME Wires, Inbox, Remembered, Preceded, [ConnNext]_connVars
    PROVE  Preceded'
<1> USE DEF connVars, oshVars, daemonVars, relayVars
<1>1. peer' # "INVALID_REQ_ID"
  <2>1. CASE peer' = peer
    BY <2>1 DEF Preceded
  <2>2. CASE peer' # peer /\ peer' \notin {"closed", "timeout", "unexpected"} \cup Reports
    <3>1. peer = "run" /\ kind = "osh" /\ outbox # <<>> /\ peer' = Head(outbox).msg
      BY <2>2, PeerSteps
    <3> QED  BY <3>1, FoundedTail DEF Preceded, Wires
  <2>3. CASE peer' \in {"closed", "timeout", "unexpected"} \cup Reports
    BY <2>3 DEF Reports
  <2> QED  BY <2>1, <2>2, <2>3
<1>2. ASSUME peer' = "run", kind' = "osh"
      PROVE  Founded(outbox') /\ (Within(outbox', Definite) \/ Founded(queue'))
  <2> DEFINE Goal == Founded(outbox') /\ (Within(outbox', Definite) \/ Founded(queue'))
  <2>1. peer = "run" /\ kind = "osh"
    BY <1>2, PeerSteps, InboxStep
  <2>2. Founded(outbox) /\ (Within(outbox, Definite) \/ Founded(queue))
    BY <2>1 DEF Preceded
  <2>3. CASE UNCHANGED <<queue, outbox>>
    BY <2>2, <2>3
  <2>4. ASSUME NEW m \in Letter, queue' = Append(queue, m), UNCHANGED outbox,
               m.msg = "INVALID_REQ_ID" => Sent(Definite)
        PROVE  Goal
    <3>1. CASE Within(outbox, Definite)
      BY <2>2, <2>4, <3>1
    <3>2. CASE ~Within(outbox, Definite)
      <4>1. m.msg = "INVALID_REQ_ID" => Within(queue, Definite)
        BY <2>4, <3>2 DEF Sent
      <4>2. Founded(Append(queue, m))
        BY <2>2, <2>4, <3>2, <4>1, FoundedAppend DEF Wires
      <4> QED  BY <2>2, <2>4, <4>2
    <3> QED  BY <3>1, <3>2
  <2>5. ASSUME NEW m \in Messages, Queued(m), UNCHANGED outbox,
               m = "INVALID_REQ_ID" => Sent(Definite)
        PROVE  Goal
    <3>1. [msg |-> m, data |-> <<>>] \in Letter
      BY LetterType, EmptySeq
    <3> QED  BY <2>4, <2>5, <3>1 DEF Queued
  <2>6. ASSUME NEW m \in Messages \ {"INVALID_REQ_ID"}, NEW d \in Payload, Forward(m, d), UNCHANGED outbox
        PROVE  Goal
    <3>1. [msg |-> m, data |-> d] \in Letter
      BY DEF Letter
    <3> QED  BY <2>3, <2>4, <2>6, <3>1 DEF Forward
  <2>7. Refusals \cup Finals \cup Reports \cup {"PING", "DATA", "DEVICE_OFFLINE"} \subseteq Messages \ {"INVALID_REQ_ID"}
    BY DEF Messages, Answers, Refusals, Finals, Reports
  <2>8. <<>> \in Payload
    BY EmptySeq DEF Payload
  <2>9. CASE RelayPing
    BY <2>5, <2>7, <2>9 DEF RelayPing
  <2>10. CASE HandleExec
    <3>1. CASE UNCHANGED queue
      BY <2>3, <2>10, <3>1 DEF HandleExec
    <3>2. ASSUME NEW m \in Refusals, Queued(m) PROVE Goal
      BY <2>5, <2>7, <2>10, <3>2 DEF HandleExec
    <3> QED  BY <2>10, <3>1, <3>2 DEF HandleExec
  <2>11. CASE HandleInput
    <3>1. CASE session
      BY <2>3, <2>11, <3>1 DEF HandleInput
    <3>2. CASE ~session
      <4>1. inbox # <<>> /\ Head(inbox) = "INPUT" /\ handler = "serve"
        BY <2>11 DEF HandleInput, Handles
      <4>2. ~Waits("EXEC")
        <5>1. Head(inbox) = inbox[1]
          BY <4>1 DEF Wires
        <5> QED  BY <4>1, <5>1 DEF Inbox, Waits
      <4>3. Sent(Definite)
        BY <2>1, <3>2, <4>1, <4>2 DEF Remembered, Answered
      <4>4. "INVALID_REQ_ID" \in Messages
        BY DEF Messages, Answers
      <4> QED  BY <2>5, <2>11, <3>2, <4>3, <4>4 DEF HandleInput
    <3> QED  BY <3>1, <3>2
  <2>12. CASE HandleReload
    BY <2>5, <2>7, <2>12 DEF HandleReload
  <2>13. CASE HandlerLeaves \/ RemoveSession \/ SendInput \/ UNCHANGED connVars
    BY <2>3, <2>13 DEF HandlerLeaves, RemoveSession, SendInput
  <2>14. CASE HandlerReturns
    <3>1. Founded(<<>>)
      BY EmptySeq DEF Founded
    <3> QED  BY <2>2, <2>14, <3>1 DEF HandlerReturns
  <2>15. CASE Write
    <3>1. /\ Head(queue) \in Letter /\ queue # <<>> /\ queue' = Tail(queue)
          /\ outbox' = Append(outbox, Head(queue))
      BY <2>1, <2>15, HeadTailProperties DEF Write, Wires
    <3>2. \A K : Within(outbox', K) <=> Within(outbox, K) \/ Head(queue).msg \in K
      BY <3>1, WithinAppend DEF Wires
    <3>3. CASE Within(outbox, Definite)
      <4>1. Founded(outbox')
        BY <2>2, <3>1, <3>3, FoundedAppend DEF Wires
      <4> QED  BY <3>2, <3>3, <4>1
    <3>4. CASE Founded(queue)
      <4>1. /\ Head(queue).msg # "INVALID_REQ_ID"
            /\ Head(queue).msg \notin Definite => Founded(queue')
        BY <3>1, <3>4, FoundedTail DEF Wires
      <4>2. Founded(outbox')
        BY <2>2, <3>1, <4>1, FoundedAppend DEF Wires
      <4> QED  BY <3>2, <4>1, <4>2
    <3> QED  BY <2>2, <3>3, <3>4
  <2>16. ASSUME NEW n \in 1 .. Len(unsent), OnData(n) PROVE Goal
    <3> DEFINE chunk == SubSeq(unsent, 1, n)
    <3>1. n \in Nat /\ n <= Len(unsent) /\ Len(unsent) \in Nat
      BY LenProperties DEF Wires
    <3>2. chunk \in Seq(Bytes)
      BY <3>1, SubSeqProperties DEF Wires
    <3>3. chunk \in Payload /\ Escape(chunk) \in Payload
      BY <3>2 DEF Payload
    <3> QED  BY <2>6, <2>7, <2>16, <3>3 DEF OnData
  <2>17. ASSUME NEW m \in Finals, OnFinal(m) PROVE Goal
    BY <2>6, <2>7, <2>8, <2>17 DEF OnFinal
  <2>18. CASE OnDisconnect
    BY <2>6, <2>7, <2>8, <2>18 DEF OnDisconnect
  <2>19. ASSUME NEW m, OshReads(m) PROVE Goal
    <3>1. m = Head(outbox) /\ outbox # <<>> /\ queue' = queue
      BY <2>19 DEF OshReads, Reads
    <3>2. m.msg \notin Answers /\ outbox' = Tail(outbox)
      BY <1>2, <2>19 DEF OshReads, Ends, Answers, Refusals, Finals
    <3>3. m.msg \notin Definite
      BY <3>2 DEF Definite
    <3>4. Founded(outbox')
      BY <2>2, <3>1, <3>2, <3>3, FoundedTail DEF Wires
    <3>5. Within(outbox, Definite) => Within(outbox', Definite)
      BY <3>1, <3>2, <3>3, WithinTail DEF Wires
    <3> QED  BY <2>2, <3>1, <3>4, <3>5
  <2>20. ASSUME NEW m, AdminReads(m) PROVE Goal
    BY <2>1, <2>20 DEF AdminReads
  <2>21. CASE PeerGivesUp
    BY <1>2, <2>21 DEF PeerGivesUp, Ends
  <2> QED
    BY <2>9, <2>10, <2>11, <2>12, <2>13, <2>14, <2>15, <2>16, <2>17, <2>18, <2>19, <2>20, <2>21
    DEF ConnNext, RelayStep, DaemonStep, PeerStep
<1> QED  BY <1>1, <1>2 DEF Preceded

-----------------------------------------------------------------------------
(* Answers.                                                                *)

Connected ==
    Wires /\ Inbox /\ EndsTrue /\ RefusedEarly /\ ReloadTold /\ Remembered /\ Preceded

LEMMA ConnectedInit == ConnInit => Connected
<1> SUFFICES ASSUME ConnInit PROVE Connected
  OBVIOUS
<1>1. Wires
  <2>1. \A m \in {"EXEC", "INPUT", "ADMIN_RELOAD"} : <<m>> \in Seq({"EXEC", "INPUT", "ADMIN_RELOAD"})
    OBVIOUS
  <2>2. inbox \in Seq({"EXEC", "INPUT", "ADMIN_RELOAD"}) /\ unsent \in Seq(Bytes) /\ printed \in Seq(Bytes)
    BY <2>1, OshAssumption DEF ConnInit, Bytes
  <2> QED  BY <2>2, EmptySeq DEF ConnInit, Wires
<1>2. /\ peer = "run" /\ final = "none" /\ shown = <<>> /\ session = FALSE /\ daemon = "idle"
      /\ queue = <<>> /\ outbox = <<>>
  BY DEF ConnInit
<1>3. \A K : ~Sent(K)
  BY <1>2, WithinEmpty DEF Sent
<1>4. /\ Len(inbox) = 1
      /\ inbox[1] = IF kind = "osh" THEN "EXEC" ELSE "ADMIN_RELOAD"
  BY DEF ConnInit
<1>5. Inbox
  BY <1>4 DEF Inbox
<1>6. EndsTrue
  BY <1>2, <1>3 DEF EndsTrue, Finals
<1>7. RefusedEarly
  BY <1>2, <1>3 DEF RefusedEarly, Early, Untouched
<1>8. ReloadTold
  BY <1>2, <1>3 DEF ReloadTold, Reports
<1>9. Remembered
  <2>1. 1 \in 1 .. Len(inbox)
    BY <1>4
  <2>2. kind = "osh" => Waits("EXEC")
    BY <1>4, <2>1 DEF Waits
  <2> QED  BY <1>2, <2>2 DEF Remembered
<1>10. Preceded
  BY <1>2, EmptySeq DEF Preceded, Founded
<1> QED  BY <1>1, <1>5, <1>6, <1>7, <1>8, <1>9, <1>10 DEF Connected

LEMMA ConnectedHolds == ConnSpec => []Connected
<1>1. Connected /\ [ConnNext]_connVars => Connected'
  BY WiresStep, InboxStep, EndsStep, RefusedStep, ReloadStep, RememberedStep, PrecededStep
  DEF Connected
<1> QED  BY ConnectedInit, <1>1, PTL DEF ConnSpec

\* What osh reports is what became of its request, whatever its daemon prints, however
\* inputs, pings and answers cross, and whichever side goes first: it is never told
\* that the request is unknown, although the relay says so of an input that comes after
\* the answer (relay.rs 311-345, 560-578); an EXIT or ERROR it reports is the one the
\* daemon sent, a refusal it reports comes before any output, and osh-admin reports a
\* success only of a reload that was one.
THEOREM AnswersTrue == ConnSpec => []AnswerTrue
<1>1. Connected => AnswerTrue
  <2> SUFFICES ASSUME Connected PROVE AnswerTrue
    OBVIOUS
  <2>1. peer # "INVALID_REQ_ID"
    BY DEF Connected, Preceded
  <2>2. peer \in Finals => final = peer
    BY DEF Connected, EndsTrue
  <2>3. peer \in {"DEVICE_NOT_FOUND", "DEVICE_NOT_APPROVED"} => shown = <<>>
    BY DEF Connected, RefusedEarly, Early, Untouched
  <2>4. peer = "ADMIN_RELOAD_OK" => reloaded
    BY DEF Connected, ReloadTold
  <2> QED  BY <2>1, <2>2, <2>3, <2>4 DEF AnswerTrue
<1> QED  BY <1>1, ConnectedHolds, PTL

-----------------------------------------------------------------------------
(* The text on its way.                                                    *)

\* A text in two pieces, and a piece of what is left of it.
LEMMA Pieces ==
    ASSUME NEW s \in Seq(Bytes), NEW a \in 0 .. Len(s), NEW c \in a .. Len(s)
    PROVE  SubSeq(s, 1, a) \o SubSeq(s, a + 1, c) = SubSeq(s, 1, c)
  OBVIOUS

LEMMA PieceOfRest ==
    ASSUME NEW s \in Seq(Bytes), NEW a \in 0 .. Len(s), NEW n \in 1 .. Len(s) - a
    PROVE  LET u == SubSeq(s, a + 1, Len(s))
           IN  /\ Len(u) = Len(s) - a
               /\ SubSeq(u, 1, n) = SubSeq(s, a + 1, a + n)
               /\ SubSeq(u, n + 1, Len(u)) = SubSeq(s, a + n + 1, Len(s))
  OBVIOUS

LEMMA Lines ==
    ASSUME NEW S, NEW p \in Seq(S), NEW q \in Seq(S)
    PROVE  /\ p \o q \in Seq(S)
           /\ \A m \in S : p \o Append(q, m) = Append(p \o q, m)
           /\ q # <<>> => Append(p, Head(q)) \o Tail(q) = p \o q
           /\ p # <<>> => p \o q # <<>> /\ Head(p \o q) = Head(p) /\ Tail(p \o q) = Tail(p) \o q
<1>1. p \o q \in Seq(S)
  OBVIOUS
<1>2. ASSUME NEW m \in S
      PROVE  p \o Append(q, m) = Append(p \o q, m)
  OBVIOUS
<1>3. ASSUME q # <<>>
      PROVE  Append(p, Head(q)) \o Tail(q) = p \o q
  BY <1>3
<1>4. ASSUME p # <<>>
      PROVE  p \o q # <<>> /\ Head(p \o q) = Head(p) /\ Tail(p \o q) = Tail(p) \o q
  BY <1>4
<1> QED  BY <1>1, <1>2, <1>3, <1>4

\* What message m shows of the text between the places a and c.  The end of a
\* process is reported behind the whole text, if the order is kept.
Carries(text, ordered, m, a, c) ==
    /\ IF m.msg = "DATA" THEN Displayed(m.data) = SubSeq(text, a + 1, c) ELSE c = a
    /\ a <= c
    /\ m.msg = "EXIT" /\ ordered => a = Len(text)

\* The messages of q show the text between the places a and b.
Leads(text, ordered, q, a, b) ==
    \E at : /\ \A i \in 1 .. Len(q) + 1 : at[i] \in 0 .. b
            /\ at[1] = a /\ at[Len(q) + 1] = b
            /\ \A i \in 1 .. Len(q) : Carries(text, ordered, q[i], at[i], at[i + 1])

LEMMA LeadsEmpty ==
    ASSUME NEW text, NEW ordered, NEW a \in Nat
    PROVE  Leads(text, ordered, <<>>, a, a)
<1> DEFINE at == [i \in 1 .. 1 |-> a]
<1>1. at[1] = a /\ Len(<<>>) = 0 /\ \A i \in 1 .. 1 : at[i] \in 0 .. a
  OBVIOUS
<1> HIDE DEF at
<1> QED  BY <1>1 DEF Leads

LEMMA LeadsAppend ==
    ASSUME NEW text, NEW ordered, NEW S, NEW q \in Seq(S), NEW m \in S,
           NEW a, NEW b \in Nat, NEW c \in Nat,
           Leads(text, ordered, q, a, b), Carries(text, ordered, m, b, c)
    PROVE  Leads(text, ordered, Append(q, m), a, c)
<1> DEFINE n == Len(q)
           r == Append(q, m)
<1>1. /\ n \in Nat /\ Len(r) = n + 1 /\ r[n + 1] = m
      /\ \A i \in 1 .. n : r[i] = q[i]
  BY AppendProperties, LenProperties
<1>2. PICK at : /\ \A i \in 1 .. n + 1 : at[i] \in 0 .. b
                /\ at[1] = a /\ at[n + 1] = b
                /\ \A i \in 1 .. n : Carries(text, ordered, q[i], at[i], at[i + 1])
  BY DEF Leads
<1>3. b <= c
  BY DEF Carries
<1> DEFINE to == [i \in 1 .. n + 2 |-> IF i = n + 2 THEN c ELSE at[i]]
<1> HIDE DEF n, r
<1>4. /\ \A i \in 1 .. n + 1 : to[i] = at[i]
      /\ to[n + 2] = c
  BY <1>1
<1> HIDE DEF to
<1>5. /\ n + 1 + 1 = n + 2 /\ 1 \in 1 .. n + 1 /\ n + 1 \in 1 .. n + 1
      /\ \A i \in 1 .. n + 2 : i = n + 2 \/ i \in 1 .. n + 1
      /\ \A i \in 1 .. n + 1 : i = n + 1 \/ i \in 1 .. n
      /\ \A i \in 1 .. n : i \in 1 .. n + 1 /\ i + 1 \in 1 .. n + 1
  BY <1>1
<1>6. \A i \in 1 .. n + 2 : to[i] \in 0 .. c
  <2>1. c \in 0 .. c /\ \A x \in 0 .. b : x \in 0 .. c
    BY <1>3
  <2> QED  BY <1>2, <1>4, <1>5, <2>1
<1>7. \A i \in 1 .. n + 1 : Carries(text, ordered, r[i], to[i], to[i + 1])
  BY <1>1, <1>2, <1>4, <1>5
<1>8. to[1] = a
  BY <1>2, <1>4, <1>5
<1>9. Leads(text, ordered, r, a, c)
  BY <1>1, <1>4, <1>5, <1>6, <1>7, <1>8 DEF Leads
<1> QED  BY <1>9 DEF r

LEMMA LeadsTail ==
    ASSUME NEW text, NEW ordered, NEW S, NEW q \in Seq(S), q # <<>>,
           NEW a \in Nat, NEW b \in Nat, Leads(text, ordered, q, a, b)
    PROVE  \E c \in 0 .. b : /\ Carries(text, ordered, Head(q), a, c)
                             /\ Leads(text, ordered, Tail(q), c, b)
<1> DEFINE n == Len(q)
           r == Tail(q)
<1>1. /\ n \in Nat /\ n > 0 /\ Len(r) = n - 1 /\ Head(q) = q[1]
      /\ \A i \in 1 .. n - 1 : r[i] = q[i + 1]
  BY HeadTailProperties, LenProperties, EmptySeq
<1>2. PICK at : /\ \A i \in 1 .. n + 1 : at[i] \in 0 .. b
                /\ at[1] = a /\ at[n + 1] = b
                /\ \A i \in 1 .. n : Carries(text, ordered, q[i], at[i], at[i + 1])
  BY DEF Leads
<1> HIDE DEF n
<1>3. 1 \in 1 .. n /\ 2 \in 1 .. n + 1 /\ 1 + 1 = 2
  BY <1>1
<1>4. Carries(text, ordered, Head(q), a, at[2]) /\ at[2] \in 0 .. b
  BY <1>1, <1>2, <1>3
<1> DEFINE to == [i \in 1 .. n |-> at[i + 1]]
<1>5. /\ \A i \in 1 .. n : i + 1 \in 1 .. n + 1
      /\ \A i \in 1 .. n - 1 : i \in 1 .. n /\ i + 1 \in 1 .. n
      /\ n - 1 + 1 = n /\ n \in 1 .. n
  BY <1>1
<1>6. \A i \in 1 .. n : to[i] = at[i + 1]
  OBVIOUS
<1> HIDE DEF to, r
<1>7. \A i \in 1 .. n : to[i] \in 0 .. b
  BY <1>2, <1>5, <1>6
<1>8. \A i \in 1 .. n - 1 : Carries(text, ordered, r[i], to[i], to[i + 1])
  BY <1>1, <1>2, <1>5, <1>6
<1>9. to[1] = at[2] /\ to[n] = b
  BY <1>2, <1>3, <1>5, <1>6
<1>10. Leads(text, ordered, r, at[2], b)
  BY <1>1, <1>5, <1>7, <1>8, <1>9 DEF Leads
<1> QED  BY <1>4, <1>10 DEF r

LEMMA LeadsFirst ==
    ASSUME NEW text, NEW ordered, NEW S, NEW p \in Seq(S), NEW q \in Seq(S),
           NEW a, NEW b \in Nat, Leads(text, ordered, p \o q, a, b)
    PROVE  \E c \in 0 .. b : Leads(text, ordered, p, a, c)
<1> DEFINE n == Len(p)
           r == p \o q
<1>1. /\ n \in Nat /\ Len(q) \in Nat /\ Len(r) = n + Len(q)
      /\ \A i \in 1 .. n : r[i] = p[i]
  <2>1. n \in Nat /\ Len(q) \in Nat /\ Len(r) = n + Len(q)
    BY ConcatProperties, LenProperties
  <2>2. \A i \in 1 .. n : i \in 1 .. n + Len(q) /\ i <= n
    BY <2>1
  <2> QED  BY <2>1, <2>2, ConcatProperties
<1>2. PICK at : /\ \A i \in 1 .. Len(r) + 1 : at[i] \in 0 .. b
                /\ at[1] = a
                /\ \A i \in 1 .. Len(r) : Carries(text, ordered, r[i], at[i], at[i + 1])
  BY DEF Leads
<1> HIDE DEF n, r
<1> DEFINE c == at[n + 1]
<1>3. /\ \A i \in 1 .. n + 1 : i \in 1 .. Len(r) + 1
      /\ \A i \in 1 .. n : i \in 1 .. Len(r) /\ i + 1 \in 1 .. n + 1 /\ i \in 1 .. n + 1
      /\ n + 1 \in 1 .. n + 1
  BY <1>1
<1>4. \A i \in 1 .. n : at[i] <= at[i + 1]
  BY <1>1, <1>2, <1>3 DEF Carries
<1>5. \A i \in 1 .. n + 1 : at[i] <= c
  <2> DEFINE U == {k \in 0 .. n : ~(at[n + 1 - k] <= c)}
  <2>1. ASSUME U # {} PROVE FALSE
    <3>1. PICK k \in U : k \in Nat /\ \A m \in 0 .. k - 1 : m \notin U
      <4>1. U \subseteq Nat
        BY <1>1
      <4> HIDE DEF U
      <4> QED  BY <2>1, <4>1, Least
    <3>2. c \in Nat /\ \A i \in 1 .. n + 1 : at[i] \in Nat
      BY <1>2, <1>3
    <3>3. k # 0
      <4>1. k = 0 => n + 1 - k = n + 1
        BY <1>1
      <4> QED  BY <3>1, <3>2, <4>1
    <3> DEFINE i == n + 1 - k
               j == n + 1 - (k - 1)
    <3>4. k - 1 \in 0 .. k - 1 /\ k - 1 \in 0 .. n /\ i \in 1 .. n /\ j = i + 1 /\ j \in 1 .. n + 1 /\ i \in 1 .. n + 1
      BY <1>1, <3>1, <3>3
    <3>5. at[j] <= c
      BY <3>1, <3>4
    <3> HIDE DEF i, j, c
    <3>6. at[i] <= at[j]
      BY <1>4, <3>4
    <3>7. at[i] <= c
      BY <3>2, <3>4, <3>5, <3>6
    <3> QED  BY <3>1, <3>7 DEF i
  <2>2. ASSUME NEW i \in 1 .. n + 1
        PROVE  at[i] <= c
    <3>1. n + 1 - i \in 0 .. n /\ n + 1 - (n + 1 - i) = i
      BY <1>1
    <3> QED  BY <2>1, <3>1
  <2> QED  BY <2>2
<1>6. \A i \in 1 .. n + 1 : at[i] \in 0 .. c
  <2>1. \A i \in 1 .. n + 1 : at[i] \in Nat
    BY <1>2, <1>3
  <2> QED  BY <1>3, <1>5, <2>1
<1>7. c \in 0 .. b
  BY <1>2, <1>3
<1>8. \A i \in 1 .. n : Carries(text, ordered, p[i], at[i], at[i + 1])
  BY <1>1, <1>2, <1>3
<1>9. Leads(text, ordered, p, a, c)
  BY <1>2, <1>6, <1>8 DEF Leads, n
<1> QED  BY <1>7, <1>9

\* A message for osh would not be lost: the relay knows the request, or will.
Open == (session \/ Waits("EXEC")) /\ handler # "gone"

\* What the daemon has taken of the text.
Taken == Len(printed) - Len(unsent)

Line == outbox \o queue

\* What is shown, what is on its way and what the daemon still has are the text, in
\* this order; only what comes after the last message for osh may be missing.
TextWay ==
    kind = "osh" /\ printed \in Seq(Plain) =>
        /\ Taken \in 0 .. Len(printed)
        /\ unsent = SubSeq(printed, Taken + 1, Len(printed))
        /\ \E a \in 0 .. Len(printed) :
             /\ shown = SubSeq(printed, 1, a)
             /\ peer = "EXIT" /\ ~pty => a = Len(printed)
             /\ peer = "run" =>
                  \E b \in 0 .. Taken : Leads(printed, ~pty, Line, a, b) /\ (Open => b = Taken)

LEMMA OpenStep ==
    ASSUME Wires, Inbox, [ConnNext]_connVars, Open'
    PROVE  Open
<1> USE DEF connVars, oshVars, daemonVars, relayVars
<1>1. handler # "gone"
  <2>1. CASE RelayStep
    BY <2>1
    DEF RelayStep, RelayPing, HandleExec, HandleInput, HandleReload, HandlerLeaves,
        HandlerReturns, Write, KeepsHandling, Handles, Open
  <2>2. CASE DaemonStep
    BY <2>2 DEF DaemonStep, OnData, OnFinal, OnDisconnect, RemoveSession, Open
  <2>3. CASE PeerStep \/ UNCHANGED connVars
    BY <2>3 DEF PeerStep, OshReads, AdminReads, SendInput, PeerGivesUp, Open
  <2> QED  BY <2>1, <2>2, <2>3 DEF ConnNext
<1>2. CASE Waits("EXEC")'
  BY <1>1, <1>2, InboxStep DEF Open
<1>3. CASE session' /\ ~session
  BY <1>1, <1>3, SessionStep, HandlesFirst DEF Open
<1> QED  BY <1>1, <1>2, <1>3 DEF Open

LEMMA LineStep ==
    ASSUME Wires
    PROVE  /\ Line \in Seq(Letter)
           /\ \A m \in Letter : queue' = Append(queue, m) /\ outbox' = outbox => Line' = Append(Line, m)
           /\ Write /\ peer = "run" => Line' = Line
           /\ outbox # <<>> => /\ Line # <<>> /\ Head(Line) = Head(outbox)
                               /\ outbox' = Tail(outbox) /\ queue' = queue => Line' = Tail(Line)
<1>1. outbox \in Seq(Letter) /\ queue \in Seq(Letter)
  BY DEF Wires
<1> HIDE DEF Letter
<1>2. Write /\ peer = "run" =>
        queue # <<>> /\ queue' = Tail(queue) /\ outbox' = Append(outbox, Head(queue))
  BY DEF Write
<1>3. /\ Line \in Seq(Letter)
      /\ \A m \in Letter : outbox \o Append(queue, m) = Append(Line, m)
      /\ queue # <<>> => Append(outbox, Head(queue)) \o Tail(queue) = Line
      /\ outbox # <<>> => Line # <<>> /\ Head(Line) = Head(outbox) /\ Tail(Line) = Tail(outbox) \o queue
  <2>1. Line \in Seq(Letter)
    BY <1>1, Lines DEF Line
  <2>2. \A m \in Letter : outbox \o Append(queue, m) = Append(Line, m)
    BY <1>1, Lines DEF Line
  <2>3. queue # <<>> => Append(outbox, Head(queue)) \o Tail(queue) = Line
    BY <1>1, Lines DEF Line
  <2>4. outbox # <<>> => Line # <<>> /\ Head(Line) = Head(outbox)
    BY <1>1, Lines DEF Line
  <2>5. outbox # <<>> => Tail(Line) = Tail(outbox) \o queue
    BY <1>1, Lines DEF Line
  <2> QED  BY <2>1, <2>2, <2>3, <2>4, <2>5
<1>4. Line' = outbox' \o queue'
  BY DEF Line
<1> QED  BY <1>2, <1>3, <1>4

\* Steps that leave the line as it is, and steps that add what shows nothing.
LEMMA TextKept ==
    ASSUME Wires, TextWay, UNCHANGED <<kind, pty, printed, unsent, shown, peer>>,
           peer = "run" => Line' = Line, Open' => Open
    PROVE  TextWay'
  BY DEF TextWay, Taken

LEMMA TextAdded ==
    ASSUME Wires, TextWay, UNCHANGED <<kind, pty, printed, unsent, shown, peer>>,
           NEW m \in Letter, queue' = Append(queue, m), UNCHANGED outbox, Open' => Open,
           m.msg # "DATA", m.msg = "EXIT" => Open /\ (~pty => unsent = <<>>)
    PROVE  TextWay'
<1> SUFFICES ASSUME kind = "osh", printed \in Seq(Plain), peer = "run"
             PROVE  TextWay'
  BY DEF TextWay, Taken
<1>1. PICK a \in 0 .. Len(printed), b \in 0 .. Taken :
        /\ shown = SubSeq(printed, 1, a)
        /\ Leads(printed, ~pty, Line, a, b) /\ (Open => b = Taken)
        /\ Taken \in 0 .. Len(printed) /\ unsent = SubSeq(printed, Taken + 1, Len(printed))
  BY DEF TextWay
<1>2. Line' = Append(Line, m) /\ Line \in Seq(Letter)
  BY LineStep
<1>3. Carries(printed, ~pty, m, b, b)
  <2>1. b \in Nat
    BY <1>1
  <2>2. m.msg = "EXIT" /\ ~pty => b = Len(printed)
    <3>1. unsent = <<>> => Taken = Len(printed)
      BY EmptySeq DEF Taken
    <3> QED  BY <1>1, <3>1
  <2> QED  BY <2>1, <2>2 DEF Carries
<1>4. Leads(printed, ~pty, Line', a, b)
  <2>1. a \in Nat /\ b \in Nat
    BY <1>1
  <2> HIDE DEF Letter
  <2> QED  BY <1>1, <1>2, <1>3, <2>1, LeadsAppend
<1>5. Taken' = Taken
  BY DEF Taken
<1> QED  BY <1>1, <1>4, <1>5 DEF TextWay

LEMMA TextTaken ==
    ASSUME Wires, Inbox, RefusedEarly, TextWay, [ConnNext]_connVars,
           NEW n \in 1 .. Len(unsent), OnData(n)
    PROVE  TextWay'
<1> USE DEF connVars, oshVars, daemonVars, relayVars
<1> SUFFICES ASSUME kind = "osh", printed \in Seq(Plain)
             PROVE  TextWay'
  BY DEF TextWay, OnData
<1> DEFINE chunk == SubSeq(unsent, 1, n)
           data  == IF pty THEN Escape(chunk) ELSE chunk
           m     == [msg |-> "DATA", data |-> data]
<1>1. PICK a \in 0 .. Len(printed) :
        /\ shown = SubSeq(printed, 1, a)
        /\ peer = "EXIT" /\ ~pty => a = Len(printed)
        /\ peer = "run" =>
             \E b \in 0 .. Taken : Leads(printed, ~pty, Line, a, b) /\ (Open => b = Taken)
        /\ Taken \in 0 .. Len(printed) /\ unsent = SubSeq(printed, Taken + 1, Len(printed))
  BY DEF TextWay
<1>2. UNCHANGED <<kind, pty, printed, shown, peer, outbox>> /\ unsent' = SubSeq(unsent, n + 1, Len(unsent))
  BY DEF OnData
<1>3. printed \in Seq(Bytes) /\ Len(printed) \in Nat
  BY LenProperties DEF Plain, Literal
<1>4. Len(unsent) = Len(printed) - Taken /\ n \in 1 .. Len(printed) - Taken
  BY <1>1, <1>3, PieceOfRest
<1>5. /\ chunk = SubSeq(printed, Taken + 1, Taken + n)
      /\ unsent' = SubSeq(printed, Taken + n + 1, Len(printed))
  BY <1>1, <1>2, <1>3, <1>4, PieceOfRest
<1>6. Taken' = Taken + n /\ Taken' \in 0 .. Len(printed)
  <2>1. unsent \in Seq(Bytes) /\ Len(unsent) \in Nat
    BY LenProperties DEF Wires
  <2>2. Len(unsent') = Len(unsent) - n
    BY <1>2, <2>1, SubSeqProperties
  <2>3. Taken' = Len(printed) - Len(unsent')
    BY <1>2 DEF Taken
  <2> DEFINE x == Taken
             y == Len(unsent')
             z == Len(printed)
  <2>4. x = z - Len(unsent) /\ x \in 0 .. z /\ z \in Nat /\ y = Len(unsent) - n /\ n \in 1 .. z - x
    BY <1>1, <1>3, <1>4, <2>2 DEF Taken
  <2> HIDE DEF x, y, z
  <2>5. z - y = x + n /\ z - y \in 0 .. z
    BY <2>1, <2>4
  <2> QED  BY <2>3, <2>5 DEF x, y, z
<1>7. chunk \in Seq(Plain) /\ chunk \in Seq(Bytes)
  BY <1>1, <1>3, <1>4, <1>5, SubSeqProperties
<1>8. Displayed(data) = chunk
  BY <1>7, DisplayedPlain
<1>9. m \in Letter
  <2>1. "DATA" \in Messages
    BY DEF Messages
  <2> QED  BY <1>7, <2>1, LetterType
<1>10. Forward("DATA", data)
  BY DEF OnData
<1>11. CASE peer # "run"
  BY <1>1, <1>2, <1>5, <1>6, <1>11 DEF TextWay
<1>12. CASE peer = "run" /\ session /\ handler # "gone"
  <2>1. Leads(printed, ~pty, Line, a, Taken)
    BY <1>1, <1>12 DEF Open
  <2>2. Line' = Append(Line, m) /\ Line \in Seq(Letter)
    BY <1>2, <1>9, <1>10, <1>12, LineStep DEF Forward
  <2>3. Carries(printed, ~pty, m, Taken, Taken + n)
    BY <1>1, <1>4, <1>5, <1>8 DEF Carries
  <2>4. Leads(printed, ~pty, Line', a, Taken + n)
    <3>1. a \in Nat /\ Taken \in Nat /\ Taken + n \in Nat
      BY <1>1, <1>4
    <3> HIDE DEF m, Letter
    <3> QED  BY <1>9, <2>1, <2>2, <2>3, <3>1, LeadsAppend
  <2>5. Taken + n \in 0 .. Taken'
    BY <1>1, <1>4, <1>6
  <2>6. unsent' = SubSeq(printed, Taken' + 1, Len(printed))
    BY <1>5, <1>6
  <2>7. \E b \in 0 .. Taken' : Leads(printed, ~pty, Line', a, b) /\ (Open' => b = Taken')
    BY <1>6, <2>4, <2>5
  <2> QED  BY <1>1, <1>2, <1>6, <2>6, <2>7 DEF TextWay
<1>13. CASE peer = "run" /\ ~(session /\ handler # "gone")
  <2>1. Line' = Line
    BY <1>2, <1>10, <1>13 DEF Forward, Line
  <2>2. ~Open'
    <3>1. UNCHANGED <<session, handler>>
      BY DEF OnData
    <3>2. ~session => ~Waits("EXEC")
      BY DEF OnData, Produces, RefusedEarly, Untouched
    <3> QED  BY <1>13, <3>1, <3>2, InboxStep DEF Open
  <2>3. \A b \in 0 .. Taken : b \in 0 .. Taken'
    BY <1>1, <1>4, <1>6
  <2> QED  BY <1>1, <1>2, <1>5, <1>6, <1>13, <2>1, <2>2, <2>3 DEF TextWay
<1> QED  BY <1>11, <1>12, <1>13

LEMMA TextRead ==
    ASSUME Wires, TextWay, NEW m, OshReads(m), Open' => Open
    PROVE  TextWay'
<1> USE DEF connVars, oshVars, daemonVars, relayVars
<1> SUFFICES ASSUME printed \in Seq(Plain)
             PROVE  TextWay'
  BY DEF TextWay, OshReads
<1>1. /\ kind = "osh" /\ peer = "run" /\ outbox # <<>> /\ m = Head(outbox) /\ queue' = queue
      /\ UNCHANGED <<kind, pty, printed, unsent>>
  BY DEF OshReads, Reads
<1>2. PICK a \in 0 .. Len(printed), b \in 0 .. Taken :
        /\ shown = SubSeq(printed, 1, a)
        /\ Leads(printed, ~pty, Line, a, b) /\ (Open => b = Taken)
        /\ Taken \in 0 .. Len(printed) /\ unsent = SubSeq(printed, Taken + 1, Len(printed))
  BY <1>1 DEF TextWay
<1>3. /\ Line \in Seq(Letter) /\ Line # <<>> /\ Head(Line) = m
      /\ outbox' = Tail(outbox) => Line' = Tail(Line)
  BY <1>1, LineStep
<1>4. PICK c \in 0 .. b : Carries(printed, ~pty, m, a, c) /\ Leads(printed, ~pty, Tail(Line), c, b)
  <2>1. a \in Nat /\ b \in Nat
    BY <1>2
  <2> HIDE DEF Letter
  <2> QED  BY <1>2, <1>3, <2>1, LeadsTail
<1>5. Taken' = Taken /\ c \in 0 .. Len(printed) /\ a <= c
  BY <1>1, <1>2, <1>4 DEF Taken, Carries
<1>6. CASE m.msg \in Answers
  <2>1. shown' = shown /\ peer' = m.msg /\ peer' # "run"
    BY <1>6 DEF OshReads, Ends, Answers, Refusals, Finals
  <2>2. peer' = "EXIT" /\ ~pty => a = Len(printed)
    BY <1>4, <2>1 DEF Carries
  <2> QED  BY <1>1, <1>2, <1>5, <2>1, <2>2 DEF TextWay
<1>7. CASE m.msg = "DATA"
  <2>1. shown' = shown \o Displayed(m.data) /\ peer' = peer /\ Line' = Tail(Line)
    BY <1>3, <1>7 DEF OshReads, Answers, Refusals, Finals
  <2>2. shown' = SubSeq(printed, 1, c)
    <3>1. Displayed(m.data) = SubSeq(printed, a + 1, c)
      BY <1>4, <1>7 DEF Carries
    <3>2. printed \in Seq(Bytes) /\ c \in a .. Len(printed)
      BY <1>2, <1>5 DEF Plain, Literal
    <3> QED  BY <1>2, <2>1, <3>1, <3>2, Pieces
  <2> QED  BY <1>1, <1>2, <1>4, <1>5, <2>1, <2>2 DEF TextWay
<1>8. CASE m.msg \notin Answers \cup {"DATA"}
  <2>1. shown' = shown /\ peer' = peer /\ Line' = Tail(Line) /\ c = a
    BY <1>3, <1>4, <1>8 DEF OshReads, Carries
  <2> QED  BY <1>1, <1>2, <1>4, <1>5, <2>1 DEF TextWay
<1> QED  BY <1>6, <1>7, <1>8

LEMMA TextStep ==
    ASSUME Wires, Inbox, RefusedEarly, TextWay, [ConnNext]_connVars
    PROVE  TextWay'
<1> USE DEF connVars, oshVars, daemonVars, relayVars
<1>1. Open' => Open
  BY OpenStep
<1>2. ASSUME UNCHANGED <<kind, pty, printed, unsent, shown, peer, queue, outbox>>
      PROVE  TextWay'
  BY <1>1, <1>2, TextKept DEF Line
<1>3. ASSUME UNCHANGED <<kind, pty, printed, unsent, shown, peer, outbox>>,
             NEW m \in Messages, Queued(m), m \notin {"DATA", "EXIT"}
      PROVE  TextWay'
  <2>1. [msg |-> m, data |-> <<>>] \in Letter
    BY LetterType, EmptySeq
  <2> QED  BY <1>1, <1>3, <2>1, TextAdded DEF Queued
<1>4. ASSUME UNCHANGED <<kind, pty, printed, unsent, shown, peer, outbox>>,
             NEW m \in Messages, Forward(m, <<>>), m # "DATA",
             m = "EXIT" => pty \/ unsent = <<>>
      PROVE  TextWay'
  <2>1. [msg |-> m, data |-> <<>>] \in Letter
    BY LetterType, EmptySeq
  <2>2. CASE session /\ handler # "gone"
    BY <1>1, <1>4, <2>1, <2>2, TextAdded DEF Forward, Open
  <2>3. CASE ~(session /\ handler # "gone")
    BY <1>2, <1>4, <2>3 DEF Forward
  <2> QED  BY <2>2, <2>3
<1>5. Refusals \cup Reports \cup {"PING", "INVALID_REQ_ID", "DEVICE_OFFLINE", "ERROR"} \subseteq Messages \ {"DATA", "EXIT"}
  BY DEF Messages, Answers, Refusals, Reports, Finals
<1>6. CASE RelayPing
  BY <1>3, <1>5, <1>6 DEF RelayPing
<1>7. CASE HandleExec
  <2>1. CASE UNCHANGED queue
    BY <1>2, <1>7, <2>1 DEF HandleExec
  <2>2. ASSUME NEW m \in Refusals, Queued(m) PROVE TextWay'
    BY <1>3, <1>5, <1>7, <2>2 DEF HandleExec
  <2> QED  BY <1>7, <2>1, <2>2 DEF HandleExec
<1>8. CASE HandleInput
  BY <1>2, <1>3, <1>5, <1>8 DEF HandleInput
<1>9. CASE HandleReload
  BY <1>3, <1>5, <1>9 DEF HandleReload
<1>10. CASE HandlerLeaves \/ RemoveSession \/ SendInput \/ UNCHANGED connVars
  BY <1>2, <1>10 DEF HandlerLeaves, RemoveSession, SendInput
<1>11. CASE HandlerReturns
  <2>1. /\ UNCHANGED <<kind, pty, printed, unsent, shown, peer, outbox>> /\ queue' = <<>>
        /\ ~Open'
    BY <1>11 DEF HandlerReturns, Open
  <2>2. Line' = outbox
    BY <2>1 DEF Line, Wires
  <2>3. Taken' = Taken
    BY <2>1 DEF Taken
  <2>4. ASSUME NEW a \in 0 .. Len(printed), NEW b \in 0 .. Taken, Leads(printed, ~pty, Line, a, b),
               Taken \in 0 .. Len(printed)
        PROVE  \E c \in 0 .. Taken : Leads(printed, ~pty, outbox, a, c)
    <3>1. b \in Nat /\ \A c \in 0 .. b : c \in 0 .. Taken
      BY <2>4
    <3>2. outbox \in Seq(Letter) /\ queue \in Seq(Letter)
      BY DEF Wires
    <3>3. \E c \in 0 .. b : Leads(printed, ~pty, outbox, a, c)
      <4> HIDE DEF Letter
      <4> QED  BY <2>4, <3>1, <3>2, LeadsFirst DEF Line
    <3> QED  BY <3>1, <3>3
  <2> QED  BY <2>1, <2>2, <2>3, <2>4 DEF TextWay
<1>12. CASE Write
  <2>1. UNCHANGED <<kind, pty, printed, unsent, shown, peer>>
    BY <1>12 DEF Write
  <2> QED  BY <1>1, <1>12, <2>1, LineStep, TextKept
<1>13. ASSUME NEW n \in 1 .. Len(unsent), OnData(n) PROVE TextWay'
  BY <1>13, TextTaken
<1>14. ASSUME NEW m \in Finals, OnFinal(m) PROVE TextWay'
  <2>1. m \in Messages /\ m # "DATA" /\ m \in {"EXIT", "ERROR"}
    BY DEF Messages, Answers, Finals
  <2> QED  BY <1>4, <1>14, <2>1 DEF OnFinal
<1>15. CASE OnDisconnect
  BY <1>4, <1>5, <1>15 DEF OnDisconnect
<1>16. ASSUME NEW m, OshReads(m) PROVE TextWay'
  BY <1>1, <1>16, TextRead
<1>17. ASSUME NEW m, AdminReads(m) PROVE TextWay'
  BY <1>17 DEF AdminReads, TextWay
<1>18. CASE PeerGivesUp
  <2>1. UNCHANGED <<kind, pty, printed, unsent, shown>> /\ peer = "run" /\ peer' \in {"closed", "timeout"}
    BY <1>18 DEF PeerGivesUp, Ends
  <2> QED  BY <2>1 DEF TextWay, Taken
<1> QED
  BY <1>6, <1>7, <1>8, <1>9, <1>10, <1>11, <1>12, <1>13, <1>14, <1>15, <1>16, <1>17, <1>18
  DEF ConnNext, RelayStep, DaemonStep, PeerStep

\* A text without ESC and backslash appears as the process printed it: what is shown is
\* always its beginning, however it is cut into messages, escaped or not, and whatever
\* is lost with a connection; and it is complete when osh reports the end of a command
\* without a PTY (main.rs 251, 259, protocol.rs 288, daemon.rs 650).
THEOREM TextAppears == ConnSpec => []TextPrinted
<1>1. ConnInit => TextWay
  <2> SUFFICES ASSUME ConnInit PROVE TextWay
    OBVIOUS
  <2>1. printed \in Seq(Bytes) /\ unsent = printed /\ shown = <<>> /\ outbox = <<>> /\ queue = <<>> /\ peer = "run"
    BY OshAssumption DEF ConnInit, Bytes
  <2>2. Len(printed) \in Nat
    BY <2>1, LenProperties
  <2>3. Taken = 0 /\ unsent = SubSeq(printed, Taken + 1, Len(printed))
    BY <2>1, <2>2, SubSeqFull DEF Taken
  <2>4. Line = <<>>
    BY <2>1 DEF Line
  <2>5. Leads(printed, ~pty, Line, 0, 0)
    BY <2>4, LeadsEmpty
  <2>6. shown = SubSeq(printed, 1, 0)
    BY <2>1
  <2> QED  BY <2>1, <2>2, <2>3, <2>5, <2>6 DEF TextWay
<1>2. Connected /\ TextWay /\ [ConnNext]_connVars => TextWay'
  BY TextStep DEF Connected
<1>3. Connected /\ TextWay => TextPrinted
  <2> SUFFICES ASSUME Connected, TextWay,
                      kind = "osh", Range(printed) \cap {ESC, Backslash} = {}
               PROVE  IsPrefix(shown, printed) /\ (peer = "EXIT" /\ ~pty => shown = printed)
    BY DEF TextPrinted
  <2>1. printed \in Seq(Plain)
    <3>1. \A i \in 1 .. Len(printed) : printed[i] \in Bytes /\ printed[i] \in Range(printed)
      BY ElementOfSeq DEF Range, Connected, Wires
    <3>2. \A i \in 1 .. Len(printed) : printed[i] \in Plain
      BY <3>1 DEF Plain, Literal
    <3> QED  BY <3>2 DEF Connected, Wires
  <2>2. PICK a \in 0 .. Len(printed) : /\ shown = SubSeq(printed, 1, a)
                                       /\ peer = "EXIT" /\ ~pty => a = Len(printed)
    BY <2>1 DEF TextWay
  <2>3. IsPrefix(shown, printed)
    BY <2>2 DEF IsPrefix
  <2>4. SubSeq(printed, 1, Len(printed)) = printed
    BY SubSeqFull DEF Connected, Wires
  <2> QED  BY <2>2, <2>3, <2>4
<1> QED  BY <1>1, <1>2, <1>3, ConnectedHolds, PTL DEF ConnSpec
=============================================================================
