-------------------------- MODULE LineReaderProofs --------------------------
(***************************************************************************)
(* The wire's escapes for every value, the lines of a stream however it is *)
(* cut, the limit on a line, the label and log line made of a name, and    *)
(* the records of an answer: for every stream, every limit, every size of  *)
(* the pieces, every set of passwords and whatever an answer's values are. *)
(***************************************************************************)
EXTENDS LineReader, RedactionProofs, FiniteSetTheorems

-----------------------------------------------------------------------------
(* One step of a pass.                                                     *)

\* The characters the wire escapes.
Raws == {Escapes[k][1] : k \in DOMAIN Escapes}

\* A pass whose first step leads to where the other one begins.
Continues(n, w, d, s, m, x, e) ==
  /\ s \in Nat \ {0} /\ n = s + m /\ d[1] = s
  /\ \A i \in 1..m : w[s + i] = x[i] /\ d[s + i] = e[i]

\* A pass takes one step, then makes the pass over the rest of the text.
LEMMA PassStep ==
  ASSUME NEW P, NEW n, NEW w, NEW d, IsPass(P, n, w, d),
         NEW m, NEW x, NEW e, IsPass(P, m, x, e),
         NEW s, Continues(n, w, d, s, m, x, e)
  PROVE  Rewritten(n, w, d) = w[1] \o Rewritten(m, x, e)
<1>1. /\ n \in Nat /\ m \in Nat /\ s \in Nat \ {0} /\ n = s + m /\ d[1] = s
      /\ \A i \in 1..m : w[s + i] = x[i] /\ d[s + i] = e[i]
  BY DEF IsPass, Continues
<1>2. PICK f : IsRest(P, n, w, d, 1, f) /\ Rewritten(n, w, d) = f[1]
  BY PassDefined
<1>3. PICK g : IsRest(P, m, x, e, 1, g) /\ Rewritten(m, x, e) = g[1]
  BY PassDefined
<1>4. f[n + 1] = <<>> /\ \A i \in 1..n : f[i] = w[i] \o f[i + d[i]]
  BY <1>2 DEF IsRest
<1>5. g[m + 1] = <<>> /\ \A i \in 1..m : g[i] = x[i] \o g[i + e[i]]
  BY <1>3 DEF IsRest
<1> DEFINE S == {i \in 1..(m + 1) : f[s + i] # g[i]}
<1>6. ASSUME S # {} PROVE FALSE
  <2>1. PICK q \in S : \A i \in S : i <= q
    <3>1. S \subseteq 1..(m + 1) /\ m + 1 \in Nat
      BY <1>1
    <3> HIDE DEF S
    <3>2. QED
      BY <1>6, <3>1, GreatestOf
  <2>2. q # m + 1
    <3>1. s + (m + 1) = n + 1
      BY <1>1
    <3>2. QED
      BY <1>4, <1>5, <2>1, <3>1
  <2>3. q \in 1..m /\ s + q \in 1..n
    BY <1>1, <2>1, <2>2
  <2>4. PICK r : r = q + e[q]
    OBVIOUS
  <2>5. r \in 1..(m + 1) /\ r > q /\ s + r = (s + q) + e[q]
    <3>1. e[q] \in Nat \ {0} /\ q + e[q] <= m + 1
      BY <2>3 DEF IsPass
    <3>2. QED
      BY <1>1, <2>3, <2>4, <3>1
  <2>6. f[s + r] = g[r]
    BY <1>1, <2>1, <2>3, <2>5
  <2>7. f[s + q] = w[s + q] \o f[(s + q) + d[s + q]]
    BY <1>4, <2>3
  <2>8. f[s + q] = x[q] \o f[s + r]
    <3>1. w[s + q] = x[q] /\ d[s + q] = e[q]
      BY <1>1, <2>3
    <3>2. QED
      BY <2>5, <2>7, <3>1
  <2>9. g[q] = x[q] \o g[r]
    BY <1>5, <2>3, <2>4
  <2>10. QED
    BY <2>1, <2>6, <2>8, <2>9
<1>7. f[s + 1] = g[1] /\ 1 \in 1..n /\ 1 + d[1] = s + 1
  BY <1>1, <1>6
<1>8. f[1] = w[1] \o f[s + 1]
  BY <1>4, <1>7
<1>9. QED
  BY <1>2, <1>3, <1>7, <1>8

\* A pass over nothing writes nothing.
LEMMA PassEmpty ==
  ASSUME NEW P, NEW w, NEW d, IsPass(P, 0, w, d)
  PROVE  Rewritten(0, w, d) = <<>>
<1>1. PICK f : IsRest(P, 0, w, d, 1, f) /\ Rewritten(0, w, d) = f[1]
  BY PassDefined
<1>2. f[0 + 1] = <<>>
  BY <1>1 DEF IsRest
<1>3. QED
  BY <1>1, <1>2

-----------------------------------------------------------------------------
(* escape, replacement by replacement.                                     *)

\* What the wire escapes, and the letters it writes instead, are all different: a raw
\* character is its own letter or no letter.
LEMMA EscapesDiffer ==
  /\ DOMAIN Escapes = 1..11 /\ Escapes[1][1] = Backslash
  /\ \A j, k \in 1..11 :
       /\ Escapes[j][1] = Escapes[k][1] => j = k
       /\ Escapes[j][2] = Escapes[k][2] => j = k
       /\ Escapes[j][1] = Escapes[k][2] => j = k
  /\ \A j \in 1..11 : Escapes[j][1] = Escapes[j][2] => j \in {1, 2}
<1>1. \A k \in 1..11 : \/ k = 1 \/ k = 2 \/ k = 3 \/ k = 4 \/ k = 5 \/ k = 6 \/ k = 7
                       \/ k = 8 \/ k = 9 \/ k = 10 \/ k = 11
  OBVIOUS
<1>2. DOMAIN Escapes = 1..11
  BY DEF Escapes
<1>3. /\ Escapes[1][1] = "\\" /\ Escapes[2][1] = "/" /\ Escapes[3][1] = " "
      /\ Escapes[4][1] = "|" /\ Escapes[5][1] = "BEL" /\ Escapes[6][1] = "BS"
      /\ Escapes[7][1] = "FF" /\ Escapes[8][1] = "LF" /\ Escapes[9][1] = "CR"
      /\ Escapes[10][1] = "TAB" /\ Escapes[11][1] = "VT"
  BY DEF Escapes, Backslash
<1>4. /\ Escapes[1][2] = "\\" /\ Escapes[2][2] = "/" /\ Escapes[3][2] = "s"
      /\ Escapes[4][2] = "p" /\ Escapes[5][2] = "a" /\ Escapes[6][2] = "b"
      /\ Escapes[7][2] = "f" /\ Escapes[8][2] = "n" /\ Escapes[9][2] = "r"
      /\ Escapes[10][2] = "t" /\ Escapes[11][2] = "v"
  BY DEF Escapes, Backslash
<1> DEFINE Place(c) == CASE c = "\\" -> 1 [] c = "/" -> 2 [] c = " " -> 3 [] c = "|" -> 4
                         [] c = "BEL" -> 5 [] c = "BS" -> 6 [] c = "FF" -> 7 [] c = "LF" -> 8
                         [] c = "CR" -> 9 [] c = "TAB" -> 10 [] c = "VT" -> 11 [] OTHER -> 0
           LetterPlace(c) == CASE c = "\\" -> 1 [] c = "/" -> 2 [] c = "s" -> 3 [] c = "p" -> 4
                               [] c = "a" -> 5 [] c = "b" -> 6 [] c = "f" -> 7 [] c = "n" -> 8
                               [] c = "r" -> 9 [] c = "t" -> 10 [] c = "v" -> 11
<1>5. \A j \in 1..11 : Place(Escapes[j][1]) = j
  BY <1>1, <1>3
<1>6. \A j \in 1..11 : LetterPlace(Escapes[j][2]) = j
  BY <1>1, <1>4
<1>7. \A j \in 1..11 : Place(Escapes[j][2]) = IF j \in {1, 2} THEN j ELSE 0
  BY <1>1, <1>4
<1> HIDE DEF Place, LetterPlace
<1>8. /\ \A j, k \in 1..11 :
           /\ Escapes[j][1] = Escapes[k][1] => j = k
           /\ Escapes[j][2] = Escapes[k][2] => j = k
           /\ Escapes[j][1] = Escapes[k][2] => j = k
      /\ \A j \in 1..11 : Escapes[j][1] = Escapes[j][2] => j \in {1, 2}
  <2>1. ASSUME NEW j \in 1..11, NEW k \in 1..11
        PROVE  /\ Escapes[j][1] = Escapes[k][1] => j = k
               /\ Escapes[j][2] = Escapes[k][2] => j = k
               /\ Escapes[j][1] = Escapes[k][2] => j = k /\ k \in {1, 2}
    BY <1>5, <1>6, <1>7
  <2>2. QED
    BY <2>1
<1>9. QED
  BY <1>2, <1>3, <1>8 DEF Backslash

\* A text after its first characters.
LEMMA HeadOf ==
  ASSUME NEW P, NEW h \in Seq(P), NEW t \in Seq(P)
  PROVE  /\ h \o t \in Seq(P) /\ Len(h) \in Nat /\ Len(t) \in Nat
         /\ Len(h \o t) = Len(h) + Len(t) /\ DOMAIN (h \o t) = 1..(Len(h) + Len(t))
         /\ \A i \in 1..Len(h) : (h \o t)[i] = h[i]
         /\ \A i \in 1..Len(t) : (h \o t)[Len(h) + i] = t[i]
<1>1. Len(h) \in Nat /\ Len(t) \in Nat
  BY LenProperties
<1>2. /\ h \o t \in Seq(P) /\ Len(h \o t) = Len(h) + Len(t)
      /\ \A i \in 1..Len(h) + Len(t) :
           (h \o t)[i] = IF i <= Len(h) THEN h[i] ELSE t[i - Len(h)]
  BY ConcatProperties
<1>3. DOMAIN (h \o t) = 1..(Len(h) + Len(t))
  BY <1>2, LenProperties
<1>4. ASSUME NEW i \in 1..Len(t) PROVE (h \o t)[Len(h) + i] = t[i]
  <2>1. Len(h) + i \in 1..Len(h) + Len(t) /\ ~(Len(h) + i <= Len(h)) /\ (Len(h) + i) - Len(h) = i
    BY <1>1
  <2>2. QED
    BY <1>2, <2>1
<1>5. \A i \in 1..Len(h) : (h \o t)[i] = h[i]
  BY <1>1, <1>2
<1>6. QED
  BY <1>1, <1>2, <1>3, <1>4, <1>5

LEMMA PairText ==
  ASSUME NEW P, NEW a \in P, NEW b \in P, NEW t \in Seq(P)
  PROVE  <<a>> \o (<<b>> \o t) = <<a, b>> \o t
<1>1. <<a>> \in Seq(P) /\ <<b>> \in Seq(P)
  BY WordsType
<1>2. <<a>> \o <<b>> = <<a, b>>
  <2>1. PICK x : x = <<a>> \o <<b>>
    OBVIOUS
  <2>2. x \in Seq(P) /\ Len(x) = 2
    BY <1>1, <2>1, ConcatProperties
  <2>3. x[1] = a /\ x[2] = b
    BY <1>1, <2>1, ConcatProperties
  <2>4. <<a, b>> \in Seq(P) /\ Len(<<a, b>>) = 2
    BY WordsType
  <2>5. \A i \in 1..2 : x[i] = <<a, b>>[i]
    <3>1. \A i \in 1..2 : i = 1 \/ i = 2
      OBVIOUS
    <3>2. QED
      BY <2>3, <3>1
  <2>6. QED
    BY <2>1, <2>2, <2>4, <2>5, SeqEqual
<1>3. (<<a>> \o <<b>>) \o t = <<a>> \o (<<b>> \o t)
  BY <1>1, ConcatAssociative
<1>4. QED
  BY <1>2, <1>3

\* What replaces a character.
Replacement(c, pair) == IF c = pair[1] THEN <<Backslash, pair[2]>> ELSE <<c>>

LEMMA ReplacedPass ==
  ASSUME NEW P, Backslash \in P, NEW pair, pair[2] \in P, NEW t \in Seq(P)
  PROVE  \E w, d :
           /\ Replaced(t, pair) = Rewritten(Len(t), w, d)
           /\ IsPass(P, Len(t), w, d)
           /\ \A i \in 1..Len(t) : w[i] = Replacement(t[i], pair) /\ d[i] = 1
<1> DEFINE w == [i \in DOMAIN t |-> IF t[i] = pair[1] THEN <<Backslash, pair[2]>> ELSE <<t[i]>>]
           d == [i \in DOMAIN t |-> 1]
<1>1. Len(t) \in Nat /\ DOMAIN t = 1..Len(t) /\ \A i \in 1..Len(t) : t[i] \in P
  BY LenProperties, ElementOfSeq
<1>2. Replaced(t, pair) = Rewritten(Len(t), w, d)
  BY DEF Replaced
<1>3. \A i \in 1..Len(t) : w[i] = Replacement(t[i], pair) /\ d[i] = 1
  BY <1>1 DEF Replacement
<1>4. \A c \in P : Replacement(c, pair) \in Seq(P)
  BY WordsType DEF Replacement
<1> HIDE DEF w, d
<1>5. \A i \in 1..Len(t) : w[i] \in Seq(P) /\ d[i] \in Nat \ {0} /\ i + d[i] <= Len(t) + 1
  BY <1>1, <1>3, <1>4
<1>6. IsPass(P, Len(t), w, d)
  BY <1>1, <1>5 DEF IsPass
<1>7. QED
  BY <1>2, <1>3, <1>6

LEMMA ReplacedStep ==
  ASSUME NEW P, Backslash \in P, NEW pair, pair[2] \in P, NEW c \in P, NEW t \in Seq(P),
         NEW h, h = <<c>>
  PROVE  /\ Replaced(h \o t, pair) = Replacement(c, pair) \o Replaced(t, pair)
         /\ Replaced(<<>>, pair) = <<>> /\ Replaced(t, pair) \in Seq(P)
<1>1. PICK text : text = h \o t
  OBVIOUS
<1>2. h \in Seq(P) /\ Len(h) = 1 /\ h[1] = c
  BY WordsType
<1>3. /\ text \in Seq(P) /\ Len(t) \in Nat /\ Len(text) = 1 + Len(t)
      /\ text[1] = c /\ \A i \in 1..Len(t) : text[1 + i] = t[i]
  <2>1. 1 \in 1..1
    OBVIOUS
  <2>2. QED
    BY <1>1, <1>2, <2>1, HeadOf
<1>4. PICK w, d : /\ Replaced(text, pair) = Rewritten(Len(text), w, d)
                  /\ IsPass(P, Len(text), w, d)
                  /\ \A i \in 1..Len(text) : w[i] = Replacement(text[i], pair) /\ d[i] = 1
  <2>1. text \in Seq(P)
    BY <1>3
  <2>2. QED
    BY <2>1, ReplacedPass
<1>5. PICK x, e : /\ Replaced(t, pair) = Rewritten(Len(t), x, e)
                  /\ IsPass(P, Len(t), x, e)
                  /\ \A i \in 1..Len(t) : x[i] = Replacement(t[i], pair) /\ e[i] = 1
  BY ReplacedPass
<1>6. \A i \in 1..Len(t) : w[1 + i] = x[i] /\ d[1 + i] = e[i]
  <2> TAKE i \in 1..Len(t)
  <2>1. 1 + i \in 1..Len(text)
    BY <1>3
  <2>2. QED
    BY <1>3, <1>4, <1>5, <2>1
<1>7. 1 \in 1..Len(text) /\ d[1] = 1 /\ w[1] = Replacement(c, pair)
  BY <1>3, <1>4
<1>8. Rewritten(Len(text), w, d) = w[1] \o Rewritten(Len(t), x, e)
  <2>1. Continues(Len(text), w, d, 1, Len(t), x, e)
    BY <1>3, <1>6, <1>7 DEF Continues
  <2>2. PICK n, m, s : n = Len(text) /\ m = Len(t) /\ s = 1
    OBVIOUS
  <2>3. IsPass(P, n, w, d) /\ IsPass(P, m, x, e) /\ Continues(n, w, d, s, m, x, e)
    BY <1>4, <1>5, <2>1, <2>2
  <2>4. Rewritten(n, w, d) = w[1] \o Rewritten(m, x, e)
    BY <2>3, PassStep
  <2>5. QED
    BY <2>2, <2>4
<1>9. Replaced(<<>>, pair) = <<>>
  <2>1. <<>> \in Seq(P) /\ Len(<<>>) = 0
    BY EmptySeq
  <2>2. PICK y, f : Replaced(<<>>, pair) = Rewritten(0, y, f) /\ IsPass(P, 0, y, f)
    BY <2>1, ReplacedPass
  <2>3. QED
    BY <2>2, PassEmpty
<1>10. QED
  BY <1>1, <1>4, <1>5, <1>7, <1>8, <1>9, PassType

-----------------------------------------------------------------------------
(* unescape.                                                               *)

\* What unescape finds and writes at a place.
EscapedAt(text, i) == text[i] = Backslash /\ i < Len(text) /\ text[i + 1] \in Letters
Unescaped(text, i) ==
  IF EscapedAt(text, i) THEN <<RawOf(text[i + 1])>> ELSE <<text[i]>>
Taken(text, i) == IF EscapedAt(text, i) THEN 2 ELSE 1

LEMMA RawOfIs == \A j \in DOMAIN Escapes : RawOf(Escapes[j][2]) = Escapes[j][1]
<1>1. SUFFICES ASSUME NEW j \in 1..11 PROVE RawOf(Escapes[j][2]) = Escapes[j][1]
  BY EscapesDiffer
<1> DEFINE k == CHOOSE k \in DOMAIN Escapes : Escapes[k][2] = Escapes[j][2]
<1>2. k \in DOMAIN Escapes /\ Escapes[k][2] = Escapes[j][2]
  BY EscapesDiffer
<1>3. RawOf(Escapes[j][2]) = Escapes[k][1]
  BY DEF RawOf
<1> HIDE DEF k
<1>4. k = j
  BY <1>2, EscapesDiffer
<1>5. QED
  BY <1>3, <1>4

LEMMA UnescapePass ==
  ASSUME NEW P, Raws \subseteq P, NEW text \in Seq(P)
  PROVE  \E w, d :
           /\ unescape(text) = Rewritten(Len(text), w, d)
           /\ IsPass(P, Len(text), w, d)
           /\ \A i \in 1..Len(text) : w[i] = Unescaped(text, i) /\ d[i] = Taken(text, i)
<1> DEFINE n == Len(text)
           Escaped(i) == text[i] = Backslash /\ i < Len(text) /\ text[i + 1] \in Letters
           w == [i \in DOMAIN text |-> IF Escaped(i) THEN <<RawOf(text[i + 1])>> ELSE <<text[i]>>]
           d == [i \in DOMAIN text |-> IF Escaped(i) THEN 2 ELSE 1]
<1>1. n \in Nat /\ DOMAIN text = 1..n /\ \A i \in 1..n : text[i] \in P
  BY LenProperties, ElementOfSeq
<1>2. ASSUME NEW letter \in Letters PROVE RawOf(letter) \in P
  BY RawOfIs DEF Letters, Raws
<1>3. \A i \in 1..n : w[i] = Unescaped(text, i) /\ d[i] = Taken(text, i)
  BY <1>1 DEF Unescaped, Taken, EscapedAt
<1>4. unescape(text) = Rewritten(n, w, d)
  BY DEF unescape
<1> HIDE DEF w, d
<1>5. ASSUME NEW i \in 1..n
      PROVE  w[i] \in Seq(P) /\ d[i] \in Nat \ {0} /\ i + d[i] <= n + 1
  <2>1. CASE EscapedAt(text, i)
    <3>1. RawOf(text[i + 1]) \in P /\ i < n
      BY <1>2, <2>1 DEF EscapedAt
    <3>2. w[i] = <<RawOf(text[i + 1])>> /\ d[i] = 2
      BY <1>3, <2>1 DEF Unescaped, Taken
    <3>3. <<RawOf(text[i + 1])>> \in Seq(P)
      BY <3>1, WordsType
    <3>4. i + 2 <= n + 1
      BY <1>1, <3>1
    <3>5. QED
      BY <3>2, <3>3, <3>4
  <2>2. CASE ~EscapedAt(text, i)
    <3>1. w[i] = <<text[i]>> /\ d[i] = 1
      BY <1>3, <2>2 DEF Unescaped, Taken
    <3>2. <<text[i]>> \in Seq(P) /\ i + 1 <= n + 1
      BY <1>1, WordsType
    <3>3. QED
      BY <3>1, <3>2
  <2>3. QED
    BY <2>1, <2>2
<1>6. IsPass(P, n, w, d)
  BY <1>1, <1>5 DEF IsPass
<1>7. QED
  BY <1>3, <1>4, <1>6

LEMMA UnescapeType ==
  ASSUME NEW P, Raws \subseteq P, NEW text \in Seq(P)
  PROVE  unescape(text) \in Seq(P)
BY UnescapePass, PassType

Pass(P, text, n, w, d) ==
  /\ unescape(text) = Rewritten(n, w, d) /\ IsPass(P, n, w, d)
  /\ \A i \in 1..n : w[i] = Unescaped(text, i) /\ d[i] = Taken(text, i)

LEMMA UnescapePasses ==
  ASSUME NEW P, Raws \subseteq P, NEW text \in Seq(P), NEW n, n = Len(text)
  PROVE  \E w, d : Pass(P, text, n, w, d)
BY UnescapePass DEF Pass

\* It takes one character, or an escape, and goes on with the text behind it.
LEMMA UnescapeStep ==
  ASSUME NEW P, Raws \subseteq P, NEW text \in Seq(P), NEW t \in Seq(P), NEW s \in Nat \ {0},
         Len(text) = s + Len(t), \A i \in 1..Len(t) : text[s + i] = t[i], Taken(text, 1) = s
  PROVE  unescape(text) = Unescaped(text, 1) \o unescape(t)
<1>0. PICK m, n : m = Len(t) /\ n = Len(text)
  OBVIOUS
<1>1. m \in Nat /\ n = s + m /\ \A i \in 1..m : text[s + i] = t[i]
  BY <1>0, LenProperties
<1>2. PICK w, d : Pass(P, text, n, w, d)
  BY <1>0, UnescapePasses
<1>3. PICK x, e : Pass(P, t, m, x, e)
  BY <1>0, UnescapePasses
<1>a. /\ unescape(text) = Rewritten(n, w, d) /\ IsPass(P, n, w, d)
      /\ \A i \in 1..n : w[i] = Unescaped(text, i) /\ d[i] = Taken(text, i)
  BY <1>2 DEF Pass
<1>b. /\ unescape(t) = Rewritten(m, x, e) /\ IsPass(P, m, x, e)
      /\ \A i \in 1..m : x[i] = Unescaped(t, i) /\ e[i] = Taken(t, i)
  BY <1>3 DEF Pass
<1>4. ASSUME NEW i \in 1..m PROVE w[s + i] = x[i] /\ d[s + i] = e[i]
  <2>1. PICK j : j = s + i
    OBVIOUS
  <2>2. j \in 1..n /\ (j < n <=> i < m) /\ text[j] = t[i]
    <3>1. s + i \in 1..n /\ (s + i < n <=> i < m)
      BY <1>1
    <3>2. QED
      BY <1>1, <2>1, <3>1
  <2>3. ASSUME i < m PROVE text[j + 1] = t[i + 1]
    <3>1. i + 1 \in 1..m /\ j + 1 = s + (i + 1)
      BY <1>1, <2>1, <2>3
    <3>2. QED
      BY <1>1, <3>1
  <2>4. /\ EscapedAt(text, j) <=> EscapedAt(t, i)
        /\ EscapedAt(t, i) => text[j + 1] = t[i + 1]
    BY <1>0, <2>2, <2>3 DEF EscapedAt
  <2>5. Unescaped(text, j) = Unescaped(t, i) /\ Taken(text, j) = Taken(t, i)
    BY <2>2, <2>4 DEF Unescaped, Taken
  <2>6. QED
    BY <1>a, <1>b, <2>1, <2>2, <2>5
<1>5. 1 \in 1..n /\ d[1] = s /\ w[1] = Unescaped(text, 1)
  BY <1>0, <1>1, <1>a
<1>6. Rewritten(n, w, d) = w[1] \o Rewritten(m, x, e)
  <2>1. Continues(n, w, d, s, m, x, e)
    BY <1>1, <1>4, <1>5 DEF Continues
  <2>2. IsPass(P, n, w, d) /\ IsPass(P, m, x, e)
    BY <1>a, <1>b
  <2>3. QED
    BY <2>1, <2>2, PassStep
<1>7. QED
  BY <1>a, <1>b, <1>5, <1>6

LEMMA UnescapeOne ==
  ASSUME NEW P, Raws \subseteq P, NEW c \in P, NEW t \in Seq(P)
  PROVE  /\ c # Backslash => unescape(<<c>> \o t) = <<c>> \o unescape(t)
         /\ \A j \in DOMAIN Escapes :
              Escapes[j][2] \in P =>
                unescape(<<Backslash, Escapes[j][2]>> \o t) = <<Escapes[j][1]>> \o unescape(t)
         /\ unescape(<<>>) = <<>>
<1>1. ASSUME c # Backslash PROVE unescape(<<c>> \o t) = <<c>> \o unescape(t)
  <2>1. PICK text : text = <<c>> \o t
    OBVIOUS
  <2>2. <<c>> \in Seq(P) /\ Len(<<c>>) = 1 /\ <<c>>[1] = c /\ <<c>> # <<>> /\ 1 \in 1..1
    BY WordsType
  <2>3. text[1] = c
    BY <2>1, <2>2, HeadOf
  <2>4. Taken(text, 1) = 1 /\ Unescaped(text, 1) = <<c>>
    BY <1>1, <2>3 DEF Taken, Unescaped, EscapedAt
  <2>5. /\ text \in Seq(P) /\ 1 \in Nat \ {0} /\ Len(text) = 1 + Len(t)
        /\ \A i \in 1..Len(t) : text[1 + i] = t[i]
    BY <2>1, <2>2, HeadOf
  <2>6. unescape(text) = Unescaped(text, 1) \o unescape(t)
    BY <2>4, <2>5, UnescapeStep
  <2>7. QED
    BY <2>1, <2>4, <2>6
<1>2. ASSUME NEW j \in DOMAIN Escapes, Escapes[j][2] \in P
      PROVE  unescape(<<Backslash, Escapes[j][2]>> \o t) = <<Escapes[j][1]>> \o unescape(t)
  <2>1. PICK l \in P : l = Escapes[j][2]
    BY <1>2
  <2>2. PICK h : h = <<Backslash, l>>
    OBVIOUS
  <2>3. PICK text : text = h \o t
    OBVIOUS
  <2>4. Backslash \in P
    BY EscapesDiffer DEF Raws
  <2>5. h \in Seq(P) /\ Len(h) = 2 /\ h[1] = Backslash /\ h[2] = l /\ h # <<>>
    BY <2>1, <2>2, <2>4, WordsType
  <2>6. /\ text \in Seq(P) /\ Len(text) = Len(h) + Len(t) /\ Len(t) \in Nat
        /\ \A i \in 1..Len(h) : text[i] = h[i]
        /\ \A i \in 1..Len(t) : text[Len(h) + i] = t[i]
    <3>1. h \in Seq(P)
      BY <2>5
    <3>2. QED
      BY <2>3, <3>1, HeadOf
  <2>7. text[1] = Backslash /\ text[2] = l /\ Len(text) = 2 + Len(t) /\ Len(t) \in Nat
    <3>1. \A i \in 1..Len(h) : text[i] = h[i]
      BY <2>6
    <3>2. QED
      BY <2>5, <2>6, <3>1
  <2>8. l \in Letters /\ RawOf(l) = Escapes[j][1]
    BY <2>1, RawOfIs DEF Letters
  <2>9. EscapedAt(text, 1)
    <3>1. 1 < Len(text) /\ 1 + 1 = 2
      BY <2>7
    <3>2. QED
      BY <2>7, <2>8, <3>1 DEF EscapedAt
  <2>10. Taken(text, 1) = 2 /\ Unescaped(text, 1) = <<RawOf(l)>>
    <3>1. 1 + 1 = 2
      OBVIOUS
    <3>2. QED
      BY <2>7, <2>9, <3>1 DEF Taken, Unescaped
  <2>11. unescape(text) = Unescaped(text, 1) \o unescape(t)
    <3>1. /\ text \in Seq(P) /\ 2 \in Nat \ {0} /\ Len(text) = 2 + Len(t)
          /\ \A i \in 1..Len(t) : text[2 + i] = t[i]
      BY <2>5, <2>6
    <3>2. QED
      BY <2>10, <3>1, UnescapeStep
  <2>12. QED
    BY <2>1, <2>2, <2>3, <2>8, <2>10, <2>11
<1>3. unescape(<<>>) = <<>>
  <2>1. <<>> \in Seq(P) /\ Len(<<>>) = 0
    BY EmptySeq
  <2>2. PICK w, d : unescape(<<>>) = Rewritten(0, w, d) /\ IsPass(P, 0, w, d)
    BY <2>1, UnescapePass
  <2>3. QED
    BY <2>2, PassEmpty
<1>4. QED
  BY <1>1, <1>2, <1>3

-----------------------------------------------------------------------------
(* The two together.                                                       *)

\* A character after the first k replacements, and the texts from each place on.
LetterOf(c) == Escapes[CHOOSE j \in DOMAIN Escapes : Escapes[j][1] = c][2]
Spelling(k, c) ==
  IF \E j \in 1..k : Escapes[j][1] = c THEN <<Backslash, LetterOf(c)>> ELSE <<c>>

Spelled(P, k, v, g) ==
  /\ g \in [1..(Len(v) + 1) -> Seq(P)] /\ g[Len(v) + 1] = <<>>
  /\ \A i \in 1..Len(v) : g[i] = Spelling(k, v[i]) \o g[i + 1]

Wired(P) == Raws \subseteq P /\ Letters \subseteq P

LEMMA WiredHas ==
  ASSUME NEW P, Wired(P), NEW j \in 1..11
  PROVE  /\ Backslash \in P /\ Escapes[j][1] \in P /\ Escapes[j][2] \in P
         /\ LetterOf(Escapes[j][1]) = Escapes[j][2]
<1>1. Escapes[j][1] \in P /\ Escapes[j][2] \in P /\ Escapes[1][1] \in P
  BY EscapesDiffer DEF Wired, Raws, Letters
<1> DEFINE k == CHOOSE k \in DOMAIN Escapes : Escapes[k][1] = Escapes[j][1]
<1>2. k \in DOMAIN Escapes /\ Escapes[k][1] = Escapes[j][1]
  BY EscapesDiffer
<1>3. LetterOf(Escapes[j][1]) = Escapes[k][2]
  BY DEF LetterOf
<1> HIDE DEF k
<1>4. k = j
  BY <1>2, EscapesDiffer
<1>5. QED
  BY <1>1, <1>3, <1>4, EscapesDiffer

\* One more replacement makes of each spelling the next one: the backslashes and letters
\* the earlier ones wrote are left alone.
LEMMA SpellingStep ==
  ASSUME NEW P, Wired(P), NEW k \in 1..11, NEW c \in P, NEW t \in Seq(P)
  PROVE  Replaced(Spelling(k - 1, c) \o t, Escapes[k])
           = Spelling(k, c) \o Replaced(t, Escapes[k])
<1>0. PICK pair : pair = Escapes[k]
  OBVIOUS
<1>1. Backslash \in P /\ pair[2] \in P
  BY <1>0, WiredHas
<1>2. PICK u : u = Replaced(t, pair)
  OBVIOUS
<1>3. u \in Seq(P)
  BY <1>1, <1>2, ReplacedStep
<1>4. CASE \E j \in 1..(k - 1) : Escapes[j][1] = c
  <2>1. PICK j \in 1..(k - 1) : Escapes[j][1] = c
    BY <1>4
  <2>2. j \in 1..11 /\ j \in 1..k /\ j # k /\ k # 1 /\ 1 \in 1..11
    BY <2>1
  <2>3. PICK l \in P : l = Escapes[j][2]
    BY <2>2, WiredHas
  <2>4. LetterOf(c) = l
    BY <2>1, <2>2, <2>3, WiredHas
  <2>5. Spelling(k - 1, c) = <<Backslash, l>> /\ Spelling(k, c) = <<Backslash, l>>
    BY <2>1, <2>2, <2>4 DEF Spelling
  <2>6. Backslash # pair[1] /\ l # pair[1]
    BY <1>0, <2>2, <2>3, EscapesDiffer
  <2>7. Replacement(Backslash, pair) = <<Backslash>> /\ Replacement(l, pair) = <<l>>
    BY <2>6 DEF Replacement
  <2>8. Backslash \in P /\ pair[2] \in P /\ t \in Seq(P) /\ l \in P
    BY <1>1
  <2>9. Replaced(<<l>> \o t, pair) = <<l>> \o u
    <3>1. PICK h : h = <<l>>
      OBVIOUS
    <3>2. Replaced(h \o t, pair) = Replacement(l, pair) \o Replaced(t, pair)
      BY <2>8, <3>1, ReplacedStep
    <3>3. QED
      BY <1>2, <2>7, <3>1, <3>2, Zenon
  <2>10. <<l>> \o t \in Seq(P)
    BY WordsType, ConcatProperties
  <2>11. Replaced(<<Backslash>> \o (<<l>> \o t), pair) = <<Backslash>> \o (<<l>> \o u)
    <3>1. PICK h, tail : h = <<Backslash>> /\ tail = <<l>> \o t
      OBVIOUS
    <3>2. tail \in Seq(P)
      BY <2>10, <3>1
    <3>3. PICK b \in P : b = Backslash
      BY <2>8
    <3>4. h = <<b>>
      BY <3>1, <3>3
    <3>5. Replaced(h \o tail, pair) = Replacement(b, pair) \o Replaced(tail, pair)
      BY <2>8, <3>2, <3>4, ReplacedStep
    <3>6. QED
      BY <2>7, <2>9, <3>1, <3>3, <3>5, Zenon
  <2>12. /\ <<Backslash>> \o (<<l>> \o t) = <<Backslash, l>> \o t
         /\ <<Backslash>> \o (<<l>> \o u) = <<Backslash, l>> \o u
    BY <1>1, <1>3, PairText
  <2>13. QED
    BY <1>0, <1>2, <2>5, <2>11, <2>12
<1>5. CASE ~\E j \in 1..(k - 1) : Escapes[j][1] = c
  <2>1. Spelling(k - 1, c) = <<c>>
    BY <1>5 DEF Spelling
  <2>2. Spelling(k, c) = Replacement(c, pair)
    <3>1. CASE c = pair[1]
      <4>1. k \in 1..k /\ LetterOf(c) = pair[2]
        BY <1>0, <3>1, WiredHas
      <4>2. QED
        BY <1>0, <3>1, <4>1 DEF Spelling, Replacement
    <3>2. CASE c # pair[1]
      <4>1. ~\E j \in 1..k : Escapes[j][1] = c
        <5>1. \A j \in 1..k : j = k \/ j \in 1..(k - 1)
          OBVIOUS
        <5>2. QED
          BY <1>0, <1>5, <3>2, <5>1
      <4>2. QED
        BY <3>2, <4>1 DEF Spelling, Replacement
    <3>3. QED
      BY <3>1, <3>2
  <2>3. Replaced(<<c>> \o t, pair) = Replacement(c, pair) \o u
    <3>1. PICK h : h = <<c>>
      OBVIOUS
    <3>2. Replaced(h \o t, pair) = Replacement(c, pair) \o Replaced(t, pair)
      BY <1>1, <3>1, ReplacedStep
    <3>3. QED
      BY <1>2, <3>1, <3>2, Zenon
  <2>4. QED
    BY <1>0, <1>2, <2>1, <2>2, <2>3
<1>6. QED
  BY <1>4, <1>5

LEMMA SpelledStep ==
  ASSUME NEW P, Wired(P), NEW v \in Seq(P), NEW k \in 1..11, NEW g, Spelled(P, k - 1, v, g)
  PROVE  \E h : Spelled(P, k, v, h) /\ h[1] = Replaced(g[1], Escapes[k])
<1> DEFINE n == Len(v)
           h == [i \in 1..(n + 1) |-> Replaced(g[i], Escapes[k])]
<1>1. n \in Nat /\ \A i \in 1..n : v[i] \in P
  BY LenProperties, ElementOfSeq
<1>2. /\ g \in [1..(n + 1) -> Seq(P)] /\ g[n + 1] = <<>>
      /\ \A i \in 1..n : g[i] = Spelling(k - 1, v[i]) \o g[i + 1]
  BY DEF Spelled
<1>3. PICK pair : pair = Escapes[k] /\ Backslash \in P /\ pair[2] \in P
  BY WiredHas
<1>4. \A t \in Seq(P) : Replaced(t, pair) \in Seq(P) /\ Replaced(<<>>, pair) = <<>>
  BY <1>3, ReplacedStep
<1>5. \A i \in 1..(n + 1) : h[i] = Replaced(g[i], pair)
  BY <1>3
<1>6. h \in [1..(n + 1) -> Seq(P)]
  BY <1>2, <1>3, <1>4
<1> HIDE DEF h
<1>7. h[n + 1] = <<>>
  BY <1>1, <1>2, <1>4, <1>5, EmptySeq
<1>8. ASSUME NEW i \in 1..n PROVE h[i] = Spelling(k, v[i]) \o h[i + 1]
  <2>1. i \in 1..(n + 1) /\ i + 1 \in 1..(n + 1) /\ v[i] \in P
    BY <1>1
  <2>2. g[i + 1] \in Seq(P) /\ g[i] = Spelling(k - 1, v[i]) \o g[i + 1]
    BY <1>2, <2>1
  <2>3. Replaced(Spelling(k - 1, v[i]) \o g[i + 1], Escapes[k])
          = Spelling(k, v[i]) \o Replaced(g[i + 1], Escapes[k])
    BY <2>1, <2>2, SpellingStep
  <2>4. QED
    BY <1>3, <1>5, <2>1, <2>2, <2>3
<1>9. Spelled(P, k, v, h)
  BY <1>6, <1>7, <1>8 DEF Spelled
<1>10. QED
  BY <1>1, <1>3, <1>5, <1>9

LEMMA SpelledFirst ==
  ASSUME NEW P, NEW v \in Seq(P)
  PROVE  \E g : Spelled(P, 0, v, g) /\ g[1] = v
<1> DEFINE n == Len(v)
           g == [i \in 1..(n + 1) |-> SubSeq(v, i, n)]
<1>1. n \in Nat /\ \A i \in 1..n : v[i] \in P
  BY LenProperties, ElementOfSeq
<1>2. ASSUME NEW i \in 1..(n + 1)
      PROVE  /\ g[i] \in Seq(P) /\ Len(g[i]) = n + 1 - i
             /\ \A q \in 1..(n + 1 - i) : g[i][q] = v[i + q - 1]
  <2>1. PICK s : s = SubSeq(v, i, n)
    OBVIOUS
  <2>2. i \in Int /\ n \in Int /\ \A j \in i..n : v[j] \in P
    BY <1>1
  <2>3. /\ s \in Seq(P) /\ Len(s) = (IF i <= n THEN n - i + 1 ELSE 0)
        /\ \A q \in 1..(n - i + 1) : s[q] = v[i + q - 1]
    BY <2>1, <2>2, SubSeqProperties
  <2>4. Len(s) = n + 1 - i /\ n - i + 1 = n + 1 - i
    BY <1>1, <2>3
  <2>5. g[i] = s
    BY <2>1
  <2>6. QED
    BY <2>3, <2>4, <2>5
<1>3. g \in [1..(n + 1) -> Seq(P)]
  BY <1>2
<1> HIDE DEF g
<1>4. g[n + 1] = <<>>
  <2>1. n + 1 \in 1..(n + 1) /\ n + 1 - (n + 1) = 0
    BY <1>1
  <2>2. g[n + 1] \in Seq(P) /\ Len(g[n + 1]) = 0
    BY <1>2, <2>1
  <2>3. QED
    BY <2>2, EmptySeq
<1>5. ASSUME NEW i \in 1..n PROVE g[i] = Spelling(0, v[i]) \o g[i + 1]
  <2>1. Spelling(0, v[i]) = <<v[i]>>
    BY DEF Spelling
  <2>2. i \in 1..(n + 1) /\ i + 1 \in 1..(n + 1) /\ v[i] \in P
    BY <1>1
  <2>3. PICK h, t : h = <<v[i]>> /\ t = g[i + 1]
    OBVIOUS
  <2>4. h \in Seq(P) /\ Len(h) = 1 /\ h[1] = v[i]
    BY <2>2, <2>3, WordsType
  <2>5. /\ t \in Seq(P) /\ Len(t) = n - i
        /\ \A q \in 1..(n - i) : t[q] = v[i + q]
    <3>1. n + 1 - (i + 1) = n - i
      BY <1>1
    <3>2. \A q \in 1..(n - i) : (i + 1) + q - 1 = i + q
      BY <1>1
    <3>3. /\ t \in Seq(P) /\ Len(t) = n + 1 - (i + 1)
          /\ \A q \in 1..(n + 1 - (i + 1)) : t[q] = v[(i + 1) + q - 1]
      BY <1>2, <2>2, <2>3
    <3>4. QED
      BY <3>1, <3>2, <3>3
  <2>6. /\ g[i] \in Seq(P) /\ Len(g[i]) = n + 1 - i
        /\ \A q \in 1..(n + 1 - i) : g[i][q] = v[i + q - 1]
    BY <1>2, <2>2
  <2>7. /\ h \o t \in Seq(P) /\ Len(h \o t) = 1 + (n - i)
        /\ \A q \in 1..(1 + (n - i)) : (h \o t)[q] = IF q <= 1 THEN h[q] ELSE t[q - 1]
    <3>1. /\ h \o t \in Seq(P) /\ Len(h \o t) = Len(h) + Len(t)
          /\ \A q \in 1..Len(h) + Len(t) : (h \o t)[q] = IF q <= Len(h) THEN h[q] ELSE t[q - Len(h)]
      <4>1. h \in Seq(P) /\ t \in Seq(P)
        BY <2>4, <2>5
      <4>2. QED
        BY <4>1, ConcatProperties
    <3>2. QED
      BY <2>4, <2>5, <3>1
  <2>8. ASSUME NEW q \in 1..(n + 1 - i) PROVE g[i][q] = (h \o t)[q]
    <3>1. q \in 1..(1 + (n - i)) /\ g[i][q] = v[i + q - 1]
      BY <1>1, <2>6
    <3>2. CASE q = 1
      BY <2>2, <2>4, <2>7, <3>1, <3>2
    <3>3. CASE q # 1
      <4>1. q - 1 \in 1..(n - i) /\ i + (q - 1) = i + q - 1 /\ ~(q <= 1)
        BY <1>1, <3>3
      <4>2. QED
        BY <2>5, <2>7, <3>1, <4>1
    <3>4. QED
      BY <3>2, <3>3
  <2>9. Len(g[i]) = Len(h \o t)
    BY <1>1, <2>6, <2>7
  <2>10. g[i] = h \o t
    BY <2>6, <2>7, <2>8, <2>9, SeqEqual
  <2>11. QED
    BY <2>1, <2>3, <2>10
<1>6. Spelled(P, 0, v, g)
  BY <1>3, <1>4, <1>5 DEF Spelled
<1>7. g[1] = v
  <2>1. 1 \in 1..(n + 1) /\ n + 1 - 1 = n /\ \A q \in 1..n : 1 + q - 1 = q
    BY <1>1
  <2>2. g[1] \in Seq(P) /\ Len(g[1]) = n /\ \A q \in 1..n : g[1][q] = v[q]
    BY <1>2, <2>1
  <2>3. QED
    BY <2>2, SeqEqual
<1>8. QED
  BY <1>6, <1>7

\* So the escaped text spells every character.
LEMMA EscapeSpells ==
  ASSUME NEW P, Wired(P), NEW v \in Seq(P)
  PROVE  \E g : Spelled(P, 11, v, g) /\ escape(v) = g[1]
<1> DEFINE n == Len(Escapes)
           Body(f) == [k \in 0..n |-> IF k = 0 THEN v ELSE Replaced(f[k - 1], Escapes[k])]
           after == CHOOSE f : f = Body(f)
           step == [x \in (1..11) \X Seq(P) |-> Replaced(x[2], Escapes[x[1]])]
<1>1. n = 11
  BY DEF Escapes
<1>2. \A k \in 1..11, t \in Seq(P) : Replaced(t, Escapes[k]) \in Seq(P)
  BY WiredHas, ReplacedStep
<1>3. step \in [(1..11) \X Seq(P) -> Seq(P)]
  BY <1>2
<1>4. \A k \in 1..11, t \in Seq(P) : step[<<k, t>>] = Replaced(t, Escapes[k])
  OBVIOUS
<1> HIDE DEF step
<1>5. PICK g : Stepping(Seq(P), v, step, 11, g)
  <2>1. 11 \in Nat
    OBVIOUS
  <2>2. QED
    BY <1>3, <2>1, StepsExist
<1>6. /\ g \in [0..11 -> Seq(P)] /\ g[0] = v
      /\ \A k \in 1..11 : g[k] = Replaced(g[k - 1], Escapes[k])
  <2>1. /\ g \in [0..11 -> Seq(P)] /\ g[0] = v
        /\ \A k \in 1..11 : g[k] = step[<<k, g[k - 1]>>]
    BY <1>5 DEF Stepping
  <2>2. \A k \in 1..11 : k - 1 \in 0..11
    OBVIOUS
  <2>3. QED
    BY <1>4, <2>1, <2>2
<1>7. g = Body(g)
  <2> DEFINE h == Body(g)
  <2>1. \A k \in 0..11 : k = 0 \/ (k # 0 /\ k \in 1..11)
    OBVIOUS
  <2>2. \A k \in 0..11 : g[k] = h[k]
    BY <1>1, <1>6, <2>1
  <2>3. h = [k \in 0..11 |-> h[k]]
    BY <1>1
  <2> HIDE DEF h
  <2>4. g = h
    BY <1>6, <2>2, <2>3
  <2>5. QED
    BY <2>4 DEF h
<1>8. after = Body(after)
  BY <1>7
<1>9. escape(v) = after[n]
  BY DEF escape, AllReplaced
<1> HIDE DEF after
<1>10. after[0] = v
  <2>1. Body(after)[0] = v
    BY <1>1
  <2>2. QED
    BY <1>8, <2>1
<1>11. ASSUME NEW k \in 1..11 PROVE after[k] = Replaced(after[k - 1], Escapes[k])
  <2>1. k \in 0..n /\ k # 0
    BY <1>1
  <2>2. Body(after)[k] = Replaced(after[k - 1], Escapes[k])
    BY <2>1
  <2>3. QED
    BY <1>8, <2>2
<1> DEFINE S == {k \in 0..11 : ~\E h : Spelled(P, k, v, h) /\ after[k] = h[1]}
<1>12. ASSUME S # {} PROVE FALSE
  <2>1. PICK m \in S : \A i \in S : m <= i
    <3>1. S \subseteq Nat
      OBVIOUS
    <3> HIDE DEF S
    <3>2. QED
      BY <1>12, <3>1, LeastOf
  <2>2. m \in 0..11 /\ ~\E h : Spelled(P, m, v, h) /\ after[m] = h[1]
    OBVIOUS
  <2>3. m # 0
    BY <1>10, <2>2, SpelledFirst
  <2>4. m \in 1..11 /\ m - 1 \in 0..11 /\ ~(m <= m - 1)
    BY <2>2, <2>3
  <2>5. m - 1 \notin S
    <3> HIDE DEF S
    <3>1. QED
      BY <2>1, <2>4
  <2>6. PICK h : Spelled(P, m - 1, v, h) /\ after[m - 1] = h[1]
    BY <2>4, <2>5
  <2>7. \E u : Spelled(P, m, v, u) /\ u[1] = Replaced(h[1], Escapes[m])
    BY <2>4, <2>6, SpelledStep
  <2>8. QED
    BY <1>11, <2>2, <2>4, <2>6, <2>7
<1>13. 11 \in 0..11 /\ 11 \notin S
  BY <1>12
<1>14. QED
  BY <1>1, <1>9, <1>13

\* unescape undoes escape.
THEOREM RoundTrip ==
  ASSUME NEW P, NEW v \in Seq(P)
  PROVE  unescape(escape(v)) = v
<1> DEFINE Q == P \cup (Raws \cup Letters)
           n == Len(v)
<1>1. Wired(Q) /\ v \in Seq(Q) /\ Raws \subseteq Q /\ n \in Nat
  <2>1. Raws \subseteq Q /\ Letters \subseteq Q /\ P \subseteq Q
    OBVIOUS
  <2> HIDE DEF Q
  <2>2. v \in Seq(Q)
    BY <2>1, SeqMonotonic
  <2>3. QED
    BY <2>1, <2>2, LenProperties DEF Wired
<1> HIDE DEF Q
<1>2. PICK g : Spelled(Q, 11, v, g) /\ escape(v) = g[1]
  BY <1>1, EscapeSpells
<1>3. PICK t : Spelled(Q, 0, v, t) /\ t[1] = v
  BY <1>1, SpelledFirst
<1>4. /\ g \in [1..(n + 1) -> Seq(Q)] /\ g[n + 1] = <<>>
      /\ \A i \in 1..n : g[i] = Spelling(11, v[i]) \o g[i + 1]
  BY <1>2 DEF Spelled
<1>5. t[n + 1] = <<>> /\ \A i \in 1..n : t[i] = <<v[i]>> \o t[i + 1]
  <2>1. \A c : Spelling(0, c) = <<c>>
    BY DEF Spelling
  <2>2. QED
    BY <1>3, <2>1 DEF Spelled
<1>6. ASSUME NEW i \in 1..n PROVE unescape(g[i]) = <<v[i]>> \o unescape(g[i + 1])
  <2>1. PICK c \in Q : c = v[i]
    BY <1>1, ElementOfSeq
  <2>2. PICK tail \in Seq(Q) : tail = g[i + 1]
    BY <1>1, <1>4
  <2>3. g[i] = Spelling(11, c) \o tail
    BY <1>4, <2>1, <2>2
  <2>4. CASE \E j \in 1..11 : Escapes[j][1] = c
    <3>1. PICK j \in 1..11 : Escapes[j][1] = c
      BY <2>4
    <3>2. Spelling(11, c) = <<Backslash, Escapes[j][2]>>
      BY <1>1, <3>1, WiredHas DEF Spelling
    <3>3. j \in DOMAIN Escapes /\ Escapes[j][2] \in Q
      BY <1>1, WiredHas, EscapesDiffer
    <3>4. unescape(<<Backslash, Escapes[j][2]>> \o tail) = <<Escapes[j][1]>> \o unescape(tail)
      BY <1>1, <3>3, UnescapeOne
    <3>5. QED
      BY <2>1, <2>2, <2>3, <3>1, <3>2, <3>4
  <2>5. CASE ~\E j \in 1..11 : Escapes[j][1] = c
    <3>1. Spelling(11, c) = <<c>> /\ c # Backslash
      BY <2>5, EscapesDiffer DEF Spelling
    <3>2. unescape(<<c>> \o tail) = <<c>> \o unescape(tail)
      BY <1>1, <3>1, UnescapeOne
    <3>3. QED
      BY <2>1, <2>2, <2>3, <3>1, <3>2
  <2>6. QED
    BY <2>4, <2>5
<1> DEFINE S == {i \in 1..(n + 1) : unescape(g[i]) # t[i]}
<1>7. ASSUME S # {} PROVE FALSE
  <2>1. PICK m \in S : \A i \in S : i <= m
    <3>1. S \subseteq 1..(n + 1) /\ n + 1 \in Nat
      BY <1>1
    <3> HIDE DEF S
    <3>2. QED
      BY <1>7, <3>1, GreatestOf
  <2>2. m \in 1..(n + 1) /\ unescape(g[m]) # t[m]
    OBVIOUS
  <2>3. m # n + 1
    <3>1. unescape(<<>>) = <<>>
      BY <1>1, WiredHas, EmptySeq, UnescapeOne
    <3>2. QED
      BY <1>4, <1>5, <2>2, <3>1
  <2>4. m \in 1..n /\ m + 1 \in 1..(n + 1) /\ ~(m + 1 <= m)
    BY <1>1, <2>2, <2>3
  <2>5. m + 1 \notin S
    <3> HIDE DEF S
    <3>1. QED
      BY <2>1, <2>4
  <2>6. unescape(g[m + 1]) = t[m + 1]
    BY <2>4, <2>5
  <2>7. QED
    BY <1>5, <1>6, <2>2, <2>4, <2>6
<1>8. 1 \in 1..(n + 1)
  BY <1>1
<1>9. unescape(g[1]) = t[1]
  BY <1>7, <1>8
<1>10. QED
  BY <1>2, <1>3, <1>9

\* What delimits records, their entries and lines.
Separators == Raws \ {Backslash, "/"}

\* An escaped text holds no separator: whatever the value was, it cannot end a line, a
\* record or an entry.
THEOREM EscapeDelimits ==
  ASSUME NEW P, NEW v \in Seq(P)
  PROVE  escape(v) \in Seq((P \cup Letters \cup {Backslash}) \ Separators)
<1> DEFINE Q == P \cup (Raws \cup Letters)
           C == (P \cup Letters \cup {Backslash}) \ Separators
           n == Len(v)
<1>1. Wired(Q) /\ v \in Seq(Q) /\ n \in Nat /\ \A i \in 1..n : v[i] \in P
  <2>1. Raws \subseteq Q /\ Letters \subseteq Q /\ P \subseteq Q
    OBVIOUS
  <2> HIDE DEF Q
  <2>2. v \in Seq(Q)
    BY <2>1, SeqMonotonic
  <2>3. QED
    BY <2>1, <2>2, LenProperties, ElementOfSeq DEF Wired
<1>2. PICK g : Spelled(Q, 11, v, g) /\ escape(v) = g[1]
  <2> HIDE DEF Q
  <2>1. QED
    BY <1>1, EscapeSpells
<1>3. g[n + 1] = <<>> /\ \A i \in 1..n : g[i] = Spelling(11, v[i]) \o g[i + 1]
  BY <1>2 DEF Spelled
<1>4. Backslash \in C /\ \A j \in 1..11 : Escapes[j][2] \in C
  <2>1. Escapes[1][1] = Backslash /\ Escapes[1][2] = Backslash /\ Escapes[2][2] = "/"
    BY DEF Escapes
  <2>2. ASSUME NEW j \in 1..11 PROVE Escapes[j][2] \notin Separators
    <3>1. SUFFICES ASSUME Escapes[j][2] \in Raws PROVE Escapes[j][2] \in {Backslash, "/"}
      BY DEF Separators
    <3>2. PICK k \in 1..11 : Escapes[k][1] = Escapes[j][2]
      BY <3>1, EscapesDiffer DEF Raws
    <3>3. k = j
      BY <3>2, EscapesDiffer
    <3>4. j = 1 \/ j = 2
      BY <3>2, <3>3, EscapesDiffer
    <3>5. QED
      BY <2>1, <3>4
  <2>3. \A j \in 1..11 : Escapes[j][2] \in Letters
    BY EscapesDiffer DEF Letters
  <2>4. QED
    BY <2>2, <2>3 DEF Separators
<1>5. ASSUME NEW i \in 1..n PROVE Spelling(11, v[i]) \in Seq(C)
  <2>1. PICK c \in P : c = v[i]
    BY <1>1
  <2>2. CASE \E j \in 1..11 : Escapes[j][1] = c
    <3>1. PICK j \in 1..11 : Escapes[j][1] = c
      BY <2>2
    <3> HIDE DEF Q, C
    <3>2. Spelling(11, c) = <<Backslash, Escapes[j][2]>>
      BY <1>1, <3>1, WiredHas DEF Spelling
    <3>3. QED
      BY <1>4, <2>1, <3>2, WordsType
  <2>3. CASE ~\E j \in 1..11 : Escapes[j][1] = c
    <3>1. Spelling(11, c) = <<c>>
      BY <2>3 DEF Spelling
    <3>2. c \in C
      BY <2>3, EscapesDiffer DEF Separators, Raws
    <3> HIDE DEF Q, C
    <3>3. QED
      BY <2>1, <3>1, <3>2, WordsType
  <2>4. QED
    BY <2>2, <2>3
<1> HIDE DEF C
<1> DEFINE S == {i \in 1..(n + 1) : g[i] \notin Seq(C)}
<1>6. ASSUME S # {} PROVE FALSE
  <2>1. PICK m \in S : \A i \in S : i <= m
    <3>1. S \subseteq 1..(n + 1) /\ n + 1 \in Nat
      BY <1>1
    <3> HIDE DEF S
    <3>2. QED
      BY <1>6, <3>1, GreatestOf
  <2>2. m \in 1..(n + 1) /\ g[m] \notin Seq(C)
    OBVIOUS
  <2>3. m # n + 1
    BY <1>3, <2>2, EmptySeq
  <2>4. m \in 1..n /\ m + 1 \in 1..(n + 1) /\ ~(m + 1 <= m)
    BY <1>1, <2>2, <2>3
  <2>5. m + 1 \notin S
    <3> HIDE DEF S
    <3>1. QED
      BY <2>1, <2>4
  <2>6. g[m + 1] \in Seq(C)
    BY <2>4, <2>5
  <2>7. QED
    BY <1>3, <1>5, <2>2, <2>4, <2>6, ConcatProperties
<1>7. g[1] \in Seq(C)
  BY <1>1, <1>6
<1>8. QED
  BY <1>2, <1>7 DEF C

-----------------------------------------------------------------------------
(* What decode_record returns.                                             *)

LEMMA PartType ==
  ASSUME NEW P, NEW text \in Seq(P), NEW i \in Int, NEW j \in Int, i >= 1, j <= Len(text)
  PROVE  SubSeq(text, i, j) \in Seq(P)
<1>1. \A k \in i..j : text[k] \in P
  BY LenProperties, ElementOfSeq
<1>2. QED
  BY <1>1, SubSeqProperties

LEMMA StripType ==
  ASSUME NEW P, NEW text \in Seq(P)
  PROVE  Strip(text) \in Seq(P)
<1> DEFINE solid == {i \in DOMAIN text : text[i] \notin Whitespace}
<1>1. Len(text) \in Nat /\ solid \subseteq 1..Len(text) /\ solid \subseteq Nat
  BY LenProperties
<1>2. Strip(text) = IF solid = {} THEN <<>> ELSE SubSeq(text, Min(solid), Max(solid))
  BY DEF Strip
<1> HIDE DEF solid
<1>3. CASE solid = {}
  BY <1>2, <1>3, EmptySeq
<1>4. CASE solid # {}
  <2>1. Min(solid) \in 1..Len(text) /\ Max(solid) \in 1..Len(text)
    BY <1>1, <1>4, MinOf, MaxOf
  <2>2. QED
    BY <1>1, <1>2, <1>4, <2>1, PartType
<1>5. QED
  BY <1>3, <1>4

\* split copies, from each place on, the piece up to the next separator.
Pieces(text, c, length, w, d) ==
  \A i \in 1..length : \E e \in i..length :
    /\ w[i] = <<SubSeq(text, i, e - 1)>> /\ d[i] = e + 1 - i
    /\ e = length \/ text[e] = c
    /\ \A j \in i..(e - 1) : text[j] # c

LEMMA SplitPass ==
  ASSUME NEW P, NEW text \in Seq(P), NEW c, NEW length, length = Len(text) + 1
  PROVE  \E w, d : /\ Split(text, c) = Rewritten(length, w, d)
                  /\ IsPass(Seq(P), length, w, d) /\ Pieces(text, c, length, w, d)
<1> DEFINE After(i) == {j \in Positions(text, c) \cup {length} : j >= i}
           End(i) == Min(After(i))
           w == [i \in 1..length |-> <<SubSeq(text, i, End(i) - 1)>>]
           d == [i \in 1..length |-> End(i) + 1 - i]
<1>1. Len(text) \in Nat /\ DOMAIN text = 1..Len(text) /\ length \in Nat
  BY LenProperties
<1>2. ASSUME NEW i \in 1..length
      PROVE  /\ End(i) \in i..length /\ (End(i) = length \/ text[End(i)] = c)
             /\ \A j \in i..(End(i) - 1) : text[j] # c
  <2>1. After(i) \subseteq i..length /\ After(i) \subseteq Nat /\ length \in After(i)
    BY <1>1 DEF Positions
  <2>2. \A j \in After(i) : j = length \/ text[j] = c
    BY DEF Positions
  <2>3. ASSUME NEW j \in i..length, j # length, text[j] = c PROVE j \in After(i)
    BY <1>1, <2>3 DEF Positions
  <2> HIDE DEF After
  <2>4. Min(After(i)) \in After(i) /\ \A j \in After(i) : Min(After(i)) <= j
    BY <2>1, MinOf
  <2>5. End(i) \in i..length
    BY <2>1, <2>4
  <2>6. ASSUME NEW j \in i..(End(i) - 1), text[j] = c PROVE FALSE
    <3>1. j \in i..length /\ j # length /\ ~(End(i) <= j)
      BY <1>1, <2>5, <2>6
    <3>2. QED
      BY <2>3, <2>4, <2>6, <3>1
  <2>7. QED
    BY <2>2, <2>4, <2>5, <2>6
<1>3. Split(text, c) = Rewritten(length, w, d)
  BY DEF Split
<1> HIDE DEF End
<1>4. \A i \in 1..length : w[i] = <<SubSeq(text, i, End(i) - 1)>> /\ d[i] = End(i) + 1 - i
  OBVIOUS
<1> HIDE DEF w, d
<1>5. ASSUME NEW i \in 1..length
      PROVE  w[i] \in Seq(Seq(P)) /\ d[i] \in Nat \ {0} /\ i + d[i] <= length + 1
  <2>1. PICK e \in i..length : e = End(i)
    BY <1>2
  <2>2. SubSeq(text, i, e - 1) \in Seq(P)
    <3>1. i \in Int /\ e - 1 \in Int /\ i >= 1 /\ e - 1 <= Len(text)
      BY <1>1
    <3>2. QED
      BY <3>1, PartType
  <2>3. <<SubSeq(text, i, e - 1)>> \in Seq(Seq(P))
    BY <2>2, WordsType
  <2>4. e + 1 - i \in Nat \ {0} /\ i + (e + 1 - i) <= length + 1
    BY <1>1
  <2>5. QED
    BY <1>4, <2>1, <2>3, <2>4
<1>6. IsPass(Seq(P), length, w, d)
  BY <1>1, <1>5 DEF IsPass
<1>7. Pieces(text, c, length, w, d)
  BY <1>2, <1>4 DEF Pieces
<1>8. QED
  BY <1>3, <1>6, <1>7

LEMMA SplitType ==
  ASSUME NEW P, NEW text \in Seq(P), NEW c
  PROVE  Split(text, c) \in Seq(Seq(P))
<1>1. PICK length \in Nat : length = Len(text) + 1
  BY LenProperties
<1>2. PICK w, d : Split(text, c) = Rewritten(length, w, d) /\ IsPass(Seq(P), length, w, d)
  BY <1>1, SplitPass
<1>3. QED
  BY <1>2, PassType

LEMMA ChunkType ==
  ASSUME NEW P, Raws \subseteq P, NEW chunk \in Seq(P)
  PROVE  /\ Key(chunk) \in Seq(P)
         /\ Positions(chunk, "=") # {} => Value(chunk) \in Seq(P)
<1> DEFINE at == Positions(chunk, "=")
<1>1. Len(chunk) \in Nat /\ at \subseteq 1..Len(chunk) /\ at \subseteq Nat
  BY LenProperties DEF Positions
<1>2. CASE at = {}
  BY <1>2 DEF Key
<1>3. CASE at # {}
  <2> HIDE DEF at
  <2>1. Min(at) \in 1..Len(chunk)
    BY <1>1, <1>3, MinOf
  <2>2. SubSeq(chunk, 1, Min(at) - 1) \in Seq(P) /\ SubSeq(chunk, Min(at) + 1, Len(chunk)) \in Seq(P)
    <3>1. /\ 1 \in Int /\ Min(at) - 1 \in Int /\ Min(at) + 1 \in Int /\ Len(chunk) \in Int
          /\ 1 >= 1 /\ Min(at) - 1 <= Len(chunk) /\ Min(at) + 1 >= 1 /\ Len(chunk) <= Len(chunk)
      BY <1>1, <2>1
    <3>2. QED
      BY <3>1, PartType
  <2>3. QED
    BY <1>3, <2>2, UnescapeType DEF Key, Value, at
<1>4. QED
  BY <1>2, <1>3

\* Records over texts of P.
Records(P) == UNION {[keys -> Seq(P) \cup {None}] : keys \in SUBSET Seq(P)}

LEMMA DecodeType ==
  ASSUME NEW P, Raws \subseteq P, NEW payload \in Seq(P)
  PROVE  decode_record(payload, None) \in Records(P)
<1> DEFINE chunks == Split(Strip(payload), " ")
           filled == {k \in DOMAIN chunks : chunks[k] # <<>>}
           Of(key) == {k \in filled : Key(chunks[k]) = key}
           keys == {Key(chunks[k]) : k \in filled}
           At(key) == IF Positions(chunks[Max(Of(key))], "=") = {} THEN None
                      ELSE Value(chunks[Max(Of(key))])
<1>1. chunks \in Seq(Seq(P))
  BY StripType, SplitType
<1>2. decode_record(payload, None) = [key \in keys |-> At(key)]
  BY DEF decode_record
<1> HIDE DEF chunks
<1>3. Len(chunks) \in Nat /\ DOMAIN chunks = 1..Len(chunks) /\ \A k \in DOMAIN chunks : chunks[k] \in Seq(P)
  BY <1>1, LenProperties, ElementOfSeq
<1>4. keys \subseteq Seq(P)
  BY <1>3, ChunkType
<1>5. ASSUME NEW key \in keys PROVE At(key) \in Seq(P) \cup {None}
  <2>1. Of(key) \subseteq 1..Len(chunks) /\ Of(key) # {}
    BY <1>3
  <2> HIDE DEF Of
  <2>2. Max(Of(key)) \in 1..Len(chunks)
    BY <1>3, <2>1, MaxOf
  <2>3. chunks[Max(Of(key))] \in Seq(P)
    BY <1>3, <2>2
  <2>4. QED
    BY <2>3, ChunkType
<1> HIDE DEF keys, At
<1>6. [key \in keys |-> At(key)] \in [keys -> Seq(P) \cup {None}]
  BY <1>5
<1>7. QED
  BY <1>2, <1>4, <1>6 DEF Records

LEMMA RecordsType ==
  ASSUME NEW P, Raws \subseteq P, NEW line \in Seq(P)
  PROVE  RecordsOf(line) \in Seq(Records(P))
<1> DEFINE parts == Split(line, "|")
<1>1. parts \in Seq(Seq(P))
  BY SplitType
<1>2. RecordsOf(line) = [k \in DOMAIN parts |-> decode_record(parts[k], None)]
  BY DEF RecordsOf
<1> HIDE DEF parts
<1>3. Len(parts) \in Nat /\ DOMAIN parts = 1..Len(parts) /\ \A k \in 1..Len(parts) : parts[k] \in Seq(P)
  BY <1>1, LenProperties, ElementOfSeq
<1>4. RecordsOf(line) \in [1..Len(parts) -> Records(P)]
  BY <1>2, <1>3, DecodeType
<1>5. QED
  BY <1>3, <1>4, SeqDef

-----------------------------------------------------------------------------
(* Types.                                                                  *)

\* What streams, names and passwords are made of.
Said == {Sent(a) : a \in Answers} \cup RawAnswers \cup {Otherwise, Template}
Spoken == UNION {ToSet(text) : text \in Said}
Chars == {"LF", "CR", "error", " ", "i", "d", "=", "0"} \cup (Raws \cup Spoken)

LEMMA CharsHave ==
  /\ "LF" \in Chars /\ "CR" \in Chars /\ "error" \in Chars /\ " " \in Chars
  /\ "i" \in Chars /\ "d" \in Chars /\ "=" \in Chars /\ "0" \in Chars
  /\ Raws \subseteq Chars /\ Spoken \subseteq Chars
BY Zenon DEF Chars

LEMMA TextType ==
  ASSUME NEW text \in Said
  PROVE  text \in Seq(Chars)
<1>1. text \in Seq(ToSet(text))
  BY TextAssumption DEF Said
<1>2. ToSet(text) \subseteq Spoken
  BY Zenon DEF Spoken
<1>3. ToSet(text) \subseteq Chars
  BY <1>2, CharsHave
<1>4. QED
  BY <1>1, <1>3, SeqMonotonic

ReaderType ==
  /\ stream \in Seq(Chars) /\ delivered \in 0..Len(stream)
  /\ buffer \in Seq(Chars)
  /\ lines \in Seq(Seq(Chars))
  /\ records \in Seq(Records(Chars))

LEMMA InitType == Init => ReaderType
<1> SUFFICES ASSUME Init PROVE ReaderType
  OBVIOUS
<1>1. stream \in Seq(Chars)
  <2>1. CASE \E a \in Answers : stream = Sent(a)
    BY <2>1, TextType DEF Said
  <2>2. CASE \E raw \in RawAnswers : stream = raw \o LINE_TERMINATOR \o Trailer
    <3>1. PICK raw \in RawAnswers : stream = (raw \o LINE_TERMINATOR) \o Trailer
      BY <2>2
    <3>2. LINE_TERMINATOR \in Seq(Chars)
      BY CharsHave, WordsType DEF LINE_TERMINATOR
    <3>3. Trailer \in Seq(Chars)
      BY CharsHave, WordsType DEF Trailer
    <3>4. raw \o LINE_TERMINATOR \in Seq(Chars)
      BY <3>2, TextType, ConcatProperties DEF Said
    <3>5. QED
      BY <3>1, <3>3, <3>4, ConcatProperties
  <2>3. QED
    BY <2>1, <2>2 DEF Init
<1>2. delivered \in 0..Len(stream)
  BY <1>1, LenProperties DEF Init
<1>3. <<>> \in Seq(Chars) /\ <<>> \in Seq(Seq(Chars)) /\ <<>> \in Seq(Records(Chars))
  BY EmptySeq
<1>4. QED
  BY <1>1, <1>2, <1>3 DEF Init, ReaderType

\* Where terminators begin.
LEMMA EndsAre ==
  ASSUME NEW text \in Seq(Chars)
  PROVE  Ends(text) = {i \in 1..(Len(text) - 1) : text[i] = "LF" /\ text[i + 1] = "CR"}
<1>1. Len(text) \in Nat
  BY LenProperties
<1>2. ASSUME NEW i \in 1..(Len(text) - 1)
      PROVE  SubSeq(text, i, i + 1) = LINE_TERMINATOR <=> text[i] = "LF" /\ text[i + 1] = "CR"
  <2>1. \A k \in i..(i + 1) : text[k] \in Chars
    BY <1>1, ElementOfSeq
  <2>2. /\ SubSeq(text, i, i + 1) \in Seq(Chars)
        /\ Len(SubSeq(text, i, i + 1)) = (IF i <= i + 1 THEN (i + 1) - i + 1 ELSE 0)
        /\ \A k \in 1..((i + 1) - i + 1) : SubSeq(text, i, i + 1)[k] = text[i + k - 1]
    <3>1. i \in Int /\ i + 1 \in Int
      OBVIOUS
    <3>2. QED
      BY <2>1, <3>1, SubSeqProperties
  <2> DEFINE part == SubSeq(text, i, i + 1)
  <2>3. Len(part) = 2 /\ part[1] = text[i] /\ part[2] = text[i + 1] /\ part \in Seq(Chars)
    <3>1. 1 \in 1..((i + 1) - i + 1) /\ 2 \in 1..((i + 1) - i + 1)
          /\ i + 1 - 1 = i /\ i + 2 - 1 = i + 1 /\ (i + 1) - i + 1 = 2 /\ i <= i + 1
      OBVIOUS
    <3>2. QED
      BY <2>2, <3>1
  <2> HIDE DEF part
  <2>4. ASSUME text[i] = "LF", text[i + 1] = "CR" PROVE part = LINE_TERMINATOR
    <3>1. /\ LINE_TERMINATOR \in Seq(Chars) /\ Len(LINE_TERMINATOR) = 2
          /\ LINE_TERMINATOR[1] = "LF" /\ LINE_TERMINATOR[2] = "CR"
      <4>1. LINE_TERMINATOR \in Seq(Chars)
        BY CharsHave, WordsType DEF LINE_TERMINATOR
      <4>2. QED
        BY <4>1 DEF LINE_TERMINATOR
    <3>2. \A k \in 1..Len(part) : part[k] = LINE_TERMINATOR[k]
      <4>1. \A k \in 1..Len(part) : k = 1 \/ k = 2
        BY <2>3
      <4>2. QED
        BY <2>3, <2>4, <3>1, <4>1
    <3>3. QED
      BY <2>3, <3>1, <3>2, SeqEqual
  <2>5. ASSUME part = LINE_TERMINATOR PROVE text[i] = "LF" /\ text[i + 1] = "CR"
    BY <2>3, <2>5 DEF LINE_TERMINATOR
  <2>6. QED
    BY <2>4, <2>5 DEF part
<1>3. QED
  BY <1>2 DEF Ends

\* The line that leaves the buffer, and the rest.
LEMMA LineType ==
  ASSUME buffer \in Seq(Chars), Ends(buffer) # {}
  PROVE  LET e == Min(Ends(buffer)) IN
         /\ e \in Ends(buffer) /\ \A i \in Ends(buffer) : e <= i
         /\ e \in 1..(Len(buffer) - 1) /\ Len(buffer) \in Nat
         /\ Line \in Seq(Chars) /\ Len(Line) = e - 1
         /\ \A q \in 1..(e - 1) : Line[q] = buffer[q]
         /\ Rest \in Seq(Chars) /\ Len(Rest) = Len(buffer) - (e + 1)
         /\ \A q \in 1..(Len(buffer) - (e + 1)) : Rest[q] = buffer[e + 1 + q]
<1> DEFINE e == Min(Ends(buffer))
<1>1. Len(buffer) \in Nat
  BY LenProperties
<1>2. Ends(buffer) \subseteq 1..(Len(buffer) - 1) /\ Ends(buffer) \subseteq Nat
  BY <1>1 DEF Ends
<1>3. e \in Ends(buffer) /\ \A i \in Ends(buffer) : e <= i
  BY <1>2, MinOf
<1>4. e \in 1..(Len(buffer) - 1)
  BY <1>2, <1>3
<1>5. Line = SubSeq(buffer, 1, e - 1) /\ Rest = SubSeq(buffer, e + 2, Len(buffer))
  BY DEF Line, Rest
<1> HIDE DEF e
<1>6. 1 \in Int /\ e - 1 \in Int /\ e + 2 \in Int /\ Len(buffer) \in Int
  BY <1>1, <1>4
<1>7. (\A i \in 1..(e - 1) : buffer[i] \in Chars) /\ \A i \in (e + 2)..Len(buffer) : buffer[i] \in Chars
  BY <1>1, <1>4, ElementOfSeq
<1>8. /\ Line \in Seq(Chars)
      /\ Len(Line) = (IF 1 <= e - 1 THEN (e - 1) - 1 + 1 ELSE 0)
      /\ \A q \in 1..((e - 1) - 1 + 1) : Line[q] = buffer[1 + q - 1]
  BY <1>5, <1>6, <1>7, SubSeqProperties
<1>9. /\ Rest \in Seq(Chars)
      /\ Len(Rest) = (IF e + 2 <= Len(buffer) THEN Len(buffer) - (e + 2) + 1 ELSE 0)
      /\ \A q \in 1..(Len(buffer) - (e + 2) + 1) : Rest[q] = buffer[(e + 2) + q - 1]
  BY <1>5, <1>6, <1>7, SubSeqProperties
<1>10. Len(Line) = e - 1 /\ Len(Rest) = Len(buffer) - (e + 1)
  BY <1>1, <1>4, <1>8, <1>9
<1>11. \A q \in 1..(e - 1) : Line[q] = buffer[q]
  <2>1. (e - 1) - 1 + 1 = e - 1 /\ \A q \in 1..(e - 1) : 1 + q - 1 = q
    BY <1>4
  <2>2. QED
    BY <1>8, <2>1
<1>12. \A q \in 1..(Len(buffer) - (e + 1)) : Rest[q] = buffer[e + 1 + q]
  <2>1. Len(buffer) - (e + 2) + 1 = Len(buffer) - (e + 1)
        /\ \A q \in 1..(Len(buffer) - (e + 1)) : (e + 2) + q - 1 = e + 1 + q
    BY <1>1, <1>4
  <2>2. QED
    BY <1>9, <2>1
<1>13. QED
  BY <1>1, <1>3, <1>4, <1>8, <1>9, <1>10, <1>11, <1>12 DEF e

\* The chunk that arrives.
LEMMA ChunkIs ==
  ASSUME stream \in Seq(Chars), delivered \in 0..Len(stream), buffer \in Seq(Chars),
         NEW n \in Nat \ {0}, delivered + n <= Len(stream)
  PROVE  LET more == buffer \o SubSeq(stream, delivered + 1, delivered + n) IN
         /\ more \in Seq(Chars) /\ Len(more) = Len(buffer) + n /\ Len(buffer) \in Nat
         /\ \A q \in 1..Len(buffer) : more[q] = buffer[q]
         /\ \A q \in 1..n : more[Len(buffer) + q] = stream[delivered + q]
<1> DEFINE chunk == SubSeq(stream, delivered + 1, delivered + n)
<1>1. Len(stream) \in Nat /\ Len(buffer) \in Nat /\ delivered \in Nat
  BY LenProperties
<1>2. \A i \in (delivered + 1)..(delivered + n) : stream[i] \in Chars
  BY <1>1, ElementOfSeq
<1>3. delivered + 1 \in Int /\ delivered + n \in Int
  BY <1>1
<1>4. /\ chunk \in Seq(Chars)
      /\ Len(chunk) = (IF delivered + 1 <= delivered + n THEN delivered + n - (delivered + 1) + 1 ELSE 0)
      /\ \A q \in 1..(delivered + n - (delivered + 1) + 1) : chunk[q] = stream[(delivered + 1) + q - 1]
  BY <1>2, <1>3, SubSeqProperties
<1> HIDE DEF chunk
<1>5. chunk \in Seq(Chars) /\ Len(chunk) = n /\ \A q \in 1..n : chunk[q] = stream[delivered + q]
  <2>1. delivered + n - (delivered + 1) + 1 = n /\ delivered + 1 <= delivered + n
        /\ \A q \in 1..n : (delivered + 1) + q - 1 = delivered + q
    BY <1>1
  <2>2. QED
    BY <1>4, <2>1
<1> DEFINE more == buffer \o chunk
<1>6. /\ more \in Seq(Chars) /\ Len(more) = Len(buffer) + n
      /\ \A q \in 1..(Len(buffer) + n) : more[q] = IF q <= Len(buffer) THEN buffer[q] ELSE chunk[q - Len(buffer)]
  <2>1. /\ more \in Seq(Chars) /\ Len(more) = Len(buffer) + Len(chunk)
        /\ \A q \in 1..(Len(buffer) + Len(chunk)) :
              more[q] = IF q <= Len(buffer) THEN buffer[q] ELSE chunk[q - Len(buffer)]
    BY <1>5, ConcatProperties
  <2> HIDE DEF more
  <2>2. QED
    BY <1>5, <2>1
<1> HIDE DEF more
<1>7. \A q \in 1..Len(buffer) : more[q] = buffer[q]
  BY <1>1, <1>6
<1>8. ASSUME NEW q \in 1..n PROVE more[Len(buffer) + q] = stream[delivered + q]
  <2>1. PICK place : place = Len(buffer) + q
    OBVIOUS
  <2>2. place \in 1..(Len(buffer) + n) /\ ~(place <= Len(buffer)) /\ place - Len(buffer) = q
    BY <1>1, <2>1
  <2>3. more[place] = chunk[place - Len(buffer)]
    BY <1>6, <2>2
  <2>4. more[place] = stream[delivered + q]
    BY <1>5, <2>2, <2>3
  <2>5. QED
    BY <2>1, <2>4
<1>9. QED
  BY <1>1, <1>6, <1>7, <1>8 DEF more, chunk

LEMMA NextType ==
  ASSUME ReaderType, [Next]_vars
  PROVE  ReaderType'
<1> USE DEF ReaderType
<1>1. CASE RefuseLine
  BY <1>1 DEF RefuseLine
<1>2. CASE Recv
  <2>1. PICK n \in 1..ChunkSize :
          /\ delivered + n <= Len(stream) /\ delivered' = delivered + n
          /\ \/ buffer' = buffer
             \/ buffer' = buffer \o SubSeq(stream, delivered + 1, delivered')
    BY <1>2 DEF Recv
  <2>2. n \in Nat \ {0}
    BY LimitsAssumption
  <2>3. delivered' \in 0..Len(stream)
    BY <2>1, <2>2, LenProperties
  <2>4. buffer \o SubSeq(stream, delivered + 1, delivered + n) \in Seq(Chars)
    BY <2>1, <2>2, ChunkIs
  <2>5. buffer' \in Seq(Chars)
    BY <2>1, <2>4
  <2>6. QED
    BY <1>2, <2>3, <2>5 DEF Recv
<1>3. CASE Closed
  BY <1>3 DEF Closed
<1>4. CASE ReadLine
  <2>1. Line \in Seq(Chars) /\ Rest \in Seq(Chars)
    BY <1>4, LineType DEF ReadLine
  <2>2. lines' \in Seq(Seq(Chars))
    BY <1>4, <2>1, AppendProperties DEF ReadLine
  <2>3. Raws \subseteq Chars
    BY CharsHave
  <2>4. records \o RecordsOf(Line) \in Seq(Records(Chars))
    BY <2>1, <2>3, RecordsType, ConcatProperties
  <2>5. records' \in Seq(Records(Chars))
    BY <1>4, <2>4 DEF ReadLine
  <2>6. QED
    BY <1>4, <2>1, <2>2, <2>5 DEF ReadLine
<1>5. CASE Publish
  BY <1>5 DEF Publish
<1>6. CASE UNCHANGED vars
  BY <1>6 DEF vars
<1>7. QED
  BY <1>1, <1>2, <1>3, <1>4, <1>5, <1>6 DEF Next, Done

-----------------------------------------------------------------------------
(* The lines.                                                              *)

\* Where the k-th line ends; the first one begins as if one had ended before it.
EndOf(end, k) == IF k = 0 THEN -1 ELSE end[k]

\* The ends of the lines read are the first terminators of the stream ...
Whole(end) ==
  /\ end \in [DOMAIN lines -> Ends(stream)]
  /\ \A k \in DOMAIN lines :
       /\ EndOf(end, k - 1) < end[k]
       /\ \A i \in Ends(stream) : i > EndOf(end, k - 1) => i >= end[k]
       /\ lines[k] = SubSeq(stream, EndOf(end, k - 1) + 2, end[k] - 1)

\* ... and the buffer is what was received behind the last of them.
Placed(end) ==
  LET taken == EndOf(end, Len(lines)) + 1
  IN /\ taken + Len(buffer) = delivered
     /\ \A q \in 1..Len(buffer) : buffer[q] = stream[taken + q]

\* The buffer begins at a place.
LEMMA TakenType ==
  ASSUME ReaderType, NEW end, Whole(end)
  PROVE  EndOf(end, Len(lines)) + 1 \in Nat
<1>1. Len(lines) \in Nat /\ DOMAIN lines = 1..Len(lines) /\ Len(stream) \in Nat
  BY LenProperties DEF ReaderType
<1>2. CASE Len(lines) = 0
  BY <1>2 DEF EndOf
<1>3. CASE Len(lines) # 0
  <2>1. Len(lines) \in DOMAIN lines
    BY <1>1, <1>3
  <2>2. end[Len(lines)] \in Ends(stream)
    BY <2>1 DEF Whole
  <2>3. Ends(stream) \subseteq 1..(Len(stream) - 1)
    BY DEF Ends
  <2>4. QED
    BY <1>1, <1>3, <2>2, <2>3 DEF EndOf
<1>4. QED
  BY <1>2, <1>3

FrameInv ==
  /\ ReaderType
  /\ \E end : Whole(end) /\ (status = "reading" => Placed(end))

LEMMA InitFrame == Init => FrameInv
<1> SUFFICES ASSUME Init PROVE FrameInv
  OBVIOUS
<1>1. ReaderType
  BY InitType
<1> DEFINE end == [k \in {} |-> 0]
<1>2. DOMAIN lines = {} /\ Len(lines) = 0 /\ Len(buffer) = 0 /\ delivered = 0
  BY DEF Init
<1>3. Whole(end)
  BY <1>2 DEF Whole
<1>4. Placed(end)
  <2>1. EndOf(end, Len(lines)) + 1 = 0 /\ 1..Len(buffer) = {}
    BY <1>2 DEF EndOf
  <2>2. QED
    BY <1>2, <2>1 DEF Placed
<1>5. QED
  BY <1>1, <1>3, <1>4 DEF FrameInv

\* One more line.
LEMMA ReadFrame ==
  ASSUME FrameInv, ReadLine
  PROVE  \E end : Whole(end)' /\ Placed(end)'
<1>1. PICK old : Whole(old) /\ Placed(old)
  BY DEF FrameInv, ReadLine
<1> DEFINE n == Len(lines)
           last == EndOf(old, n)
           taken == last + 1
           e == Min(Ends(buffer))
           end == [k \in 1..(n + 1) |-> IF k = n + 1 THEN taken + e ELSE old[k]]
<1>2. /\ stream \in Seq(Chars) /\ buffer \in Seq(Chars) /\ lines \in Seq(Seq(Chars))
      /\ delivered \in 0..Len(stream) /\ Ends(buffer) # {}
  BY DEF FrameInv, ReaderType, ReadLine
<1>3. /\ n \in Nat /\ DOMAIN lines = 1..n /\ Len(stream) \in Nat /\ Len(buffer) \in Nat
  BY <1>2, LenProperties
<1>4. /\ e \in Ends(buffer) /\ \A i \in Ends(buffer) : e <= i
      /\ e \in 1..(Len(buffer) - 1)
      /\ Line \in Seq(Chars) /\ Len(Line) = e - 1
      /\ \A q \in 1..(e - 1) : Line[q] = buffer[q]
      /\ Rest \in Seq(Chars) /\ Len(Rest) = Len(buffer) - (e + 1)
      /\ \A q \in 1..(Len(buffer) - (e + 1)) : Rest[q] = buffer[e + 1 + q]
  BY <1>2, LineType
<1>5. /\ old \in [1..n -> Ends(stream)]
      /\ \A k \in 1..n :
           /\ EndOf(old, k - 1) < old[k]
           /\ \A i \in Ends(stream) : i > EndOf(old, k - 1) => i >= old[k]
           /\ lines[k] = SubSeq(stream, EndOf(old, k - 1) + 2, old[k] - 1)
  BY <1>1, <1>3 DEF Whole
<1>6. taken + Len(buffer) = delivered /\ \A q \in 1..Len(buffer) : buffer[q] = stream[taken + q]
  BY <1>1 DEF Placed
<1>7. /\ Ends(stream) = {i \in 1..(Len(stream) - 1) : stream[i] = "LF" /\ stream[i + 1] = "CR"}
      /\ Ends(buffer) = {i \in 1..(Len(buffer) - 1) : buffer[i] = "LF" /\ buffer[i + 1] = "CR"}
  BY <1>2, EndsAre
<1>8. /\ n = 0 => taken = 0
      /\ n # 0 => last \in Ends(stream) /\ stream[taken] = "CR"
      /\ last \in Int /\ last >= -1 /\ taken \in Nat
  <2>1. CASE n = 0
    BY <2>1 DEF EndOf
  <2>2. CASE n # 0
    <3>1. last = old[n] /\ n \in 1..n
      BY <1>3, <2>2 DEF EndOf
    <3>2. last \in Ends(stream)
      BY <1>5, <3>1
    <3> HIDE DEF last
    <3>3. QED
      BY <1>3, <1>7, <2>2, <3>2
  <2>3. QED
    BY <2>1, <2>2
<1> HIDE DEF n, last, e
\* The terminator in the buffer is the next one of the stream.
<1>9. taken + e \in Ends(stream) /\ last < taken + e
  <2>1. buffer[e] = "LF" /\ buffer[e + 1] = "CR"
    BY <1>4, <1>7
  <2>2. stream[taken + e] = "LF" /\ stream[taken + (e + 1)] = "CR"
    BY <1>3, <1>4, <1>6, <2>1
  <2>3. taken + e \in 1..(Len(stream) - 1) /\ taken + (e + 1) = (taken + e) + 1 /\ last < taken + e
    BY <1>2, <1>3, <1>4, <1>6, <1>8
  <2>4. QED
    BY <1>7, <2>2, <2>3
<1>10. ASSUME NEW i \in Ends(stream), i > last PROVE i >= taken + e
  <2>1. i \in 1..(Len(stream) - 1) /\ stream[i] = "LF" /\ stream[i + 1] = "CR"
    BY <1>7
  <2>2. i # taken
    <3>1. CASE n = 0
      BY <1>8, <2>1, <3>1
    <3>2. CASE n # 0
      BY <1>8, <2>1, <3>2
    <3>3. QED
      BY <3>1, <3>2
  <2>3. i - taken \in Nat \ {0}
    BY <1>8, <1>10, <2>1, <2>2
  <2>4. ASSUME i < taken + e PROVE FALSE
    <3> DEFINE q == i - taken
    <3>1. /\ q \in 1..(Len(buffer) - 1) /\ q \in 1..Len(buffer) /\ q + 1 \in 1..Len(buffer)
          /\ taken + q = i /\ taken + (q + 1) = i + 1 /\ q < e
      BY <1>3, <1>4, <1>8, <2>1, <2>3, <2>4
    <3> HIDE DEF q
    <3>2. buffer[q] = "LF" /\ buffer[q + 1] = "CR"
      BY <1>6, <2>1, <3>1
    <3>3. q \in Ends(buffer)
      BY <1>7, <3>1, <3>2
    <3>4. e <= q
      BY <1>4, <3>3
    <3>5. QED
      BY <1>4, <3>1, <3>4
  <2>5. QED
    BY <1>4, <1>8, <2>1, <2>4
<1>11. Line = SubSeq(stream, last + 2, (taken + e) - 1)
  <2> DEFINE part == SubSeq(stream, last + 2, (taken + e) - 1)
  <2>1. last + 2 \in Int /\ (taken + e) - 1 \in Int
    BY <1>4, <1>8
  <2>2. \A k \in (last + 2)..((taken + e) - 1) : stream[k] \in Chars
    <3>1. (last + 2)..((taken + e) - 1) \subseteq 1..Len(stream)
      BY <1>2, <1>3, <1>4, <1>6, <1>8
    <3>2. QED
      BY <1>2, <3>1, ElementOfSeq
  <2>3. /\ part \in Seq(Chars)
        /\ Len(part) = (IF last + 2 <= (taken + e) - 1 THEN (taken + e) - 1 - (last + 2) + 1 ELSE 0)
        /\ \A q \in 1..((taken + e) - 1 - (last + 2) + 1) : part[q] = stream[(last + 2) + q - 1]
    BY <2>1, <2>2, SubSeqProperties
  <2> HIDE DEF part
  <2>4. Len(part) = e - 1 /\ (taken + e) - 1 - (last + 2) + 1 = e - 1
    BY <1>4, <1>8, <2>3
  <2>5. ASSUME NEW q \in 1..(e - 1) PROVE Line[q] = part[q]
    <3>1. q \in 1..Len(buffer) /\ (last + 2) + q - 1 = taken + q
      BY <1>3, <1>4, <1>8
    <3>2. part[q] = stream[taken + q]
      BY <2>3, <2>4, <3>1
    <3>3. QED
      BY <1>4, <1>6, <3>1, <3>2
  <2>6. QED
    BY <1>4, <2>3, <2>4, <2>5, SeqEqual DEF part
<1>12. /\ stream' = stream /\ delivered' = delivered /\ buffer' = Rest
       /\ lines' = Append(lines, Line)
  BY DEF ReadLine
<1>13. /\ Len(lines') = n + 1 /\ DOMAIN lines' = 1..(n + 1) /\ lines'[n + 1] = Line
       /\ \A k \in 1..n : lines'[k] = lines[k]
  <2>1. /\ lines' \in Seq(Seq(Chars)) /\ Len(lines') = n + 1
        /\ \A k \in 1..n : lines'[k] = lines[k]
        /\ lines'[n + 1] = Line
    BY <1>2, <1>4, <1>12, AppendProperties DEF n
  <2>2. QED
    BY <2>1, LenProperties
<1>14. /\ end \in [1..(n + 1) -> Ends(stream)] /\ end[n + 1] = taken + e
       /\ \A k \in 1..n : end[k] = old[k]
       /\ \A k \in 0..n : EndOf(end, k) = EndOf(old, k)
  <2>1. end \in [1..(n + 1) -> Ends(stream)]
    BY <1>3, <1>5, <1>9
  <2>2. end[n + 1] = taken + e /\ \A k \in 1..n : end[k] = old[k]
    BY <1>3
  <2> HIDE DEF end
  <2>3. \A k \in 0..n : EndOf(end, k) = EndOf(old, k)
    BY <1>3, <2>2 DEF EndOf
  <2>4. QED
    BY <2>1, <2>2, <2>3
<1> HIDE DEF end
\* From here on a value, so that it is the same behind the step.
<1>14a. PICK new : new = end
  OBVIOUS
<1>14b. /\ new \in [1..(n + 1) -> Ends(stream)] /\ new[n + 1] = taken + e
        /\ \A k \in 1..n : new[k] = old[k]
        /\ \A k \in 0..n : EndOf(new, k) = EndOf(old, k)
  BY <1>14, <1>14a
<1>15. ASSUME NEW k \in 1..(n + 1)
       PROVE  /\ EndOf(new, k - 1) < new[k]
              /\ \A i \in Ends(stream) : i > EndOf(new, k - 1) => i >= new[k]
              /\ lines'[k] = SubSeq(stream, EndOf(new, k - 1) + 2, new[k] - 1)
  <2>1. k - 1 \in 0..n
    BY <1>3
  <2>2. EndOf(new, k - 1) = EndOf(old, k - 1)
    BY <1>14b, <2>1
  <2>3. CASE k = n + 1
    <3>1. EndOf(new, k - 1) = last
      <4>1. k - 1 = n
        BY <1>3, <2>3
      <4>2. QED
        BY <2>2, <4>1 DEF last
    <3>2. new[k] = taken + e /\ lines'[k] = Line
      BY <1>13, <1>14b, <2>3
    <3>3. QED
      BY <1>9, <1>10, <1>11, <3>1, <3>2
  <2>4. CASE k # n + 1
    <3>1. k \in 1..n
      BY <1>3, <2>4
    <3>2. new[k] = old[k] /\ lines'[k] = lines[k]
      BY <1>13, <1>14b, <3>1
    <3>3. QED
      BY <1>5, <2>2, <3>1, <3>2
  <2>5. QED
    BY <2>3, <2>4
<1>16. Whole(new)'
  <2>1. Ends(stream)' = Ends(stream)
    BY <1>12 DEF Ends
  <2>2. QED
    BY <1>12, <1>13, <1>14b, <1>15, <2>1 DEF Whole, EndOf
<1>17. Placed(new)'
  <2>1. EndOf(new, n + 1) + 1 = taken + e + 1
    BY <1>3, <1>14b DEF EndOf
  <2>2. (taken + e + 1) + Len(Rest) = delivered
    BY <1>3, <1>4, <1>6, <1>8
  <2>3. ASSUME NEW q \in 1..Len(Rest) PROVE Rest[q] = stream[(taken + e + 1) + q]
    <3>1. /\ q \in 1..(Len(buffer) - (e + 1)) /\ e + 1 + q \in 1..Len(buffer)
          /\ taken + (e + 1 + q) = (taken + e + 1) + q
      BY <1>3, <1>4, <1>8
    <3>2. Rest[q] = buffer[e + 1 + q]
      BY <1>4, <3>1
    <3>3. buffer[e + 1 + q] = stream[taken + (e + 1 + q)]
      BY <1>6, <3>1
    <3>4. QED
      BY <3>1, <3>2, <3>3
  <2>4. Len(lines') = n + 1 /\ Len(buffer') = Len(Rest)
    BY <1>12, <1>13
  <2>5. EndOf(new, Len(lines')) + 1 = taken + e + 1
    BY <2>1, <2>4
  <2>6. QED
    BY <1>12, <2>2, <2>3, <2>4, <2>5 DEF Placed, EndOf
<1>18. QED
  BY <1>16, <1>17

\* One more piece.
LEMMA RecvFrame ==
  ASSUME ReaderType, NEW end, Whole(end), Placed(end), Recv
  PROVE  status' = "reading" => Placed(end)'
<1> SUFFICES ASSUME status' = "reading" PROVE Placed(end)'
  OBVIOUS
<1>1. PICK n \in 1..ChunkSize :
        /\ delivered + n <= Len(stream) /\ delivered' = delivered + n
        /\ buffer' = buffer \o SubSeq(stream, delivered + 1, delivered')
  BY DEF Recv
<1>2. n \in Nat \ {0}
  BY LimitsAssumption
<1>3. stream \in Seq(Chars) /\ delivered \in 0..Len(stream) /\ buffer \in Seq(Chars)
  BY DEF ReaderType
<1>4. buffer' = buffer \o SubSeq(stream, delivered + 1, delivered + n)
  BY <1>1
<1>5. /\ Len(buffer') = Len(buffer) + n /\ Len(buffer) \in Nat
      /\ \A q \in 1..Len(buffer) : buffer'[q] = buffer[q]
      /\ \A q \in 1..n : buffer'[Len(buffer) + q] = stream[delivered + q]
  BY <1>1, <1>2, <1>3, <1>4, ChunkIs
<1> DEFINE taken == EndOf(end, Len(lines)) + 1
<1>6. taken + Len(buffer) = delivered /\ \A q \in 1..Len(buffer) : buffer[q] = stream[taken + q]
  BY DEF Placed
<1>7. stream' = stream /\ lines' = lines
  BY DEF Recv
<1>8. PICK from : from = taken
  OBVIOUS
<1>9. EndOf(end, Len(lines)) + 1 = from
  BY <1>8
<1> HIDE DEF taken
<1>10. from + Len(buffer) = delivered /\ \A q \in 1..Len(buffer) : buffer[q] = stream[from + q]
  BY <1>6, <1>8
<1>11. from \in Int
  BY <1>9, TakenType
<1>12. from + Len(buffer') = delivered'
  BY <1>1, <1>2, <1>5, <1>10, <1>11
<1>13. ASSUME NEW q \in 1..Len(buffer') PROVE buffer'[q] = stream[from + q]
  <2>1. CASE q <= Len(buffer)
    BY <1>5, <1>10, <2>1
  <2>2. CASE q > Len(buffer)
    <3>1. PICK m : m = q - Len(buffer)
      OBVIOUS
    <3>2. m \in 1..n /\ Len(buffer) + m = q /\ delivered + m = from + q
      BY <1>2, <1>5, <1>10, <1>11, <2>2, <3>1
    <3>3. buffer'[Len(buffer) + m] = stream[delivered + m]
      BY <1>5, <3>2
    <3>4. QED
      BY <3>2, <3>3
  <2>3. QED
    BY <1>5, <2>1, <2>2
<1>14. (EndOf(end, Len(lines)) + 1)' = from
  BY <1>7, <1>9 DEF EndOf
<1>15. QED
  BY <1>7, <1>12, <1>13, <1>14 DEF Placed, EndOf

LEMMA NextFrame ==
  ASSUME FrameInv, [Next]_vars
  PROVE  FrameInv'
<1>1. ReaderType /\ ReaderType'
  BY NextType DEF FrameInv
<1>2. PICK end : Whole(end) /\ (status = "reading" => Placed(end))
  BY DEF FrameInv
<1>3. ASSUME UNCHANGED <<stream, lines>> PROVE Whole(end)'
  <2>1. Ends(stream)' = Ends(stream)
    BY <1>3 DEF Ends
  <2>2. QED
    BY <1>2, <1>3, <2>1 DEF Whole, EndOf
<1>4. CASE RefuseLine
  BY <1>1, <1>2, <1>3, <1>4 DEF RefuseLine, FrameInv
<1>5. CASE Recv
  <2>1. status = "reading" /\ UNCHANGED <<stream, lines>>
    BY <1>5 DEF Recv, MustRead
  <2>2. status' = "reading" => Placed(end)'
    BY <1>1, <1>2, <1>5, <2>1, RecvFrame
  <2>3. QED
    BY <1>1, <1>3, <2>1, <2>2 DEF FrameInv
<1>6. CASE Closed
  BY <1>1, <1>2, <1>3, <1>6 DEF Closed, FrameInv
<1>7. CASE ReadLine
  BY <1>1, <1>7, ReadFrame DEF FrameInv
<1>8. CASE Publish
  BY <1>1, <1>2, <1>3, <1>8 DEF Publish, FrameInv
<1>9. CASE UNCHANGED vars
  <2>1. UNCHANGED <<stream, lines, buffer, delivered, status>>
    BY <1>9 DEF vars
  <2>2. Placed(end) => Placed(end)'
    BY <2>1 DEF Placed, EndOf
  <2>3. QED
    BY <1>1, <1>2, <1>3, <2>1, <2>2 DEF FrameInv
<1>10. QED
  BY <1>4, <1>5, <1>6, <1>7, <1>8, <1>9 DEF Next, Done

LEMMA FrameIsWhole == FrameInv => LinesWhole
<1> SUFFICES ASSUME FrameInv PROVE LinesWhole
  OBVIOUS
<1>1. PICK end : Whole(end)
  BY DEF FrameInv
<1>2. DOMAIN lines \subseteq Int
  <2>1. lines \in Seq(Seq(Chars))
    BY DEF FrameInv, ReaderType
  <2>2. QED
    BY <2>1, LenProperties
<1>3. ASSUME NEW k \in DOMAIN lines
      PROVE  (IF k = 1 THEN -1 ELSE end[k - 1]) = EndOf(end, k - 1)
  BY <1>2 DEF EndOf
<1>4. end \in [DOMAIN lines -> Ends(stream)]
  BY <1>1 DEF Whole
<1>5. \A k \in DOMAIN lines :
        LET last == IF k = 1 THEN -1 ELSE end[k - 1]
        IN /\ last < end[k] /\ \A i \in Ends(stream) : i > last => i >= end[k]
           /\ lines[k] = SubSeq(stream, last + 2, end[k] - 1)
  BY <1>1, <1>3 DEF Whole
<1>6. QED
  BY <1>4, <1>5 DEF LinesWhole

\* LinesWhole (_read_line, serverquery.py 197-221): however the stream is cut, the
\* lines read are the lines sent, in their order.
THEOREM Lines == Spec => []LinesWhole
<1>1. Init => FrameInv
  BY InitFrame
<1>2. FrameInv /\ [Next]_vars => FrameInv'
  BY NextFrame
<1>3. FrameInv => LinesWhole
  BY FrameIsWhole
<1>4. QED
  BY <1>1, <1>2, <1>3, PTL DEF Spec

-----------------------------------------------------------------------------
(* The limit on a line.                                                    *)

LEMMA InitLimit == Init => LineLimit
<1> SUFFICES ASSUME Init PROVE LineLimit
  OBVIOUS
<1>1. Len(buffer) = 0 /\ DOMAIN lines = {} /\ status # "too long"
  BY DEF Init
<1>2. 0 <= MAX_LINE_BYTES + ChunkSize
  BY LimitsAssumption
<1>3. QED
  BY <1>1, <1>2 DEF LineLimit

\* A line is refused when none of its terminators can begin where one may.
LEMMA RefusedLong ==
  ASSUME ReaderType, RefuseLine
  PROVE  \A i \in 1..MAX_LINE_BYTES :
           i \notin Ends(buffer \o SubSeq(stream, delivered + 1, Len(stream)))
<1> DEFINE coming == SubSeq(stream, delivered + 1, Len(stream))
           whole == buffer \o coming
<1>1. /\ stream \in Seq(Chars) /\ buffer \in Seq(Chars) /\ delivered \in 0..Len(stream)
      /\ Len(stream) \in Nat /\ Len(buffer) \in Nat
  BY LenProperties DEF ReaderType
<1>2. Ends(buffer) = {} /\ Len(buffer) > MAX_LINE_BYTES
  BY DEF RefuseLine, MustRead, TooLong
<1>3. coming \in Seq(Chars) /\ Len(coming) \in Nat
  <2>1. delivered + 1 \in Int /\ Len(stream) \in Int /\ delivered + 1 >= 1 /\ Len(stream) <= Len(stream)
    BY <1>1
  <2>2. coming \in Seq(Chars)
    BY <1>1, <2>1, PartType
  <2>3. QED
    BY <2>2, LenProperties
<1> HIDE DEF coming
<1>4. /\ whole \in Seq(Chars) /\ Len(whole) = Len(buffer) + Len(coming)
      /\ \A q \in 1..(Len(buffer) + Len(coming)) :
            whole[q] = IF q <= Len(buffer) THEN buffer[q] ELSE coming[q - Len(buffer)]
  BY <1>1, <1>3, ConcatProperties
<1> HIDE DEF whole
<1>5. ASSUME NEW i \in 1..MAX_LINE_BYTES, i \in Ends(whole) PROVE FALSE
  <2>1. whole[i] = "LF" /\ whole[i + 1] = "CR"
    BY <1>4, <1>5, EndsAre
  <2>2. /\ i \in 1..(Len(buffer) - 1) /\ i <= Len(buffer) /\ i + 1 <= Len(buffer)
        /\ i \in 1..(Len(buffer) + Len(coming)) /\ i + 1 \in 1..(Len(buffer) + Len(coming))
    BY <1>1, <1>2, <1>3, LimitsAssumption
  <2>3. buffer[i] = "LF" /\ buffer[i + 1] = "CR"
    BY <1>4, <2>1, <2>2
  <2>4. i \in Ends(buffer)
    BY <1>1, <2>2, <2>3, EndsAre
  <2>5. QED
    BY <1>2, <2>4
<1>6. QED
  BY <1>5 DEF whole, coming

LEMMA NextLimit ==
  ASSUME ReaderType, LineLimit, [Next]_vars
  PROVE  LineLimit'
<1>1. /\ Len(buffer) <= MAX_LINE_BYTES + ChunkSize
      /\ \A k \in DOMAIN lines : Len(lines[k]) <= MAX_LINE_BYTES + ChunkSize - 2
      /\ MAX_LINE_BYTES \in Nat /\ ChunkSize \in Nat /\ Len(buffer) \in Nat
  BY LimitsAssumption, LenProperties DEF LineLimit, ReaderType
<1>2. CASE RefuseLine
  <2>1. UNCHANGED <<stream, delivered, buffer, lines>>
    BY <1>2 DEF RefuseLine
  <2>2. \A i \in 1..MAX_LINE_BYTES :
          i \notin Ends(buffer \o SubSeq(stream, delivered + 1, Len(stream)))
    BY <1>2, RefusedLong
  <2>3. \A i \in 1..MAX_LINE_BYTES :
          i \notin Ends(buffer' \o SubSeq(stream', delivered' + 1, Len(stream')))
    BY <2>1, <2>2
  <2>4. QED
    BY <1>1, <2>1, <2>3 DEF LineLimit, Ends
<1>3. CASE Recv
  <2>1. PICK n \in 1..ChunkSize :
          /\ delivered + n <= Len(stream)
          /\ \/ buffer' = buffer
             \/ buffer' = buffer \o SubSeq(stream, delivered + 1, delivered + n)
    BY <1>3 DEF Recv
  <2>2. n \in Nat \ {0}
    BY <1>1
  <2>3. Len(buffer') = Len(buffer) \/ Len(buffer') = Len(buffer) + n
    BY <2>1, <2>2, ChunkIs DEF ReaderType
  <2>4. Len(buffer) <= MAX_LINE_BYTES
    <3>1. ~TooLong
      BY <1>3 DEF Recv
    <3>2. QED
      BY <1>1, <3>1 DEF TooLong
  <2>5. lines' = lines /\ status' # "too long"
    BY <1>3 DEF Recv, MustRead
  <2>6. Len(buffer') <= MAX_LINE_BYTES + ChunkSize
    BY <1>1, <2>3, <2>4
  <2>7. QED
    BY <1>1, <2>5, <2>6 DEF LineLimit
<1>4. CASE Closed
  BY <1>1, <1>4 DEF LineLimit, Closed
<1>5. CASE ReadLine
  <2> DEFINE e == Min(Ends(buffer))
  <2>1. /\ e \in 1..(Len(buffer) - 1) /\ Line \in Seq(Chars) /\ Len(Line) = e - 1
        /\ Len(Rest) = Len(buffer) - (e + 1)
    BY <1>5, LineType DEF ReadLine, ReaderType
  <2> HIDE DEF e
  <2>2. Len(Line) <= MAX_LINE_BYTES + ChunkSize - 2 /\ Len(Rest) <= MAX_LINE_BYTES + ChunkSize
    BY <1>1, <2>1
  <2>3. buffer' = Rest /\ lines' = Append(lines, Line) /\ status' # "too long"
    BY <1>5 DEF ReadLine
  <2>4. \A k \in DOMAIN lines' : Len(lines'[k]) <= MAX_LINE_BYTES + ChunkSize - 2
    <3>1. lines \in Seq(Seq(Chars)) /\ DOMAIN lines = 1..Len(lines) /\ Len(lines) \in Nat
      BY LenProperties DEF ReaderType
    <3>2. /\ lines' \in Seq(Seq(Chars)) /\ Len(lines') = Len(lines) + 1
          /\ \A k \in 1..Len(lines) : lines'[k] = lines[k]
          /\ lines'[Len(lines) + 1] = Line
      <4>1. Line \in Seq(Chars) /\ lines' = Append(lines, Line)
        BY <2>1, <2>3
      <4>2. QED
        BY <3>1, <4>1, AppendProperties
    <3>3. DOMAIN lines' = 1..(Len(lines) + 1)
      BY <3>2, LenProperties
    <3>4. ASSUME NEW k \in DOMAIN lines' PROVE Len(lines'[k]) <= MAX_LINE_BYTES + ChunkSize - 2
      <4>1. CASE k = Len(lines) + 1
        BY <2>2, <3>2, <4>1
      <4>2. CASE k # Len(lines) + 1
        <5>1. k \in 1..Len(lines)
          BY <3>1, <3>3, <4>2
        <5>2. QED
          BY <1>1, <3>1, <3>2, <5>1
      <4>3. QED
        BY <4>1, <4>2
    <3>5. QED
      BY <3>4
  <2>5. Len(buffer') <= MAX_LINE_BYTES + ChunkSize
    BY <2>2, <2>3
  <2>6. QED
    BY <2>3, <2>4, <2>5 DEF LineLimit
<1>6. CASE Publish
  BY <1>1, <1>6 DEF LineLimit, Publish
<1>7. CASE UNCHANGED vars
  BY <1>7 DEF LineLimit, vars, Ends
<1>8. QED
  BY <1>2, <1>3, <1>4, <1>5, <1>6, <1>7 DEF Next, Done

\* LineLimit (_read_line, serverquery.py 198-202): the buffer exceeds the limit by less
\* than a chunk, a line by two bytes less still, and no line within it is refused.
THEOREM Limits == Spec => []LineLimit
<1>1. Init => ReaderType /\ LineLimit
  BY InitType, InitLimit
<1>2. ReaderType /\ LineLimit /\ [Next]_vars => (ReaderType /\ LineLimit)'
  BY NextType, NextLimit
<1>3. QED
  BY <1>1, <1>2, PTL DEF Spec

-----------------------------------------------------------------------------
(* The label and the log line.                                             *)

Published ==
  status = "published" =>
    /\ secrets \in SecretSets
    /\ label = Label(name, secrets) /\ logged = LogLine(Template, name, secrets)

LEMMA NextPublished == Published /\ [Next]_vars => Published'
<1> SUFFICES ASSUME Published, [Next]_vars PROVE Published'
  OBVIOUS
<1>1. CASE Publish
  <2>1. name' = name
    BY <1>1 DEF Publish, name
  <2>2. /\ secrets' \in SecretSets
        /\ label' = Label(name, secrets') /\ logged' = LogLine(Template, name, secrets')
    BY <1>1 DEF Publish
  <2>3. QED
    BY <2>1, <2>2 DEF Published
<1>2. CASE RefuseLine
  BY <1>2 DEF RefuseLine, Published
<1>3. CASE Recv
  BY <1>3 DEF Recv, MustRead, Published
<1>4. CASE Closed
  BY <1>4 DEF Closed, Published
<1>5. CASE ReadLine
  BY <1>5 DEF ReadLine, Published
<1>6. CASE UNCHANGED vars
  <2>1. UNCHANGED <<records, status, secrets, label, logged>>
    BY <1>6 DEF vars, textVars
  <2>2. name' = name
    BY <2>1 DEF name
  <2>3. QED
    BY <2>1, <2>2 DEF Published
<1>7. QED
  BY <1>1, <1>2, <1>3, <1>4, <1>5, <1>6 DEF Next, Done

LEMMA NameType == ReaderType => name \in Seq(Chars)
<1> SUFFICES ASSUME ReaderType PROVE name \in Seq(Chars)
  OBVIOUS
<1>1. Otherwise \in Seq(Chars)
  BY TextType DEF Said
<1>2. ASSUME records # <<>>, NameKey \in DOMAIN records[1], records[1][NameKey] \notin {None, <<>>}
      PROVE  records[1][NameKey] \in Seq(Chars)
  <2>1. records[1] \in Records(Chars)
    <3>1. records \in Seq(Records(Chars))
      BY DEF ReaderType
    <3>2. QED
      BY <1>2, <3>1, EmptySeq, ElementOfSeq, LenProperties
  <2>2. PICK keys \in SUBSET Seq(Chars) : records[1] \in [keys -> Seq(Chars) \cup {None}]
    BY <2>1 DEF Records
  <2>3. QED
    BY <1>2, <2>2
<1>3. QED
  BY <1>1, <1>2 DEF name

\* What a name, the passwords given and the exporter's markers are made of, and that
\* together with what control characters are written as.
Held(S) == UNION {ToSet(s) : s \in S}
Base(S) == Chars \cup Held(S) \cup ToSet(REDACTED) \cup ToSet(Candidates)
Wide(S) == Base(S) \cup Printable(Base(S))

LEMMA BaseHas ==
  ASSUME NEW S
  PROVE  /\ Chars \subseteq Base(S) /\ \A s \in S : ToSet(s) \subseteq Base(S)
         /\ ToSet(REDACTED) \subseteq Base(S) /\ ToSet(Candidates) \subseteq Base(S)
         /\ Base(S) \subseteq Wide(S) /\ Printable(Base(S)) \subseteq Wide(S)
         /\ ToSet(REDACTED) \subseteq Printable(Base(S))
         /\ ToSet(Candidates) \subseteq Printable(Base(S))
         /\ \A c \in Printable(Base(S)) : c \notin DOMAIN Controls
<1>1. /\ Chars \subseteq Base(S) /\ \A s \in S : ToSet(s) \subseteq Base(S)
      /\ ToSet(REDACTED) \subseteq Base(S) /\ ToSet(Candidates) \subseteq Base(S)
  <2>1. \A s \in S : ToSet(s) \subseteq Held(S)
    BY Zenon DEF Held
  <2>2. /\ Chars \subseteq Base(S) /\ Held(S) \subseteq Base(S)
        /\ ToSet(REDACTED) \subseteq Base(S) /\ ToSet(Candidates) \subseteq Base(S)
    BY DEF Base
  <2>3. QED
    BY <2>1, <2>2
<1> DEFINE base == Base(S)
<1>2. base \subseteq Wide(S) /\ Printable(base) \subseteq Wide(S)
  BY DEF Wide
<1>3. ToSet(REDACTED) \subseteq base /\ ToSet(Candidates) \subseteq base
  BY <1>1
<1> HIDE DEF base
<1>4. ToSet(REDACTED) \subseteq Printable(base) /\ ToSet(Candidates) \subseteq Printable(base)
  BY <1>3, ControlsAssumption DEF Printable
<1>5. \A c \in Printable(base) : c \notin DOMAIN Controls
  BY DEF Printable
<1>6. QED
  BY <1>1, <1>2, <1>4, <1>5 DEF base

\* The forms of the passwords given are texts, none is empty, and a marker is free.
LEMMA FormsType ==
  ASSUME NEW S \in SecretSets
  PROVE  /\ Forms(S) \subseteq Seq(Wide(S)) \ {<<>>} /\ MarkerFree(Forms(S))
         /\ secrets_for_redaction(S) \subseteq Seq(Base(S)) \ {<<>>}
         /\ MarkerFree(secrets_for_redaction(S))
<1>1. S \subseteq Seq(Base(S))
  <2>1. ASSUME NEW s \in S PROVE s \in Seq(Base(S))
    <3>1. s \in Seq(ToSet(s))
      BY SecretsAssumption
    <3>2. ToSet(s) \subseteq Base(S)
      BY BaseHas
    <3>3. QED
      BY <3>1, <3>2, SeqMonotonic
  <2>2. QED
    BY <2>1
<1>2. \A s \in S : escape_control_characters(s) \in Seq(Printable(Base(S)))
  BY <1>1, EscapedType
<1>3. Seq(Base(S)) \subseteq Seq(Wide(S)) /\ Seq(Printable(Base(S))) \subseteq Seq(Wide(S))
  BY BaseHas, SeqMonotonic
<1>4. Forms(S) \subseteq Seq(Wide(S)) \ {<<>>}
  BY <1>1, <1>2, <1>3 DEF Forms, secrets_for_redaction
<1>5. secrets_for_redaction(S) \subseteq Seq(Base(S)) \ {<<>>}
  BY <1>1 DEF secrets_for_redaction
<1>6. MarkerFree(Forms(S))
  BY SecretsAssumption DEF MarkerFree
<1>7. secrets_for_redaction(S) \subseteq Forms(S)
  BY DEF Forms, secrets_for_redaction
<1>8. MarkerFree(secrets_for_redaction(S))
  BY <1>6, <1>7 DEF MarkerFree
<1>9. QED
  BY <1>4, <1>5, <1>6, <1>8

LEMMA LineClean ==
  ASSUME NEW S \in SecretSets, NEW text \in Seq(Chars)
  PROVE  /\ ~Leaks(LogLine(Template, text, S), Forms(S))
         /\ \A i \in DOMAIN LogLine(Template, text, S) :
              LogLine(Template, text, S)[i] \notin DOMAIN Controls
<1> DEFINE base == Base(S)
           wide == Wide(S)
           shown == Printable(base)
           forms == Forms(S)
           whole == Template \o Clean(text, S)
<1>1. /\ Chars \subseteq base /\ ToSet(REDACTED) \subseteq base /\ ToSet(Candidates) \subseteq base
      /\ base \subseteq wide /\ shown \subseteq wide
      /\ ToSet(REDACTED) \subseteq shown /\ ToSet(Candidates) \subseteq shown
      /\ \A c \in shown : c \notin DOMAIN Controls
  BY BaseHas
<1>2. forms \subseteq Seq(wide) \ {<<>>} /\ MarkerFree(forms)
  BY FormsType
<1>3. Clean(text, S) = escape_control_characters(redact(text, forms))
  BY DEF Clean
<1>4. LogLine(Template, text, S) = redact(whole, forms)
  BY DEF LogLine
<1>5. \A s \in Seq(base) : escape_control_characters(s) \in Seq(shown)
  BY EscapedType
<1> HIDE DEF forms, base, wide
<1>6. redact(text, forms) \in Seq(base)
  <2>1. text \in Seq(base)
    BY <1>1, SeqMonotonic
  <2>2. QED
    BY <1>1, <1>2, <2>1, RedactType
<1>7. Clean(text, S) \in Seq(shown)
  BY <1>3, <1>5, <1>6
<1>8. Template \in Seq(shown)
  <2>1. Template \in Seq(Chars)
    BY TextType DEF Said
  <2>2. Template \in Seq(ToSet(Template)) /\ ToSet(Template) \cap DOMAIN Controls = {}
    BY TextAssumption
  <2>3. ToSet(Template) \subseteq Chars
    BY Zenon, CharsHave DEF Spoken, Said
  <2>4. ToSet(Template) \subseteq shown
    BY <1>1, <2>2, <2>3 DEF Printable
  <2>5. QED
    BY <2>2, <2>4, SeqMonotonic
<1> HIDE DEF shown
<1>9. whole \in Seq(shown)
  BY <1>7, <1>8, ConcatProperties
<1> HIDE DEF whole
<1>10. ~Leaks(redact(whole, forms), forms)
  <2>1. whole \in Seq(wide) /\ ToSet(Candidates) \subseteq wide
    BY <1>1, <1>9, SeqMonotonic
  <2>2. QED
    BY <1>2, <2>1, NoneLeft
<1>11. redact(whole, forms) \in Seq(shown)
  BY <1>1, <1>2, <1>9, RedactType
<1>12. \A i \in DOMAIN redact(whole, forms) : redact(whole, forms)[i] \in shown
  BY <1>11, LenProperties, ElementOfSeq
<1>13. QED
  BY <1>1, <1>4, <1>10, <1>12 DEF forms

\* The secrets that stand in a label of this text were made up by the cut.
OnlyMade(S, text) ==
  \A s \in S : \A i \in DOMAIN CutLabel(text) :
    Occurs(s, CutLabel(text), i) => MadeByCut(s, text, i)

\* A secret that ends before the ellipsis would stand in what is left of the text.
LEMMA CutClean ==
  ASSUME NEW P, NEW text \in Seq(P), NEW S, S \subseteq Seq(P) \ {<<>>}, ~Leaks(text, S)
  PROVE  OnlyMade(S, text) /\ Len(CutLabel(text)) <= MAX_LABEL_LENGTH
<1>1. Len(text) \in Nat /\ MAX_LABEL_LENGTH \in Nat \ {0}
  BY LenProperties, LabelLengthAssumption
<1>2. CASE Len(text) <= MAX_LABEL_LENGTH
  <2>1. CutLabel(text) = text
    BY <1>2 DEF CutLabel
  <2>2. QED
    BY <1>2, <2>1 DEF OnlyMade, Leaks, Contained
<1>3. CASE Len(text) > MAX_LABEL_LENGTH
  <2> DEFINE M == MAX_LABEL_LENGTH
             part == SubSeq(text, 1, M - 1)
             mark == <<Ellipsis>>
             Q == P \cup {Ellipsis}
             cut == part \o mark
  <2>1. CutLabel(text) = cut
    BY <1>1, <1>3 DEF CutLabel
  <2>2. /\ part \in Seq(P)
        /\ Len(part) = (IF 1 <= M - 1 THEN (M - 1) - 1 + 1 ELSE 0)
        /\ \A q \in 1..((M - 1) - 1 + 1) : part[q] = text[1 + q - 1]
    <3>1. 1 \in Int /\ M - 1 \in Int /\ \A i \in 1..(M - 1) : text[i] \in P
      BY <1>1, <1>3, ElementOfSeq
    <3>2. QED
      BY <3>1, SubSeqProperties
  <2>3. mark \in Seq(Q) /\ Len(mark) = 1 /\ mark[1] = Ellipsis
    <3>1. Ellipsis \in Q
      OBVIOUS
    <3> HIDE DEF Q
    <3>2. QED
      BY <3>1
  <2>4. P \subseteq Q
    OBVIOUS
  <2> HIDE DEF part, mark, Q
  <2>5. part \in Seq(Q) /\ text \in Seq(Q)
    BY <2>2, <2>4, SeqMonotonic
  <2>6. Len(part) = M - 1 /\ \A q \in 1..(M - 1) : part[q] = text[q]
    <3>1. (M - 1) - 1 + 1 = M - 1 /\ \A q \in 1..(M - 1) : 1 + q - 1 = q
      BY <1>1
    <3>2. QED
      BY <1>1, <2>2, <3>1
  <2>7. /\ cut \in Seq(Q) /\ Len(cut) = M
        /\ \A q \in 1..M : cut[q] = IF q <= M - 1 THEN part[q] ELSE mark[q - (M - 1)]
    <3>1. /\ cut \in Seq(Q) /\ Len(cut) = Len(part) + Len(mark)
          /\ \A q \in 1..(Len(part) + Len(mark)) :
                cut[q] = IF q <= Len(part) THEN part[q] ELSE mark[q - Len(part)]
      BY <2>3, <2>5, ConcatProperties
    <3> HIDE DEF cut
    <3>2. Len(part) + Len(mark) = M
      BY <1>1, <2>3, <2>6
    <3>3. QED
      BY <2>6, <3>1, <3>2
  <2> HIDE DEF cut
  <2>8. (\A q \in 1..(M - 1) : cut[q] = text[q]) /\ cut[M] = Ellipsis
    <3>1. ASSUME NEW q \in 1..(M - 1) PROVE cut[q] = text[q]
      BY <1>1, <2>6, <2>7
    <3>2. M \in 1..M /\ ~(M <= M - 1) /\ M - (M - 1) = 1
      BY <1>1
    <3>3. QED
      BY <2>3, <2>7, <3>1, <3>2
  <2>9. ASSUME NEW s \in S, NEW i \in DOMAIN cut, Occurs(s, cut, i)
        PROVE  i + Len(s) - 1 = M /\ s[Len(s)] = Ellipsis
    <3>1. s \in Seq(P) /\ s # <<>> /\ i \in 1..M
      BY <2>7, <2>9, LenProperties
    <3>2. s \in Seq(Q) /\ Len(s) \in Nat \ {0} /\ i \in Nat \ {0}
      BY <1>1, <2>4, <3>1, SeqMonotonic, LenProperties, EmptySeq
    <3>3. i + Len(s) - 1 <= M /\ \A q \in 1..Len(s) : cut[i + q - 1] = s[q]
      <4>1. cut \in Seq(Q) /\ Len(cut) = M
        BY <2>7
      <4>2. i + Len(s) - 1 <= Len(cut) /\ \A q \in 1..Len(s) : cut[i + q - 1] = s[q]
        BY <2>9, <3>2, <4>1, Occurrence
      <4>3. QED
        BY <4>1, <4>2
    <3>4. ASSUME i + Len(s) - 1 # M PROVE FALSE
      <4>1. i + Len(s) - 1 <= M - 1
        <5>1. PICK e : e = i + Len(s) - 1
          OBVIOUS
        <5>2. e \in Int /\ M \in Int /\ e <= M /\ e # M
          BY <1>1, <3>2, <3>3, <3>4, <5>1
        <5>3. QED
          BY <5>1, <5>2
      <4>2. ASSUME NEW q \in 1..Len(s) PROVE text[i + q - 1] = s[q]
        <5>1. i + q - 1 \in 1..(M - 1)
          BY <1>1, <3>1, <3>2, <4>1
        <5>2. QED
          BY <2>8, <3>3, <5>1
      <4>3. i + Len(s) - 1 <= Len(text) /\ i \in 1..Len(text)
        BY <1>1, <1>3, <3>1, <3>2, <4>1
      <4>4. Occurs(s, text, i)
        BY <3>1, <3>2, <4>2, <4>3, Occurrence
      <4>5. i \in DOMAIN text
        BY <4>3, LenProperties
      <4>6. QED
        BY <4>4, <4>5 DEF Leaks, Contained
    <3>5. s[Len(s)] = cut[M]
      <4>1. PICK q : q = Len(s)
        OBVIOUS
      <4>2. q \in 1..Len(s) /\ i + q - 1 = M
        BY <3>2, <3>4, <4>1
      <4>3. cut[i + q - 1] = s[q]
        BY <3>3, <4>2
      <4>4. QED
        BY <4>1, <4>2, <4>3
    <3>6. QED
      BY <2>8, <3>4, <3>5
  <2>10. OnlyMade(S, text)
    BY <1>3, <2>1, <2>9 DEF OnlyMade, MadeByCut
  <2>11. QED
    BY <1>1, <2>1, <2>7, <2>10
<1>4. QED
  BY <1>1, <1>2, <1>3

LEMMA LabelOf ==
  ASSUME NEW S \in SecretSets, NEW text \in Seq(Chars),
         NEW given, given = secrets_for_redaction(S),
         NEW shown, shown = redact(text, given)
  PROVE  /\ Label(text, S) = CutLabel(shown) /\ OnlyMade(given, shown)
         /\ Len(Label(text, S)) <= MAX_LABEL_LENGTH
         /\ ~Leaks(text, given) => Label(text, S) = CutLabel(text)
<1> DEFINE base == Base(S)
<1>1. Chars \subseteq base /\ ToSet(REDACTED) \subseteq base /\ ToSet(Candidates) \subseteq base
  BY BaseHas
<1>2. given \subseteq Seq(base) \ {<<>>} /\ MarkerFree(given)
  BY FormsType
<1>3. Label(text, S) = CutLabel(shown)
  BY DEF Label
<1> HIDE DEF base
<1>4. text \in Seq(base)
  BY <1>1, SeqMonotonic
<1>5. shown \in Seq(base) /\ ~Leaks(shown, given)
  <2>1. redact(text, given) \in Seq(base)
    BY <1>1, <1>2, <1>4, RedactType
  <2>2. ~Leaks(redact(text, given), given)
    BY <1>1, <1>2, <1>4, NoneLeft
  <2>3. QED
    BY <2>1, <2>2
<1>6. OnlyMade(given, shown) /\ Len(CutLabel(shown)) <= MAX_LABEL_LENGTH
  BY <1>2, <1>5, CutClean
<1>7. ASSUME ~Leaks(text, given) PROVE Label(text, S) = CutLabel(text)
  <2>1. redact(text, given) = text
    BY <1>1, <1>2, <1>4, <1>7, RedactSame
  <2>2. QED
    BY <1>3, <2>1
<1>8. QED
  BY <1>3, <1>6, <1>7

TextInv == ReaderType /\ Published

LEMMA TextInductive == Spec => []TextInv
<1>1. Init => TextInv
  BY InitType DEF Init, TextInv, Published
<1>2. TextInv /\ [Next]_vars => TextInv'
  BY NextType, NextPublished DEF TextInv
<1>3. QED
  BY <1>1, <1>2, PTL DEF Spec

\* LabelClean (redact, redaction.py 22-42, then label_value, metrics.py 188-199): for
\* any passwords, one that stands in a label was made up by the cut -- it ends the
\* label, and in an ellipsis --, and a name without a password is exported as it is.
THEOREM Labels == Spec => []LabelClean
<1>1. TextInv => LabelClean
  <2> SUFFICES ASSUME TextInv, status = "published" PROVE
        LET given == secrets_for_redaction(secrets) IN
        /\ \A s \in given : \A i \in DOMAIN label :
             Occurs(s, label, i) => MadeByCut(s, redact(name, given), i)
        /\ Len(label) <= MAX_LABEL_LENGTH
        /\ ~Leaks(name, given) => label = CutLabel(name)
    BY DEF LabelClean
  <2>1. name \in Seq(Chars) /\ secrets \in SecretSets /\ label = Label(name, secrets)
    BY NameType DEF TextInv, Published
  <2>2. PICK given : given = secrets_for_redaction(secrets)
    OBVIOUS
  <2>3. PICK shown : shown = redact(name, given)
    OBVIOUS
  <2>4. /\ label = CutLabel(shown) /\ OnlyMade(given, shown)
        /\ Len(label) <= MAX_LABEL_LENGTH
        /\ ~Leaks(name, given) => label = CutLabel(name)
    BY <2>1, <2>2, <2>3, LabelOf
  <2>5. QED
    BY <2>2, <2>3, <2>4 DEF OnlyMade
<1>2. QED
  BY <1>1, TextInductive, PTL

\* LogLineClean (RedactingFilter.filter, redaction.py 119-149): no log line holds a password or its
\* escaped form, and none breaks.
THEOREM LogLines == Spec => []LogLineClean
<1>1. TextInv => LogLineClean
  BY NameType, LineClean DEF TextInv, Published, LogLineClean
<1>2. QED
  BY <1>1, TextInductive, PTL

-----------------------------------------------------------------------------
(* What is put together from parts, and split again.                       *)

\* A text that has these parts at those places, with the separator between them.
Layout(text, parts, separator, at) ==
  /\ at \in [1..(Len(parts) + 1) -> Nat \ {0}]
  /\ at[1] = 1 /\ at[Len(parts) + 1] = Len(text) + 2
  /\ \A k \in 1..Len(parts) :
       /\ at[k + 1] = at[k] + Len(parts[k]) + 1 /\ at[k] + Len(parts[k]) <= Len(text) + 1
       /\ \A q \in 1..Len(parts[k]) : text[at[k] + q - 1] = parts[k][q]
       /\ k < Len(parts) => text[at[k + 1] - 1] = separator

\* Joining puts the parts there.
LEMMA JoinedLayout ==
  ASSUME NEW P, NEW c \in P, NEW parts \in Seq(Seq(P)), parts # <<>>
  PROVE  /\ Joined(parts, c) \in Seq(P)
         /\ \E at : Layout(Joined(parts, c), parts, c, at)
<1>0. PICK n : n = Len(parts)
  OBVIOUS
<1> DEFINE pieces == [k \in DOMAIN parts |-> IF k = 1 THEN parts[k] ELSE <<c>> \o parts[k]]
<1>1. n \in Nat \ {0} /\ DOMAIN parts = 1..n /\ \A k \in 1..n : parts[k] \in Seq(P)
  <2>1. Len(parts) # 0
    BY EmptySeq
  <2>2. QED
    BY <1>0, <2>1, LenProperties, ElementOfSeq
<1>2. \A k \in 1..n : <<c>> \o parts[k] \in Seq(P) /\ <<c>> \in Seq(P) /\ Len(<<c>>) = 1
  BY <1>1, WordsType, ConcatProperties
<1>3. pieces \in [1..n -> Seq(P)]
  BY <1>1, <1>2
<1>4. pieces \in Seq(Seq(P)) /\ Len(pieces) = n /\ pieces # <<>>
  <2> HIDE DEF pieces
  <2>1. pieces \in Seq(Seq(P))
    <3>1. \E m \in Nat : pieces \in [1..m -> Seq(P)]
      BY <1>1, <1>3
    <3>2. QED
      BY <3>1, SeqDef
  <2>2. Len(pieces) = n
    BY <1>1, <1>3, <2>1, LenProperties
  <2>3. QED
    BY <1>1, <2>1, <2>2, EmptySeq
<1>5. Joined(parts, c) = FlattenSeq(pieces)
  BY DEF Joined
<1>6. \A k \in 1..n : pieces[k] = IF k = 1 THEN parts[k] ELSE <<c>> \o parts[k]
  BY <1>1
<1> HIDE DEF pieces
<1>7. PICK f \in [1..n -> Seq(P)] :
        /\ FlattenSeq(pieces) = f[n]
        /\ \A i \in 1..n : f[i] = IF i = 1 THEN pieces[i] ELSE f[i - 1] \o pieces[i]
  <2>1. \E f \in [1..Len(pieces) -> Seq(P)] :
          /\ FlattenSeq(pieces) = f[Len(pieces)]
          /\ \A i \in 1..Len(pieces) : f[i] = IF i = 1 THEN pieces[i] ELSE f[i - 1] \o pieces[i]
    BY <1>4, FlattenSteps
  <2>2. QED
    BY <1>4, <2>1
<1>8. \A k \in 1..n : f[k] \in Seq(P) /\ Len(f[k]) \in Nat /\ Len(parts[k]) \in Nat
  BY <1>1, LenProperties
<1>9. PICK l \in [1..n -> Nat], m \in [1..n -> Nat] :
        \A k \in 1..n : l[k] = Len(f[k]) /\ m[k] = Len(parts[k])
  <2>1. /\ [k \in 1..n |-> Len(f[k])] \in [1..n -> Nat]
        /\ [k \in 1..n |-> Len(parts[k])] \in [1..n -> Nat]
    BY <1>8
  <2>2. QED
    BY <2>1
\* Each step keeps what was there.
<1>10. ASSUME NEW k \in 2..n
       PROVE  /\ l[k] = l[k - 1] + 1 + m[k] /\ f[k][l[k - 1] + 1] = c
              /\ \A i \in 1..l[k - 1] : f[k][i] = f[k - 1][i]
              /\ \A q \in 1..m[k] : f[k][l[k - 1] + 1 + q] = parts[k][q]
  <2>1. k \in 1..n /\ k - 1 \in 1..n /\ k # 1
    BY <1>1
  <2>2. PICK a, h, b, x : a = f[k - 1] /\ h = <<c>> /\ b = parts[k] /\ x = h \o b
    OBVIOUS
  <2>3. /\ a \in Seq(P) /\ h \in Seq(P) /\ b \in Seq(P) /\ Len(h) = 1 /\ h[1] = c
        /\ Len(a) = l[k - 1] /\ Len(b) = m[k] /\ Len(f[k]) = l[k]
        /\ l[k - 1] \in Nat /\ m[k] \in Nat
    BY <1>1, <1>2, <1>8, <1>9, <2>1, <2>2
  <2>4. /\ x \in Seq(P) /\ Len(x) = Len(h) + Len(b)
        /\ \A q \in 1..Len(h) : x[q] = h[q]
        /\ \A q \in 1..Len(b) : x[Len(h) + q] = b[q]
    BY <2>2, <2>3, HeadOf
  <2>5. f[k] = a \o x
    BY <1>6, <1>7, <2>1, <2>2
  <2>6. /\ Len(f[k]) = Len(a) + Len(x)
        /\ \A i \in 1..Len(a) : f[k][i] = a[i]
        /\ \A i \in 1..Len(x) : f[k][Len(a) + i] = x[i]
    <3>1. a \in Seq(P) /\ x \in Seq(P)
      BY <2>3, <2>4
    <3>2. QED
      BY <2>5, <3>1, HeadOf
  <2>7. x[1] = c /\ Len(x) = 1 + m[k] /\ \A q \in 1..m[k] : x[1 + q] = b[q]
    BY <2>3, <2>4
  <2>8. /\ l[k] = l[k - 1] + (1 + m[k])
        /\ \A i \in 1..l[k - 1] : f[k][i] = f[k - 1][i]
        /\ \A i \in 1..(1 + m[k]) : f[k][l[k - 1] + i] = x[i]
    BY <2>2, <2>3, <2>6, <2>7
  <2>9. PICK u \in Nat, v \in Nat : u = l[k - 1] /\ v = m[k]
    BY <2>3
  <2>10. f[k][u + 1] = c /\ \A q \in 1..v : f[k][u + 1 + q] = parts[k][q]
    <3>1. 1 \in 1..(1 + v) /\ \A q \in 1..v : 1 + q \in 1..(1 + v) /\ u + (1 + q) = u + 1 + q
      OBVIOUS
    <3>2. \A i \in 1..(1 + v) : f[k][u + i] = x[i]
      BY <2>8, <2>9
    <3>3. f[k][u + 1] = x[1] /\ \A q \in 1..v : f[k][u + (1 + q)] = x[1 + q]
      BY <3>1, <3>2
    <3>4. x[1] = c /\ \A q \in 1..v : x[1 + q] = parts[k][q]
      BY <2>2, <2>7, <2>9
    <3>5. QED
      BY <3>1, <3>3, <3>4
  <2>11. QED
    <3>1. l[k] = u + 1 + v
      <4>1. l[k] = u + (1 + v)
        BY <2>8, <2>9
      <4>2. QED
        BY <4>1
    <3>2. \A i \in 1..u : f[k][i] = f[k - 1][i]
      BY <2>8, <2>9
    <3>3. QED
      BY <2>9, <2>10, <3>1, <3>2
<1>11. f[1] = parts[1] /\ l[1] = m[1]
  <2>1. 1 \in 1..n
    BY <1>1
  <2>2. f[1] = parts[1]
    BY <1>6, <1>7, <2>1
  <2>3. QED
    BY <1>9, <2>1, <2>2
\* So the last text has every earlier one in front.
<1> DEFINE Leading(k) == l[k] <= l[n] /\ \A i \in 1..l[k] : f[n][i] = f[k][i]
           S == {k \in 1..n : ~Leading(k)}
<1>12. ASSUME S # {} PROVE FALSE
  <2>1. PICK k \in S : \A i \in S : i <= k
    <3>1. S \subseteq 1..n
      OBVIOUS
    <3> HIDE DEF S
    <3>2. QED
      BY <1>1, <1>12, <3>1, GreatestOf
  <2>2. k \in 1..n /\ ~Leading(k)
    OBVIOUS
  <2>3. Leading(n)
    BY <1>1
  <2>4. PICK j \in 2..n : j = k + 1
    <3> HIDE DEF Leading
    <3>1. k # n
      BY <2>2, <2>3
    <3>2. k + 1 \in 2..n
      BY <1>1, <2>2, <3>1
    <3>3. QED
      BY <3>2
  <2>5. j \in 1..n /\ j - 1 = k /\ ~(j <= k)
    BY <2>2, <2>4
  <2>6. j \notin S
    <3> HIDE DEF S
    <3>1. QED
      BY <2>1, <2>5
  <2>7. Leading(j)
    <3> HIDE DEF Leading
    <3>1. QED
      BY <2>5, <2>6
  <2>8. l[j] = l[k] + 1 + m[j] /\ \A i \in 1..l[k] : f[j][i] = f[k][i]
    BY <1>10, <2>5
  <2>9. l[k] \in Nat /\ l[j] \in Nat /\ l[n] \in Nat /\ m[j] \in Nat
    BY <1>1, <2>2, <2>5
  <2>10. l[k] <= l[j]
    BY <2>8, <2>9
  <2>11. l[k] <= l[n] /\ \A i \in 1..l[k] : i \in 1..l[j]
    BY <2>7, <2>9, <2>10
  <2>12. \A i \in 1..l[k] : f[n][i] = f[k][i]
    BY <2>7, <2>8, <2>11
  <2>13. QED
    BY <2>2, <2>11, <2>12
<1>13. \A k \in 1..n : l[k] <= l[n] /\ \A i \in 1..l[k] : f[n][i] = f[k][i]
  BY <1>12
<1> HIDE DEF S, Leading
<1> DEFINE at == [k \in 1..(n + 1) |-> IF k = 1 THEN 1 ELSE l[k - 1] + 2]
<1>14. \A k \in 1..(n + 1) : at[k] = IF k = 1 THEN 1 ELSE l[k - 1] + 2
  OBVIOUS
<1>15. at \in [1..(n + 1) -> Nat \ {0}]
  <2>1. \A k \in 1..(n + 1) : k = 1 \/ k - 1 \in 1..n
    BY <1>1
  <2>2. \A k \in 1..(n + 1) : (IF k = 1 THEN 1 ELSE l[k - 1] + 2) \in Nat \ {0}
    BY <2>1
  <2>3. QED
    BY <2>2
<1> HIDE DEF at
<1>16. at[1] = 1 /\ at[n + 1] = l[n] + 2
  <2>1. PICK e \in 1..(n + 1) : e = n + 1
    BY <1>1
  <2>2. e # 1 /\ e - 1 = n /\ 1 \in 1..(n + 1)
    BY <1>1, <2>1
  <2>3. QED
    BY <1>14, <2>1, <2>2
<1>17. ASSUME NEW k \in 1..n
       PROVE  /\ at[k + 1] = at[k] + m[k] + 1 /\ at[k] + m[k] <= l[n] + 1
              /\ \A q \in 1..m[k] : f[n][at[k] + q - 1] = parts[k][q]
              /\ k < n => f[n][at[k + 1] - 1] = c
  <2>1. k + 1 \in 1..(n + 1) /\ k \in 1..(n + 1) /\ k + 1 # 1 /\ k + 1 - 1 = k
    BY <1>1
  <2>2. at[k + 1] = l[k] + 2 /\ at[k] = IF k = 1 THEN 1 ELSE l[k - 1] + 2
    BY <1>14, <2>1
  <2>3. l[k] \in Nat /\ m[k] \in Nat
    OBVIOUS
  <2>4. ASSUME k < n PROVE f[n][at[k + 1] - 1] = c
    <3>1. PICK j \in 2..n : j = k + 1
      BY <1>1, <2>4
    <3>2. j - 1 = k /\ j \in 1..n
      BY <3>1
    <3>3. f[j][l[k] + 1] = c /\ l[j] = l[k] + 1 + m[j] /\ m[j] \in Nat
      BY <1>10, <3>2
    <3>4. l[k] + 1 \in 1..l[j] /\ at[k + 1] - 1 = l[k] + 1
      BY <2>2, <2>3, <3>3
    <3>5. QED
      BY <1>13, <3>2, <3>3, <3>4
  <2>8. l[k] <= l[n] /\ l[n] \in Nat
    BY <1>1, <1>13
  <2>5. CASE k = 1
    <3>1. at[k] = 1 /\ l[k] = m[k] /\ f[k] = parts[k]
      BY <1>11, <2>2, <2>5
    <3>2. at[k + 1] = at[k] + m[k] + 1
      BY <2>2, <2>3, <3>1
    <3>3. \A q \in 1..m[k] : at[k] + q - 1 = q
      BY <3>1
    <3>4. at[k] + m[k] <= l[n] + 1
      BY <2>3, <2>8, <3>1
    <3>5. QED
      BY <1>13, <2>4, <3>1, <3>2, <3>3, <3>4
  <2>6. CASE k # 1
    <3>1. k \in 2..n /\ k - 1 \in 1..n /\ l[k - 1] \in Nat
      BY <1>1, <2>6
    <3>2. l[k] = l[k - 1] + 1 + m[k] /\ at[k] = l[k - 1] + 2
      BY <1>10, <2>2, <2>6, <3>1
    <3>3. at[k + 1] = at[k] + m[k] + 1
      BY <2>2, <2>3, <3>1, <3>2
    <3>4. ASSUME NEW q \in 1..m[k] PROVE f[n][at[k] + q - 1] = parts[k][q]
      <4>1. PICK u \in Nat : u = l[k - 1]
        BY <3>1
      <4>2. f[k][u + 1 + q] = parts[k][q] /\ l[k] = u + 1 + m[k] /\ at[k] = u + 2
        BY <1>10, <3>1, <3>2, <4>1
      <4>3. at[k] + q - 1 = u + 1 + q /\ u + 1 + q \in 1..l[k]
        BY <2>3, <4>2
      <4>4. QED
        BY <1>13, <4>2, <4>3
    <3>5. at[k] + m[k] <= l[n] + 1
      <4>1. PICK u \in Nat, v \in Nat : u = l[k - 1] /\ v = m[k]
        BY <2>3, <3>1
      <4>2. l[k] = u + 1 + v /\ at[k] = u + 2
        BY <3>2, <4>1
      <4>3. u + 2 + v <= l[n] + 1
        BY <2>8, <4>2
      <4>4. QED
        BY <4>1, <4>2, <4>3
    <3>6. QED
      BY <2>4, <3>3, <3>4, <3>5
  <2>7. QED
    BY <2>5, <2>6
<1>18. n \in 1..n /\ l[n] = Len(f[n])
  BY <1>1, <1>9
<1>19. Layout(f[n], parts, c, at)
  <2>1. at[n + 1] = Len(f[n]) + 2 /\ at[1] = 1
    BY <1>16, <1>18
  <2>2. ASSUME NEW k \in 1..n
        PROVE  /\ at[k + 1] = at[k] + Len(parts[k]) + 1
               /\ at[k] + Len(parts[k]) <= Len(f[n]) + 1
               /\ \A q \in 1..Len(parts[k]) : f[n][at[k] + q - 1] = parts[k][q]
               /\ k < n => f[n][at[k + 1] - 1] = c
    BY <1>9, <1>17, <1>18
  <2>3. QED
    BY <1>0, <1>15, <2>1, <2>2 DEF Layout
<1>20. Joined(parts, c) = f[n] /\ f[n] \in Seq(P)
  BY <1>5, <1>7, <1>18
<1>21. QED
  BY <1>19, <1>20, Zenon

\* In a text of n characters, the part lies at a and what follows its end starts at b.
LiesAt(text, c, n, part, a, b) ==
  /\ n = Len(text) /\ a \in Nat \ {0} /\ b \in Nat /\ b = a + Len(part) + 1 /\ b <= n + 2
  /\ \A q \in 1..Len(part) : text[a + q - 1] = part[q] /\ part[q] # c
  /\ b = n + 2 \/ text[b - 1] = c

\* The piece from a on ends at e.
EndsAt(text, c, n, piece, a, e) ==
  /\ piece = SubSeq(text, a, e - 1)
  /\ e \in a..(n + 1) /\ (e = n + 1 \/ text[e] = c)
  /\ \A j \in a..(e - 1) : text[j] # c

\* A part ends where the next separator is.
LEMMA SplitStep ==
  ASSUME NEW P, NEW text \in Seq(P), NEW part \in Seq(P), NEW c, NEW n,
         NEW a \in Nat, NEW b \in Nat, NEW e \in Nat, NEW piece,
         LiesAt(text, c, n, part, a, b), EndsAt(text, c, n, piece, a, e)
  PROVE  e + 1 = b /\ piece = part
<1>1. PICK l : l = Len(part)
  OBVIOUS
<1>2. /\ a \in Nat \ {0} /\ l \in Nat /\ b \in Nat /\ b = a + l + 1 /\ b <= n + 2
      /\ \A q \in 1..l : text[a + q - 1] = part[q] /\ part[q] # c
      /\ b = n + 2 \/ text[b - 1] = c
      /\ n = Len(text)
  BY <1>1, LenProperties DEF LiesAt
<1>3. /\ piece = SubSeq(text, a, e - 1)
      /\ e \in a..(n + 1) /\ (e = n + 1 \/ text[e] = c)
      /\ \A j \in a..(e - 1) : text[j] # c
  BY DEF EndsAt
<1>4. n \in Nat /\ e \in Nat /\ e >= a /\ e <= n + 1
  <2>1. n \in Nat
    BY <1>2, LenProperties
  <2>2. QED
    BY <1>2, <1>3, <2>1
<1>5. e >= b - 1
  <2>1. SUFFICES ASSUME e < b - 1 PROVE FALSE
    BY <1>2, <1>3, <1>4
  <2>2. PICK q \in 1..l : q = e - a + 1
    BY <1>2, <1>3, <1>4, <2>1
  <2>3. a + q - 1 = e /\ e # n + 1
    BY <1>2, <1>3, <1>4, <2>1, <2>2
  <2>4. QED
    BY <1>2, <1>3, <2>3
<1>6. e <= b - 1
  <2>1. SUFFICES ASSUME e > b - 1 PROVE FALSE
    BY <1>2, <1>3, <1>4
  <2>2. b - 1 \in a..(e - 1) /\ b # n + 2
    BY <1>2, <1>3, <1>4, <2>1
  <2>3. QED
    BY <1>2, <1>3, <2>2
<1>7. e = b - 1
  BY <1>2, <1>3, <1>4, <1>5, <1>6
<1>8. SubSeq(text, a, e - 1) = part
  <2>0. PICK z \in Int : z = e - 1 /\ z + 2 = b
    BY <1>4, <1>7, <1>2
  <2>1. PICK s : s = SubSeq(text, a, z)
    OBVIOUS
  <2>2. a \in Int /\ z \in Int /\ z - a + 1 = l /\ z <= n /\ (IF a <= z THEN z - a + 1 ELSE 0) = l
    <3>1. z - a + 1 = l /\ z <= n /\ a \in Int
      BY <1>2, <1>4, <2>0
    <3>2. (IF a <= z THEN z - a + 1 ELSE 0) = l
      BY <1>2, <3>1
    <3>3. QED
      BY <3>1, <3>2
  <2>3. \A i \in a..z : text[i] \in P
    <3>1. \A i \in a..z : i \in 1..n
      BY <1>2, <1>3, <1>4, <2>2
    <3>2. QED
      BY <1>2, <3>1, ElementOfSeq
  <2>4. s \in Seq(P) /\ Len(s) = l /\ \A q \in 1..l : s[q] = text[a + q - 1]
    <3>1. /\ s \in Seq(P) /\ Len(s) = (IF a <= z THEN z - a + 1 ELSE 0)
          /\ \A q \in 1..(z - a + 1) : s[q] = text[a + q - 1]
      BY <2>1, <2>2, <2>3, SubSeqProperties
    <3>2. QED
      BY <2>2, <3>1
  <2>5. \A q \in 1..l : s[q] = part[q]
    BY <1>2, <2>4
  <2>6. s = part
    BY <1>1, <2>4, <2>5, SeqEqual
  <2>7. QED
    BY <2>0, <2>1, <2>6, Zenon
<1>9. piece = part
  BY <1>8, <1>3, Zenon
<1>10. QED
  BY <1>2, <1>4, <1>7, <1>9

\* And splitting takes them back.
LEMMA SplitLayout ==
  ASSUME NEW P, NEW c, NEW text \in Seq(P), NEW parts \in Seq(Seq(P)), parts # <<>>,
         NEW at, Layout(text, parts, c, at),
         \A k \in 1..Len(parts) : \A q \in 1..Len(parts[k]) : parts[k][q] # c
  PROVE  Split(text, c) = parts
<1>0. PICK n, length : n = Len(parts) /\ length = Len(text) + 1
  OBVIOUS
<1>1. /\ n \in Nat \ {0} /\ Len(text) \in Nat /\ length \in Nat
      /\ \A k \in 1..n : parts[k] \in Seq(P) /\ Len(parts[k]) \in Nat
  <2>1. Len(parts) # 0
    BY EmptySeq
  <2>2. Len(parts) \in Nat /\ Len(text) \in Nat /\ \A k \in 1..Len(parts) : parts[k] \in Seq(P)
    BY LenProperties, ElementOfSeq
  <2>3. \A k \in 1..n : Len(parts[k]) \in Nat
    BY <1>0, <2>2, LenProperties
  <2>4. QED
    BY <1>0, <2>1, <2>2, <2>3
<1>2. PICK m \in [1..n -> Nat] : \A k \in 1..n : m[k] = Len(parts[k])
  <2>1. [k \in 1..n |-> Len(parts[k])] \in [1..n -> Nat]
    BY <1>1
  <2>2. QED
    BY <2>1
<1>3. at \in [1..(n + 1) -> Nat \ {0}] /\ at[1] = 1 /\ at[n + 1] = length + 1
  BY <1>0, <1>1 DEF Layout
<1>4. ASSUME NEW k \in 1..n, NEW j, j = k + 1
      PROVE  /\ at[j] = at[k] + m[k] + 1
             /\ \A q \in 1..m[k] : text[at[k] + q - 1] = parts[k][q] /\ parts[k][q] # c
             /\ k < n => text[at[j] - 1] = c
  BY <1>0, <1>2, <1>4 DEF Layout
<1>5. PICK w, d : /\ Split(text, c) = Rewritten(length, w, d)
                  /\ IsPass(Seq(P), length, w, d) /\ Pieces(text, c, length, w, d)
  BY <1>0, SplitPass
<1>6. PICK f : IsRest(Seq(P), length, w, d, 1, f) /\ Rewritten(length, w, d) = f[1]
  BY <1>5, PassDefined
<1>7. f[length + 1] = <<>> /\ \A i \in 1..length : f[i] = w[i] \o f[i + d[i]]
  BY <1>6 DEF IsRest
<1>8. PICK t : Spelled(Seq(P), 0, parts, t) /\ t[1] = parts
  BY SpelledFirst
<1>9. t[n + 1] = <<>> /\ \A i \in 1..n : t[i] = <<parts[i]>> \o t[i + 1]
  <2>1. \A x : Spelling(0, x) = <<x>>
    BY DEF Spelling
  <2>2. QED
    BY <1>0, <1>8, <2>1 DEF Spelled
\* Every part lies within the text.
<1>10. \A k \in 1..(n + 1) : at[k] <= length + 1
  <2>1. ASSUME NEW k \in 1..n PROVE at[k] <= length + 1
    <3>1. at[k] + m[k] <= length
      BY <1>0, <1>1, <1>2 DEF Layout
    <3>2. k \in 1..(n + 1)
      BY <1>1
    <3>3. at[k] \in Nat /\ m[k] \in Nat
      BY <1>3, <3>2
    <3>4. PICK a \in Nat, l \in Nat : a = at[k] /\ l = m[k]
      BY <3>3
    <3>5. a + l <= length
      BY <3>1, <3>4
    <3>6. QED
      BY <1>1, <3>4, <3>5
  <2>2. \A k \in 1..(n + 1) : k \in 1..n \/ k = n + 1
    BY <1>1
  <2>3. QED
    BY <1>1, <1>3, <2>1, <2>2
\* From the place of a part on, split yields that part and the ones behind it.
<1>11. ASSUME NEW k \in 1..n PROVE f[at[k]] = <<parts[k]>> \o f[at[k + 1]]
  <2>1. PICK j \in 1..(n + 1) : j = k + 1
    BY <1>1
  <2>2. k \in 1..(n + 1) /\ at[k] \in Nat \ {0} /\ at[j] \in Nat /\ m[k] \in Nat
    BY <1>1, <1>3
  <2>3. PICK a \in Nat \ {0}, b \in Nat, l \in Nat : a = at[k] /\ b = at[j] /\ l = m[k]
    BY <2>2
  <2>4. b = a + l + 1 /\ b <= length + 1
    BY <1>4, <1>10, <2>1, <2>3
  <2>5. a \in 1..length
    BY <1>1, <2>4
  <2>6. PICK e \in a..length : /\ w[a] = <<SubSeq(text, a, e - 1)>> /\ d[a] = e + 1 - a
                               /\ (e = length \/ text[e] = c)
                               /\ \A i \in a..(e - 1) : text[i] # c
    BY <1>5, <2>5 DEF Pieces
  <2>7. \A q \in 1..l : text[a + q - 1] = parts[k][q] /\ parts[k][q] # c
    BY <1>4, <2>1, <2>3
  <2>8. b = length + 1 \/ text[b - 1] = c
    <3>1. CASE k = n
      BY <1>3, <2>1, <2>3, <3>1
    <3>2. CASE k # n
      <4>1. k < n
        BY <1>1, <3>2
      <4>2. QED
        BY <1>4, <2>1, <2>3, <4>1
    <3>3. QED
      BY <3>1, <3>2
  <2>9. e + 1 = b /\ SubSeq(text, a, e - 1) = parts[k]
    <3>1. PICK r, part, piece : /\ r = Len(text) /\ part = parts[k]
                               /\ piece = SubSeq(text, a, e - 1)
      OBVIOUS
    <3>2. part \in Seq(P) /\ l = Len(part) /\ length = r + 1 /\ r \in Nat
      BY <1>0, <1>1, <1>2, <2>3, <3>1
    <3>3. LiesAt(text, c, r, part, a, b)
      <4>1. b = a + Len(part) + 1 /\ b <= r + 2
        BY <2>4, <3>2
      <4>2. b = r + 2 \/ text[b - 1] = c
        BY <2>8, <3>2
      <4>3. \A q \in 1..Len(part) : text[a + q - 1] = part[q] /\ part[q] # c
        BY <2>7, <3>1, <3>2
      <4>4. QED
        BY <3>1, <4>1, <4>2, <4>3 DEF LiesAt
    <3>4. EndsAt(text, c, r, piece, a, e)
      <4>1. e \in a..(r + 1) /\ (e = r + 1 \/ text[e] = c)
        BY <2>6, <3>2
      <4>2. QED
        BY <2>6, <3>1, <4>1 DEF EndsAt
    <3>5. e + 1 = b /\ piece = part
      <4>1. text \in Seq(P) /\ part \in Seq(P) /\ a \in Nat /\ b \in Nat /\ e \in Nat
        BY <1>1, <3>2
      <4>2. QED
        BY <3>3, <3>4, <4>1, SplitStep
    <3>6. QED
      BY <3>1, <3>5, Zenon
  <2>10. f[a] = w[a] \o f[a + d[a]]
    BY <1>7, <2>5
  <2>11. a + d[a] = b
    <3>1. PICK x : x = d[a]
      OBVIOUS
    <3>2. x = e + 1 - a
      BY <2>6, <3>1, Zenon
    <3>3. a + x = b
      BY <1>1, <2>5, <2>9, <3>2
    <3>4. QED
      BY <3>1, <3>3
  <2>12. w[a] = <<parts[k]>>
    BY <2>6, <2>9
  <2>13. QED
    BY <2>1, <2>3, <2>10, <2>11, <2>12
<1> DEFINE S == {k \in 1..(n + 1) : f[at[k]] # t[k]}
<1>12. ASSUME S # {} PROVE FALSE
  <2>1. PICK k \in S : \A i \in S : i <= k
    <3>1. S \subseteq 1..(n + 1) /\ n + 1 \in Nat
      BY <1>1
    <3> HIDE DEF S
    <3>2. QED
      BY <1>12, <3>1, GreatestOf
  <2>2. k \in 1..(n + 1) /\ f[at[k]] # t[k]
    OBVIOUS
  <2>3. k # n + 1
    BY <1>3, <1>7, <1>9, <2>2
  <2>4. PICK j \in 1..(n + 1) : j = k + 1 /\ k \in 1..n /\ ~(j <= k)
    <3>1. k + 1 \in 1..(n + 1) /\ k \in 1..n /\ ~(k + 1 <= k)
      BY <1>1, <2>2, <2>3
    <3>2. QED
      BY <3>1
  <2>5. j \notin S
    <3> HIDE DEF S
    <3>1. QED
      BY <2>1, <2>4
  <2>6. f[at[j]] = t[j]
    BY <2>4, <2>5
  <2>7. QED
    BY <1>9, <1>11, <2>2, <2>4, <2>6
<1>13. 1 \in 1..(n + 1)
  BY <1>1
<1>14. f[at[1]] = t[1]
  BY <1>12, <1>13
<1>15. QED
  BY <1>3, <1>5, <1>6, <1>8, <1>14

-----------------------------------------------------------------------------
(* The end of a value: what strip() takes from the escaped text.           *)

\* What the wire escapes and writes is not the white space it leaves.
LEMMA EscapesSolid ==
  \A j \in 1..11 : Escapes[j][1] # "NBSP" /\ Escapes[j][2] # "NBSP"
<1>1. \A k \in 1..11 : \/ k = 1 \/ k = 2 \/ k = 3 \/ k = 4 \/ k = 5 \/ k = 6 \/ k = 7
                       \/ k = 8 \/ k = 9 \/ k = 10 \/ k = 11
  OBVIOUS
<1>2. /\ Escapes[1][1] # "NBSP" /\ Escapes[2][1] # "NBSP" /\ Escapes[3][1] # "NBSP"
      /\ Escapes[4][1] # "NBSP" /\ Escapes[5][1] # "NBSP" /\ Escapes[6][1] # "NBSP"
      /\ Escapes[7][1] # "NBSP" /\ Escapes[8][1] # "NBSP" /\ Escapes[9][1] # "NBSP"
      /\ Escapes[10][1] # "NBSP" /\ Escapes[11][1] # "NBSP"
  BY DEF Escapes, Backslash
<1>3. /\ Escapes[1][2] # "NBSP" /\ Escapes[2][2] # "NBSP" /\ Escapes[3][2] # "NBSP"
      /\ Escapes[4][2] # "NBSP" /\ Escapes[5][2] # "NBSP" /\ Escapes[6][2] # "NBSP"
      /\ Escapes[7][2] # "NBSP" /\ Escapes[8][2] # "NBSP" /\ Escapes[9][2] # "NBSP"
      /\ Escapes[10][2] # "NBSP" /\ Escapes[11][2] # "NBSP"
  BY DEF Escapes, Backslash
<1>4. QED
  BY <1>1, <1>2, <1>3

\* A text of length n without the white space at its end is u, of length m.
TrimsTo(text, n, u, m) ==
  /\ n = Len(text) /\ m = Len(u) /\ n \in Nat /\ m \in 0..n
  /\ \A i \in 1..m : u[i] = text[i]
  /\ m # 0 => u[m] # "NBSP"
  /\ \A i \in (m + 1)..n : text[i] = "NBSP"

LEMMA TrimmedIs ==
  ASSUME NEW P, NEW text \in Seq(P)
  PROVE  /\ Trimmed(text) \in Seq(P)
         /\ TrimsTo(text, Len(text), Trimmed(text), Len(Trimmed(text)))
<1> DEFINE solid == {i \in DOMAIN text : text[i] # "NBSP"}
<1>1. PICK n \in Nat : n = Len(text) /\ DOMAIN text = 1..n
  BY LenProperties
<1>2. Trimmed(text) = IF solid = {} THEN <<>> ELSE SubSeq(text, 1, Max(solid))
  BY DEF Trimmed
<1>3. solid \subseteq 1..n /\ \A i \in 1..n : text[i] = "NBSP" <=> i \notin solid
  BY <1>1
<1> HIDE DEF solid
<1>4. CASE solid = {}
  <2>1. PICK u : u = Trimmed(text)
    OBVIOUS
  <2>2. u = <<>> /\ u \in Seq(P) /\ Len(u) = 0
    BY <1>2, <1>4, <2>1, EmptySeq
  <2>3. \A i \in 1..n : text[i] = "NBSP"
    BY <1>3, <1>4
  <2>4. TrimsTo(text, n, u, 0)
    BY <1>1, <2>2, <2>3 DEF TrimsTo
  <2>5. QED
    BY <1>1, <2>1, <2>2, <2>4, Zenon
<1>5. CASE solid # {}
  <2>1. PICK m \in 1..n : m = Max(solid) /\ m \in solid /\ \A i \in solid : i <= m
    BY <1>3, <1>5, MaxOf
  <2>2. PICK u : u = SubSeq(text, 1, m)
    OBVIOUS
  <2>3. \A i \in 1..m : text[i] \in P
    BY <1>1, <2>1, ElementOfSeq
  <2>4. u \in Seq(P) /\ Len(u) = m /\ \A i \in 1..m : u[i] = text[i]
    <3>1. /\ u \in Seq(P) /\ Len(u) = (IF 1 <= m THEN m - 1 + 1 ELSE 0)
          /\ \A i \in 1..(m - 1 + 1) : u[i] = text[1 + i - 1]
      <4>1. 1 \in Int /\ m \in Int
        BY <2>1
      <4>2. QED
        BY <2>2, <2>3, <4>1, SubSeqProperties
    <3>2. (IF 1 <= m THEN m - 1 + 1 ELSE 0) = m /\ m - 1 + 1 = m /\ \A i \in 1..m : 1 + i - 1 = i
      BY <2>1
    <3>3. QED
      BY <3>1, <3>2
  <2>5. u[m] # "NBSP"
    BY <1>3, <2>1, <2>4
  <2>6. \A i \in (m + 1)..n : text[i] = "NBSP"
    <3>1. \A i \in (m + 1)..n : i \in 1..n /\ ~(i <= m)
      BY <1>1, <2>1
    <3>2. QED
      BY <1>3, <2>1, <3>1
  <2>7. TrimsTo(text, n, u, m)
    BY <1>1, <2>1, <2>4, <2>5, <2>6 DEF TrimsTo
  <2>8. Trimmed(text) = u
    BY <1>2, <1>5, <2>1, <2>2
  <2>9. QED
    BY <1>1, <2>4, <2>7, <2>8
<1>6. QED
  BY <1>4, <1>5

\* Nothing else has these properties.
LEMMA TrimmedOnly ==
  ASSUME NEW P, NEW text \in Seq(P), NEW u \in Seq(P), NEW n, NEW m, TrimsTo(text, n, u, m)
  PROVE  Trimmed(text) = u
<1>1. PICK t, l : t = Trimmed(text) /\ l = Len(t)
  OBVIOUS
<1>2. t \in Seq(P) /\ TrimsTo(text, n, t, l)
  <2>1. n = Len(text)
    BY DEF TrimsTo
  <2>2. QED
    BY <1>1, <2>1, TrimmedIs
<1>3. /\ n \in Nat /\ m \in 0..n /\ m = Len(u) /\ \A i \in 1..m : u[i] = text[i]
      /\ m # 0 => u[m] # "NBSP"
      /\ \A i \in (m + 1)..n : text[i] = "NBSP"
  BY DEF TrimsTo
<1>4. /\ l \in 0..n /\ \A i \in 1..l : t[i] = text[i]
      /\ l # 0 => t[l] # "NBSP"
      /\ \A i \in (l + 1)..n : text[i] = "NBSP"
  BY <1>2 DEF TrimsTo
<1>5. ~(l < m)
  <2>1. SUFFICES ASSUME l < m PROVE FALSE
    OBVIOUS
  <2>2. m \in (l + 1)..n /\ m \in 1..m /\ m # 0
    BY <1>3, <1>4, <2>1
  <2>3. QED
    BY <1>3, <1>4, <2>2
<1>6. ~(m < l)
  <2>1. SUFFICES ASSUME m < l PROVE FALSE
    OBVIOUS
  <2>2. l \in (m + 1)..n /\ l \in 1..l /\ l # 0
    BY <1>3, <1>4, <2>1
  <2>3. QED
    BY <1>3, <1>4, <2>2
<1>7. l = m
  BY <1>3, <1>4, <1>5, <1>6
<1>8. Len(t) = Len(u) /\ \A i \in 1..Len(t) : t[i] = u[i]
  BY <1>1, <1>3, <1>4, <1>7
<1>9. t = u
  BY <1>2, <1>8, SeqEqual
<1>10. QED
  BY <1>1, <1>9, Zenon

LEMMA NotEmpty ==
  ASSUME NEW P, NEW h \in Seq(P), NEW t \in Seq(P), h # <<>>
  PROVE  h \o t # <<>>
<1>1. PICK x : x = h \o t
  OBVIOUS
<1>2. x \in Seq(P) /\ Len(x) = Len(h) + Len(t) /\ Len(h) \in Nat \ {0} /\ Len(t) \in Nat
  BY <1>1, HeadOf, EmptySeq
<1>3. Len(x) # 0
  BY <1>2
<1>4. QED
  BY <1>1, <1>3, EmptySeq

\* The first text has an end of its own, which trimming what follows does not reach.
Stays(h, s, t) ==
  s = Len(h) /\ s # 0 /\ (h[s] # "NBSP" \/ Trimmed(t) # <<>>)

\* Trimming in front of which something solid stays trims what comes behind it.
LEMMA TrimStep ==
  ASSUME NEW P, NEW h \in Seq(P), NEW t \in Seq(P), NEW s, Stays(h, s, t)
  PROVE  Trimmed(h \o t) = h \o Trimmed(t)
<1>1. PICK u, m, n : u = Trimmed(t) /\ m = Len(u) /\ n = Len(t)
  OBVIOUS
<1>2. u \in Seq(P) /\ TrimsTo(t, n, u, m)
  BY <1>1, TrimmedIs
<1>3. /\ n \in Nat /\ m \in 0..n /\ \A i \in 1..m : u[i] = t[i]
      /\ m # 0 => u[m] # "NBSP"
      /\ \A i \in (m + 1)..n : t[i] = "NBSP"
  BY <1>2 DEF TrimsTo
<1>4. PICK x, y : x = h \o t /\ y = h \o u
  OBVIOUS
<1>5. s \in Nat \ {0} /\ s = Len(h) /\ (h[s] # "NBSP" \/ u # <<>>)
  BY <1>1, LenProperties DEF Stays
<1>6. /\ x \in Seq(P) /\ Len(x) = s + n /\ \A i \in 1..s : x[i] = h[i]
      /\ \A i \in 1..n : x[s + i] = t[i]
  <2>1. /\ x \in Seq(P) /\ Len(x) = Len(h) + Len(t) /\ \A i \in 1..Len(h) : x[i] = h[i]
        /\ \A i \in 1..Len(t) : x[Len(h) + i] = t[i]
    BY <1>4, HeadOf
  <2>2. QED
    BY <1>1, <1>5, <2>1
<1>7. /\ y \in Seq(P) /\ Len(y) = s + m /\ \A i \in 1..s : y[i] = h[i]
      /\ \A i \in 1..m : y[s + i] = u[i]
  <2>1. /\ y \in Seq(P) /\ Len(y) = Len(h) + Len(u) /\ \A i \in 1..Len(h) : y[i] = h[i]
        /\ \A i \in 1..Len(u) : y[Len(h) + i] = u[i]
    BY <1>2, <1>4, HeadOf
  <2>2. QED
    BY <1>1, <1>5, <2>1
<1>8. ASSUME NEW i \in 1..(s + m) PROVE y[i] = x[i]
  <2>1. CASE i <= s
    <3>1. i \in 1..s
      BY <1>5, <2>1
    <3>2. QED
      BY <1>6, <1>7, <3>1
  <2>2. CASE ~(i <= s)
    <3>1. PICK j \in 1..m : i = s + j
      <4>1. i - s \in 1..m /\ i = s + (i - s)
        BY <1>3, <1>5, <2>2
      <4>2. QED
        BY <4>1
    <3>2. j \in 1..n
      BY <1>3
    <3>3. QED
      BY <1>3, <1>6, <1>7, <3>1, <3>2
  <2>3. QED
    BY <2>1, <2>2
<1>9. y[s + m] # "NBSP"
  <2>1. CASE m = 0
    <3>1. u = <<>>
      BY <1>1, <1>2, <2>1, EmptySeq
    <3>2. h[s] # "NBSP" /\ s \in 1..s /\ s + m = s
      BY <1>1, <1>5, <2>1, <3>1
    <3>3. QED
      BY <1>7, <3>2
  <2>2. CASE m # 0
    <3>1. m \in 1..m
      BY <1>3, <2>2
    <3>2. QED
      BY <1>3, <1>7, <2>2, <3>1
  <2>3. QED
    BY <2>1, <2>2
<1>10. ASSUME NEW i \in (s + m + 1)..(s + n) PROVE x[i] = "NBSP"
  <2>1. PICK j \in (m + 1)..n : i = s + j
    <3>1. i - s \in (m + 1)..n /\ i = s + (i - s)
      BY <1>3, <1>5
    <3>2. QED
      BY <3>1
  <2>2. j \in 1..n
    BY <1>3
  <2>3. QED
    BY <1>3, <1>6, <2>1, <2>2
<1>11. s + n \in Nat /\ s + m \in 0..(s + n)
  BY <1>3, <1>5
<1>12. TrimsTo(x, s + n, y, s + m)
  BY <1>6, <1>7, <1>8, <1>9, <1>10, <1>11 DEF TrimsTo
<1>13. Trimmed(x) = y
  BY <1>6, <1>7, <1>12, TrimmedOnly
<1>14. QED
  BY <1>1, <1>4, <1>13, Zenon

LEMMA TrimNone ==
  ASSUME NEW P, "NBSP" \in P, NEW t \in Seq(P), Trimmed(t) = <<>>
  PROVE  Trimmed(<<"NBSP">> \o t) = <<>>
<1>1. PICK h, n : h = <<"NBSP">> /\ n = Len(t)
  OBVIOUS
<1>2. h \in Seq(P) /\ Len(h) = 1 /\ h[1] = "NBSP"
  BY <1>1, WordsType
<1>3. PICK u, m : u = Trimmed(t) /\ m = Len(u)
  OBVIOUS
<1>4. u = <<>> /\ u \in Seq(P) /\ m = 0 /\ TrimsTo(t, n, u, m)
  BY <1>1, <1>3, EmptySeq, TrimmedIs
<1>5. n \in Nat /\ \A i \in 1..n : t[i] = "NBSP"
  <2>1. n \in Nat /\ \A i \in (m + 1)..n : t[i] = "NBSP"
    BY <1>4 DEF TrimsTo
  <2>2. QED
    BY <1>4, <2>1
<1>6. PICK x : x = h \o t
  OBVIOUS
<1>7. /\ x \in Seq(P) /\ Len(x) = 1 + n /\ x[1] = "NBSP"
      /\ \A i \in 1..n : x[1 + i] = t[i]
  <2>1. /\ x \in Seq(P) /\ Len(x) = Len(h) + Len(t) /\ \A i \in 1..Len(h) : x[i] = h[i]
        /\ \A i \in 1..Len(t) : x[Len(h) + i] = t[i]
    <3>1. h \in Seq(P)
      BY <1>2
    <3>2. QED
      BY <1>6, <3>1, HeadOf
  <2>2. QED
    BY <1>1, <1>2, <2>1
<1>8. ASSUME NEW i \in 1..(1 + n) PROVE x[i] = "NBSP"
  <2>1. CASE i = 1
    BY <1>7, <2>1
  <2>2. CASE i # 1
    <3>1. PICK j \in 1..n : i = 1 + j
      <4>1. i - 1 \in 1..n /\ i = 1 + (i - 1)
        BY <1>5, <2>2
      <4>2. QED
        BY <4>1
    <3>2. QED
      BY <1>5, <1>7, <3>1
  <2>3. QED
    BY <2>1, <2>2
<1>9. PICK l \in Nat : l = 1 + n
  BY <1>5
<1>10. TrimsTo(x, l, u, 0)
  <2>1. /\ l = Len(x) /\ 0 = Len(u) /\ 0 \in 0..l /\ 1..0 = {}
        /\ \A i \in (0 + 1)..l : x[i] = "NBSP"
    BY <1>3, <1>4, <1>7, <1>8, <1>9
  <2>2. QED
    BY <2>1 DEF TrimsTo
<1>11. Trimmed(x) = u
  BY <1>4, <1>7, <1>10, TrimmedOnly
<1>12. QED
  BY <1>1, <1>4, <1>6, <1>11, Zenon

\* What strip() takes from the end of an escaped value (decode_record, wire.py 56) it
\* takes from the value: no escape ends in white space, nor loses half of itself.
THEOREM TrimmedTrip ==
  ASSUME NEW P, NEW v \in Seq(P)
  PROVE  unescape(Trimmed(escape(v))) = Trimmed(v)
<1> DEFINE Q == P \cup (Raws \cup Letters \cup {"NBSP"})
           n == Len(v)
<1>1. /\ Wired(Q) /\ v \in Seq(Q) /\ Raws \subseteq Q /\ Backslash \in Q /\ "NBSP" \in Q
      /\ n \in Nat /\ \A i \in 1..n : v[i] \in Q
  <2>1. Raws \subseteq Q /\ Letters \subseteq Q /\ P \subseteq Q /\ "NBSP" \in Q
    OBVIOUS
  <2> HIDE DEF Q
  <2>2. v \in Seq(Q)
    BY <2>1, SeqMonotonic
  <2>3. Wired(Q)
    BY <2>1 DEF Wired
  <2>4. Backslash \in Q
    BY <2>3, WiredHas
  <2>5. QED
    BY <2>1, <2>2, <2>3, <2>4, LenProperties, ElementOfSeq
<1> HIDE DEF Q
<1>2. PICK g : Spelled(Q, 11, v, g) /\ escape(v) = g[1]
  BY <1>1, EscapeSpells
<1>3. PICK t : Spelled(Q, 0, v, t) /\ t[1] = v
  BY <1>1, SpelledFirst
<1>4. /\ g \in [1..(n + 1) -> Seq(Q)] /\ g[n + 1] = <<>>
      /\ \A i \in 1..n : g[i] = Spelling(11, v[i]) \o g[i + 1]
  BY <1>2 DEF Spelled
<1>5. /\ t \in [1..(n + 1) -> Seq(Q)] /\ t[n + 1] = <<>>
      /\ \A i \in 1..n : t[i] = <<v[i]>> \o t[i + 1]
  <2>1. \A c : Spelling(0, c) = <<c>>
    BY DEF Spelling
  <2>2. QED
    BY <1>3, <2>1 DEF Spelled
<1> DEFINE Agree(i) == /\ Trimmed(g[i]) = <<>> <=> Trimmed(t[i]) = <<>>
                       /\ unescape(Trimmed(g[i])) = Trimmed(t[i])
<1>6. ASSUME NEW i \in 1..n, NEW j, j = i + 1, Agree(j) PROVE Agree(i)
  <2>1. PICK c \in Q : c = v[i]
    BY <1>1
  <2>2. PICK a, b \in Seq(Q) : a = g[j] /\ b = t[j]
    BY <1>1, <1>4, <1>5, <1>6
  <2>3. PICK x, y : x = Trimmed(a) /\ y = Trimmed(b)
    OBVIOUS
  <2>4. x \in Seq(Q) /\ y \in Seq(Q) /\ (x = <<>> <=> y = <<>>) /\ unescape(x) = y
    BY <1>6, <2>2, <2>3, TrimmedIs
  <2>5. g[i] = Spelling(11, c) \o a /\ t[i] = <<c>> \o b
    BY <1>4, <1>5, <1>6, <2>1, <2>2
  <2>6. CASE c = "NBSP" /\ y = <<>>
    <3>1. Spelling(11, c) = <<c>>
      BY <2>6, EscapesSolid DEF Spelling
    <3>2. Trimmed(<<"NBSP">> \o a) = <<>> /\ Trimmed(<<"NBSP">> \o b) = <<>>
      BY <1>1, <2>3, <2>4, <2>6, TrimNone
    <3>3. Trimmed(g[i]) = <<>> /\ Trimmed(t[i]) = <<>>
      BY <2>5, <2>6, <3>1, <3>2
    <3>4. unescape(<<>>) = <<>>
      BY <1>1, EmptySeq, UnescapeOne
    <3>5. QED
      BY <3>3, <3>4
  <2>7. CASE ~(c = "NBSP" /\ y = <<>>)
    <3>1. PICK h, w : h = Spelling(11, c) /\ w = <<c>>
      OBVIOUS
    <3>2. w \in Seq(Q) /\ Len(w) = 1 /\ w[1] = c /\ w # <<>>
      BY <3>1, WordsType, EmptySeq
    <3>3. Trimmed(w \o b) = w \o y
      <4>1. Stays(w, 1, b)
        BY <2>3, <2>7, <3>2 DEF Stays
      <4>2. QED
        BY <2>3, <3>2, <4>1, TrimStep
    <3>4. w \o y # <<>>
      BY <2>4, <3>2, NotEmpty
    <3>5. CASE \E k \in 1..11 : Escapes[k][1] = c
      <4>1. PICK k \in 1..11 : Escapes[k][1] = c
        BY <3>5
      <4>2. PICK l \in Q : l = Escapes[k][2] /\ l # "NBSP"
        <5>1. Escapes[k][2] \in Q
          BY <1>1, WiredHas
        <5>2. Escapes[k][2] # "NBSP"
          BY EscapesSolid
        <5>3. QED
          BY <5>1, <5>2
      <4>3. h = <<Backslash, l>>
        BY <1>1, <3>1, <4>1, <4>2, WiredHas DEF Spelling
      <4>4. h \in Seq(Q) /\ Len(h) = 2 /\ h[2] # "NBSP" /\ h # <<>>
        BY <1>1, <4>2, <4>3, WordsType, EmptySeq
      <4>5. Trimmed(h \o a) = h \o x
        <5>1. Stays(h, 2, a)
          BY <4>4 DEF Stays
        <5>2. QED
          BY <2>3, <4>4, <5>1, TrimStep
      <4>6. h \o x # <<>>
        BY <2>4, <4>4, NotEmpty
      <4>7. unescape(h \o x) = w \o y
        <5>1. k \in DOMAIN Escapes
          BY EscapesDiffer
        <5>2. unescape(<<Backslash, Escapes[k][2]>> \o x) = <<Escapes[k][1]>> \o unescape(x)
          BY <1>1, <2>4, <4>2, <5>1, UnescapeOne
        <5>3. QED
          BY <2>4, <3>1, <4>1, <4>2, <4>3, <5>2, Zenon
      <4>8. QED
        BY <2>5, <3>1, <3>3, <3>4, <4>5, <4>6, <4>7, Zenon
    <3>6. CASE ~\E k \in 1..11 : Escapes[k][1] = c
      <4>1. h = w /\ c # Backslash
        BY <3>1, <3>6, EscapesDiffer DEF Spelling
      <4>2. Trimmed(w \o a) = w \o x
        <5>1. Stays(w, 1, a)
          BY <2>3, <2>4, <2>7, <3>2 DEF Stays
        <5>2. QED
          BY <2>3, <3>2, <5>1, TrimStep
      <4>3. w \o x # <<>>
        BY <2>4, <3>2, NotEmpty
      <4>4. unescape(w \o x) = w \o y
        <5>1. unescape(<<c>> \o x) = <<c>> \o unescape(x)
          BY <1>1, <2>4, <4>1, UnescapeOne
        <5>2. QED
          BY <2>4, <3>1, <5>1, Zenon
      <4>5. QED
        BY <2>5, <3>1, <3>3, <3>4, <4>1, <4>2, <4>3, <4>4, Zenon
    <3>7. QED
      BY <3>5, <3>6
  <2>8. QED
    BY <2>6, <2>7
<1>7. Agree(n + 1)
  <2>1. Trimmed(<<>>) = <<>>
    BY DEF Trimmed
  <2>2. unescape(<<>>) = <<>>
    BY <1>1, EmptySeq, UnescapeOne
  <2>3. QED
    BY <1>4, <1>5, <2>1, <2>2, Zenon
<1> HIDE DEF Agree
<1> DEFINE S == {i \in 1..(n + 1) : ~Agree(i)}
<1>8. ASSUME S # {} PROVE FALSE
  <2>1. PICK m \in S : \A i \in S : i <= m
    <3>1. S \subseteq 1..(n + 1) /\ n + 1 \in Nat
      BY <1>1
    <3> HIDE DEF S
    <3>2. QED
      BY <1>8, <3>1, GreatestOf
  <2>2. m \in 1..(n + 1) /\ ~Agree(m)
    OBVIOUS
  <2>3. m # n + 1
    BY <1>7, <2>2
  <2>4. PICK j \in 1..(n + 1) : j = m + 1 /\ m \in 1..n /\ ~(j <= m)
    <3>1. m + 1 \in 1..(n + 1) /\ m \in 1..n /\ ~(m + 1 <= m)
      BY <1>1, <2>2, <2>3
    <3>2. QED
      BY <3>1
  <2>5. j \notin S
    <3> HIDE DEF S
    <3>1. QED
      BY <2>1, <2>4
  <2>6. Agree(j)
    BY <2>5
  <2>7. QED
    BY <1>6, <2>2, <2>4, <2>6
<1>9. 1 \in 1..(n + 1)
  BY <1>1
<1>10. Agree(1)
  BY <1>8, <1>9
<1>11. QED
  BY <1>2, <1>3, <1>10 DEF Agree

-----------------------------------------------------------------------------
(* strip() takes nothing but the end of the last part.                     *)

\* A text of length n begins with no white space and has it only behind place m.
SolidTo(text, n, m) ==
  /\ n = Len(text) /\ n \in Nat /\ m \in 1..n
  /\ text[1] \notin Whitespace /\ text[m] \notin Whitespace
  /\ \A i \in (m + 1)..n : text[i] \in Whitespace

LEMMA StripIs ==
  ASSUME NEW P, NEW text \in Seq(P), NEW n, NEW m, SolidTo(text, n, m)
  PROVE  /\ Strip(text) \in Seq(P) /\ Len(Strip(text)) = m
         /\ \A i \in 1..m : Strip(text)[i] = text[i]
<1> DEFINE solid == {i \in DOMAIN text : text[i] \notin Whitespace}
<1>1. /\ n = Len(text) /\ n \in Nat /\ m \in 1..n /\ DOMAIN text = 1..n
      /\ text[1] \notin Whitespace /\ text[m] \notin Whitespace
      /\ \A i \in (m + 1)..n : text[i] \in Whitespace
  BY LenProperties DEF SolidTo
<1>2. Strip(text) = IF solid = {} THEN <<>> ELSE SubSeq(text, Min(solid), Max(solid))
  BY DEF Strip
<1>3. 1 \in solid /\ m \in solid /\ solid \subseteq 1..n /\ solid \subseteq Nat
  BY <1>1
<1>4. \A i \in solid : i <= m
  <2>1. \A i \in 1..n : i <= m \/ i \in (m + 1)..n
    BY <1>1
  <2>2. QED
    BY <1>1, <2>1
<1> HIDE DEF solid
<1>5. Min(solid) = 1
  <2>1. Min(solid) \in solid /\ Min(solid) <= 1
    BY <1>3, MinOf
  <2>2. PICK b : b = Min(solid)
    OBVIOUS
  <2>3. b \in 1..n /\ b <= 1
    BY <1>3, <2>1, <2>2
  <2>4. b = 1
    BY <1>1, <2>3
  <2>5. QED
    BY <2>2, <2>4
<1>6. Max(solid) = m
  <2>1. Max(solid) \in solid /\ m <= Max(solid)
    BY <1>1, <1>3, MaxOf
  <2>2. Max(solid) \in Nat /\ Max(solid) <= m
    BY <1>3, <1>4, <2>1
  <2>3. QED
    BY <1>1, <2>1, <2>2
<1>7. PICK u : u = SubSeq(text, 1, m)
  OBVIOUS
<1>8. Strip(text) = u
  BY <1>2, <1>3, <1>5, <1>6, <1>7
<1>9. \A i \in 1..m : text[i] \in P
  BY <1>1, ElementOfSeq
<1>10. u \in Seq(P) /\ Len(u) = m /\ \A i \in 1..m : u[i] = text[i]
  <2>1. /\ u \in Seq(P) /\ Len(u) = (IF 1 <= m THEN m - 1 + 1 ELSE 0)
        /\ \A i \in 1..(m - 1 + 1) : u[i] = text[1 + i - 1]
    <3>1. 1 \in Int /\ m \in Int
      BY <1>1
    <3>2. QED
      BY <1>7, <1>9, <3>1, SubSeqProperties
  <2>2. (IF 1 <= m THEN m - 1 + 1 ELSE 0) = m /\ m - 1 + 1 = m /\ \A i \in 1..m : 1 + i - 1 = i
    BY <1>1
  <2>3. QED
    BY <2>1, <2>2
<1>11. QED
  BY <1>8, <1>10

\* A record on the wire: its parts begin with no white space, and the last one, h \o x,
\* can end with it only in x.
Open(parts, n, h, s, x) ==
  /\ n = Len(parts) /\ parts # <<>> /\ parts[n] = h \o x
  /\ parts[1] # <<>> /\ parts[1][1] \notin Whitespace
  /\ s = Len(h) /\ s # 0 /\ h[s] \notin Whitespace
  /\ \A i \in DOMAIN x : x[i] \in Whitespace => x[i] = "NBSP"

\* strip() shortens the last part.
LEMMA StripLayout ==
  ASSUME NEW P, NEW c, NEW text \in Seq(P), NEW parts \in Seq(Seq(P)),
         NEW at, Layout(text, parts, c, at),
         NEW n, NEW h \in Seq(P), NEW s, NEW x \in Seq(P), Open(parts, n, h, s, x),
         NEW part, part = h \o Trimmed(x)
  PROVE  /\ Strip(text) \in Seq(P)
         /\ \E place : Layout(Strip(text), [parts EXCEPT ![n] = part], c, place)
<1>1. /\ n = Len(parts) /\ n \in Nat \ {0} /\ DOMAIN parts = 1..n
      /\ \A k \in 1..n : parts[k] \in Seq(P) /\ Len(parts[k]) \in Nat
  <2>1. n = Len(parts) /\ parts # <<>>
    BY DEF Open
  <2>2. Len(parts) \in Nat \ {0}
    BY <2>1, EmptySeq
  <2>3. \A k \in 1..n : parts[k] \in Seq(P)
    BY <2>1, ElementOfSeq
  <2>4. \A k \in 1..n : Len(parts[k]) \in Nat
    BY <2>3, LenProperties
  <2>5. QED
    BY <2>1, <2>2, <2>3, <2>4, LenProperties
<1>2. /\ parts[n] = h \o x /\ parts[1] # <<>> /\ parts[1][1] \notin Whitespace
      /\ s = Len(h) /\ s # 0 /\ h[s] \notin Whitespace
      /\ \A i \in DOMAIN x : x[i] \in Whitespace => x[i] = "NBSP"
  BY DEF Open
<1>3. PICK l \in [1..n -> Nat] : \A k \in 1..n : l[k] = Len(parts[k])
  <2>1. [k \in 1..n |-> Len(parts[k])] \in [1..n -> Nat]
    BY <1>1
  <2>2. QED
    BY <2>1
<1>4. PICK u, z, m : u = Trimmed(x) /\ z = Len(x) /\ m = Len(u)
  OBVIOUS
<1>5. u \in Seq(P) /\ TrimsTo(x, z, u, m)
  BY <1>4, TrimmedIs
<1>6. /\ z \in Nat /\ m \in 0..z /\ DOMAIN x = 1..z /\ \A i \in 1..m : u[i] = x[i]
      /\ m # 0 => u[m] # "NBSP"
      /\ \A i \in (m + 1)..z : x[i] = "NBSP"
  BY <1>4, <1>5, LenProperties DEF TrimsTo
<1>7. s \in Nat \ {0}
  BY <1>2, LenProperties
<1>8. /\ l[n] = s + z /\ \A i \in 1..s : parts[n][i] = h[i]
      /\ \A i \in 1..z : parts[n][s + i] = x[i]
  <2>1. PICK p : p = parts[n]
    OBVIOUS
  <2>2. /\ Len(p) = Len(h) + Len(x) /\ \A i \in 1..Len(h) : p[i] = h[i]
        /\ \A i \in 1..Len(x) : p[Len(h) + i] = x[i]
    BY <1>2, <2>1, HeadOf
  <2>3. n \in 1..n
    BY <1>1
  <2>4. QED
    BY <1>2, <1>3, <1>4, <2>1, <2>2, <2>3
<1>9. /\ part \in Seq(P) /\ Len(part) = s + m /\ \A i \in 1..s : part[i] = h[i]
      /\ \A i \in 1..m : part[s + i] = u[i]
  <2>1. /\ part \in Seq(P) /\ Len(part) = Len(h) + Len(u) /\ \A i \in 1..Len(h) : part[i] = h[i]
        /\ \A i \in 1..Len(u) : part[Len(h) + i] = u[i]
    <3>1. part = h \o u
      BY <1>4
    <3>2. QED
      BY <1>5, <3>1, HeadOf
  <2>2. QED
    BY <1>2, <1>4, <2>1
<1>10. /\ at \in [1..(n + 1) -> Nat \ {0}] /\ at[1] = 1 /\ at[n + 1] = Len(text) + 2
       /\ \A k \in 1..n :
            /\ at[k + 1] = at[k] + l[k] + 1
            /\ \A q \in 1..l[k] : text[at[k] + q - 1] = parts[k][q]
            /\ k < n => text[at[k + 1] - 1] = c
  BY <1>1, <1>3 DEF Layout
\* The last part begins at a; the text keeps its first end characters.
<1>11. PICK a \in Nat \ {0} : a = at[n] /\ Len(text) = a + s + z - 1
  <2>1. n \in 1..(n + 1) /\ n \in 1..n
    BY <1>1
  <2>2. at[n] \in Nat \ {0} /\ at[n + 1] = at[n] + (s + z) + 1 /\ Len(text) \in Nat
    BY <1>8, <1>10, <2>1, LenProperties
  <2>3. PICK a \in Nat \ {0}, b \in Nat : a = at[n] /\ b = Len(text)
    BY <2>2
  <2>4. b + 2 = a + (s + z) + 1
    BY <1>10, <2>2, <2>3
  <2>5. b = a + s + z - 1
    BY <1>6, <1>7, <2>4
  <2>6. QED
    BY <2>3, <2>5
<1>12. PICK end \in Nat : end = a + s + m - 1
  BY <1>6, <1>7
<1>13. /\ \A i \in 1..s : text[a + i - 1] = h[i]
       /\ \A i \in 1..z : text[a + s + i - 1] = x[i]
  <2>1. n \in 1..n
    BY <1>1
  <2>2. \A q \in 1..(s + z) : text[a + q - 1] = parts[n][q]
    BY <1>8, <1>10, <1>11, <2>1
  <2>3. \A i \in 1..s : i \in 1..(s + z)
    BY <1>6, <1>7
  <2>4. \A i \in 1..z : s + i \in 1..(s + z) /\ a + (s + i) - 1 = a + s + i - 1
    BY <1>6, <1>7
  <2>5. \A i \in 1..z : text[a + (s + i) - 1] = parts[n][s + i]
    BY <2>2, <2>4
  <2>6. QED
    BY <1>8, <2>2, <2>3, <2>4, <2>5
<1>14. text[1] \notin Whitespace
  <2>1. 1 \in 1..n /\ 1 \in 1..l[1]
    <3>1. 1 \in 1..n
      BY <1>1
    <3>2. parts[1] \in Seq(P) /\ Len(parts[1]) \in Nat \ {0}
      BY <1>1, <1>2, <3>1, EmptySeq
    <3>3. QED
      BY <1>3, <3>1, <3>2
  <2>2. text[at[1] + 1 - 1] = parts[1][1] /\ at[1] + 1 - 1 = 1
    BY <1>10, <2>1
  <2>3. QED
    BY <1>2, <2>2
<1>15. text[end] \notin Whitespace
  <2>1. CASE m = 0
    <3>1. s \in 1..s /\ end = a + s - 1
      BY <1>7, <1>12, <2>1
    <3>2. QED
      BY <1>2, <1>13, <3>1
  <2>2. CASE m # 0
    <3>1. m \in 1..z /\ m \in 1..m
      BY <1>6, <2>2
    <3>2. x[m] # "NBSP" /\ x[m] \notin Whitespace
      BY <1>2, <1>6, <2>2, <3>1
    <3>3. QED
      BY <1>12, <1>13, <3>1, <3>2
  <2>3. QED
    BY <2>1, <2>2
<1>16. ASSUME NEW i \in (end + 1)..Len(text) PROVE text[i] \in Whitespace
  <2>1. PICK j \in (m + 1)..z : i = a + s + j - 1
    <3>1. i \in (end + 1)..(a + s + z - 1)
      BY <1>11
    <3>2. PICK j \in Int : j = i + 1 - a - s
      BY <1>7, <1>12, <3>1
    <3>3. j \in (m + 1)..z /\ i = a + s + j - 1
      BY <1>6, <1>7, <1>12, <3>1, <3>2
    <3>4. QED
      BY <3>3
  <2>2. j \in 1..z
    BY <1>6
  <2>3. text[i] = "NBSP"
    BY <1>6, <1>13, <2>1, <2>2
  <2>4. QED
    BY <2>3 DEF Whitespace
<1>17. PICK length \in Nat : length = Len(text) /\ end \in 1..length
  <2>1. a + s + z - 1 \in Nat /\ end \in 1..(a + s + z - 1)
    BY <1>6, <1>7, <1>12
  <2>2. QED
    BY <1>11, <2>1
<1>18. SolidTo(text, length, end)
  BY <1>14, <1>15, <1>16, <1>17 DEF SolidTo
<1>19. PICK stripped : /\ stripped = Strip(text) /\ stripped \in Seq(P) /\ Len(stripped) = end
                       /\ \A i \in 1..end : stripped[i] = text[i]
  BY <1>18, StripIs
<1> DEFINE place == [at EXCEPT ![n + 1] = end + 2]
           shorter == [parts EXCEPT ![n] = part]
<1>20. /\ \A k \in 1..n : place[k] = at[k]
       /\ place[n + 1] = end + 2 /\ place \in [1..(n + 1) -> Nat \ {0}]
  <2>1. \A k \in 1..n : k \in 1..(n + 1) /\ k # n + 1
    BY <1>1
  <2>2. n + 1 \in 1..(n + 1) /\ end + 2 \in Nat \ {0}
    BY <1>1
  <2>3. QED
    BY <1>10, <2>1, <2>2
<1>21. /\ \A k \in 1..n : shorter[k] = IF k = n THEN part ELSE parts[k]
       /\ Len(shorter) = n
  <2>1. \A k \in 1..n : shorter[k] = IF k = n THEN part ELSE parts[k]
    BY <1>1
  <2>2. shorter \in [1..n -> Seq(P)]
    <3>1. shorter = [k \in 1..n |-> shorter[k]]
      BY <1>1
    <3>2. \A k \in 1..n : shorter[k] \in Seq(P)
      BY <1>1, <1>9, <2>1
    <3> HIDE DEF shorter
    <3>3. QED
      BY <3>1, <3>2
  <2> HIDE DEF shorter
  <2>3. shorter \in Seq(Seq(P))
    <3>1. \E j \in Nat : shorter \in [1..j -> Seq(P)]
      BY <1>1, <2>2
    <3>2. QED
      BY <3>1, SeqDef
  <2>4. Len(shorter) = n
    BY <1>1, <2>2, <2>3, LenProperties
  <2>5. QED
    BY <2>1, <2>4
<1> HIDE DEF place, shorter
\* Up to the last part nothing moves.
<1>22. \A k \in 1..n : at[k] <= a
  <2> DEFINE B == {k \in 1..n : ~(at[k] <= a)}
  <2>1. ASSUME B # {} PROVE FALSE
    <3>1. PICK k \in B : \A i \in B : i <= k
      <4>1. B \subseteq 1..n
        OBVIOUS
      <4> HIDE DEF B
      <4>2. QED
        BY <1>1, <2>1, <4>1, GreatestOf
    <3>2. k \in 1..n /\ ~(at[k] <= a)
      OBVIOUS
    <3>3. k # n
      BY <1>11, <3>2
    <3>4. PICK j \in 1..n : j = k + 1 /\ ~(j <= k)
      <4>1. k + 1 \in 1..n /\ ~(k + 1 <= k)
        BY <1>1, <3>2, <3>3
      <4>2. QED
        BY <4>1
    <3>5. j \notin B
      <4> HIDE DEF B
      <4>1. QED
        BY <3>1, <3>4
    <3>6. at[j] <= a /\ at[j] = at[k] + l[k] + 1
      BY <1>10, <3>2, <3>4, <3>5
    <3>7. at[j] \in Nat /\ at[k] \in Nat /\ l[k] \in Nat
      <4>1. j \in 1..(n + 1) /\ k \in 1..(n + 1)
        BY <1>1
      <4>2. QED
        BY <1>10, <4>1
    <3>8. PICK y \in Nat, w \in Nat, v \in Nat : y = at[j] /\ w = at[k] /\ v = l[k]
      BY <3>7
    <3>9. y <= a /\ y = w + v + 1 /\ ~(w <= a)
      BY <3>2, <3>6, <3>8
    <3>10. QED
      BY <3>9
  <2>2. QED
    BY <2>1
<1>23. ASSUME NEW k \in 1..n, k # n
       PROVE  /\ place[k + 1] = place[k] + Len(shorter[k]) + 1
              /\ place[k] + Len(shorter[k]) <= end + 1
              /\ \A q \in 1..Len(shorter[k]) : stripped[place[k] + q - 1] = shorter[k][q]
              /\ stripped[place[k + 1] - 1] = c
  <2>1. PICK j \in 1..n : j = k + 1
    BY <1>1, <1>23
  <2>2. PICK b \in Nat \ {0}, d \in Nat, e \in Nat : b = at[k] /\ d = l[k] /\ e = at[j]
    <3>1. k \in 1..(n + 1) /\ j \in 1..(n + 1)
      BY <1>1
    <3>2. at[k] \in Nat \ {0} /\ at[j] \in Nat /\ l[k] \in Nat
      BY <1>10, <3>1
    <3>3. QED
      BY <3>2
  <2>3. k < n
    BY <1>1, <1>23
  <2>4. /\ e = b + d + 1 /\ text[e - 1] = c /\ e <= a
        /\ \A q \in 1..d : text[b + q - 1] = parts[k][q]
    BY <1>10, <1>22, <2>1, <2>2, <2>3
  <2>5. e - 1 \in 1..end /\ \A q \in 1..d : b + q - 1 \in 1..end
    BY <1>7, <1>6, <1>12, <2>4
  <2>9. b + d <= end + 1
    BY <2>4, <2>5
  <2>6. stripped[e - 1] = c /\ \A q \in 1..d : stripped[b + q - 1] = parts[k][q]
    BY <1>19, <2>4, <2>5
  <2>7. shorter[k] = parts[k] /\ Len(parts[k]) = d /\ place[k] = b /\ place[k + 1] = e
    BY <1>3, <1>20, <1>21, <1>23, <2>1, <2>2
  <2>8. QED
    BY <2>4, <2>6, <2>7, <2>9
<1>24. /\ place[n + 1] = place[n] + Len(shorter[n]) + 1
       /\ place[n] + Len(shorter[n]) <= end + 1
       /\ \A q \in 1..Len(shorter[n]) : stripped[place[n] + q - 1] = shorter[n][q]
  <2>1. n \in 1..n
    BY <1>1
  <2>2. shorter[n] = part /\ Len(part) = s + m /\ place[n] = a
    BY <1>9, <1>11, <1>20, <1>21, <2>1
  <2>3. end + 2 = a + (s + m) + 1 /\ a + (s + m) <= end + 1
    BY <1>6, <1>7, <1>12
  <2>4. ASSUME NEW q \in 1..(s + m) PROVE stripped[a + q - 1] = part[q]
    <3>1. a + q - 1 \in 1..end
      BY <1>6, <1>7, <1>12
    <3>2. CASE q <= s
      <4>1. q \in 1..s
        BY <1>7, <3>2
      <4>2. QED
        BY <1>9, <1>13, <1>19, <3>1, <4>1
    <3>3. CASE ~(q <= s)
      <4>1. PICK j \in 1..m : q = s + j
        <5>1. q - s \in 1..m /\ q = s + (q - s)
          BY <1>6, <1>7, <3>3
        <5>2. QED
          BY <5>1
      <4>2. j \in 1..z /\ a + q - 1 = a + s + j - 1
        BY <1>6, <1>7, <4>1
      <4>3. text[a + q - 1] = x[j] /\ part[q] = u[j] /\ u[j] = x[j]
        BY <1>6, <1>9, <1>13, <4>1, <4>2
      <4>4. QED
        BY <1>19, <3>1, <4>3
    <3>4. QED
      BY <3>2, <3>3
  <2>5. QED
    BY <1>20, <2>2, <2>3, <2>4
<1>25. Layout(stripped, shorter, c, place)
  <2>1. place[1] = 1
    <3>1. 1 \in 1..n
      BY <1>1
    <3>2. QED
      BY <1>10, <1>20, <3>1
  <2>2. ASSUME NEW k \in 1..n
        PROVE  /\ place[k + 1] = place[k] + Len(shorter[k]) + 1
               /\ place[k] + Len(shorter[k]) <= Len(stripped) + 1
               /\ \A q \in 1..Len(shorter[k]) : stripped[place[k] + q - 1] = shorter[k][q]
               /\ k < n => stripped[place[k + 1] - 1] = c
    <3>1. CASE k = n
      <4>1. ~(k < n)
        BY <1>1, <3>1
      <4>2. QED
        BY <1>19, <1>24, <3>1, <4>1
    <3>2. CASE k # n
      BY <1>19, <1>23, <3>2
    <3>3. QED
      BY <3>1, <3>2
  <2>3. QED
    BY <1>19, <1>20, <1>21, <2>1, <2>2 DEF Layout
<1>26. QED
  BY <1>19, <1>25 DEF shorter

-----------------------------------------------------------------------------
(* A record, from the host's encoding to decode_record.                    *)

\* key=text
Entry(key, text) == key \o <<"=">> \o text

LEMMA EntryIs ==
  ASSUME NEW P, Raws \subseteq P, "=" \in P, NEW key \in Seq(P), NEW text \in Seq(P),
         \A i \in DOMAIN key : key[i] # "=", NEW chunk, chunk = Entry(key, text)
  PROVE  /\ chunk \in Seq(P) /\ chunk # <<>> /\ Positions(chunk, "=") # {}
         /\ Key(chunk) = key /\ Value(chunk) = unescape(text)
<1>1. PICK h, s, e : h = key \o <<"=">> /\ s = Len(key) /\ e = <<"=">>
  OBVIOUS
<1>2. e \in Seq(P) /\ Len(e) = 1 /\ e[1] = "=" /\ e # <<>>
  BY <1>1, WordsType, EmptySeq
<1>3. s \in Nat /\ DOMAIN key = 1..s
  BY <1>1, LenProperties
<1>4. /\ h \in Seq(P) /\ Len(h) = s + 1 /\ \A i \in 1..s : h[i] = key[i]
      /\ h[s + 1] = "="
  <2>1. /\ h \in Seq(P) /\ Len(h) = Len(key) + Len(e) /\ \A i \in 1..Len(key) : h[i] = key[i]
        /\ \A i \in 1..Len(e) : h[Len(key) + i] = e[i]
    BY <1>1, <1>2, HeadOf
  <2>2. 1 \in 1..Len(e)
    BY <1>2
  <2>3. QED
    BY <1>1, <1>2, <2>1, <2>2
<1>5. PICK z \in Nat : z = Len(text)
  BY LenProperties
<1>6. /\ chunk \in Seq(P) /\ Len(chunk) = (s + 1) + z /\ \A i \in 1..(s + 1) : chunk[i] = h[i]
      /\ \A i \in 1..z : chunk[(s + 1) + i] = text[i]
  <2>1. chunk = h \o text
    BY <1>1 DEF Entry
  <2>2. /\ chunk \in Seq(P) /\ Len(chunk) = Len(h) + Len(text)
        /\ \A i \in 1..Len(h) : chunk[i] = h[i]
        /\ \A i \in 1..Len(text) : chunk[Len(h) + i] = text[i]
    BY <1>4, <2>1, HeadOf
  <2>3. QED
    BY <1>4, <1>5, <2>2
<1>7. PICK n \in Nat : n = Len(chunk) /\ n = s + 1 + z /\ DOMAIN chunk = 1..n
  <2>1. Len(chunk) = s + 1 + z /\ Len(chunk) \in Nat
    BY <1>3, <1>5, <1>6
  <2>2. QED
    BY <1>6, <2>1, LenProperties
<1>8. /\ \A i \in 1..s : chunk[i] = key[i] /\ chunk[i] # "="
      /\ chunk[s + 1] = "=" /\ s + 1 \in 1..n
  <2>1. \A i \in 1..s : i \in 1..(s + 1)
    BY <1>3
  <2>2. s + 1 \in 1..(s + 1) /\ s + 1 \in 1..n
    BY <1>3, <1>5, <1>7
  <2>3. QED
    BY <1>3, <1>4, <1>6, <2>1, <2>2
<1> DEFINE at == Positions(chunk, "=")
<1>9. s + 1 \in at /\ at \subseteq Nat /\ \A i \in at : ~(i < s + 1)
  <2>1. at = {i \in 1..n : chunk[i] = "="}
    BY <1>7 DEF Positions
  <2>2. \A i \in 1..n : i < s + 1 => i \in 1..s
    BY <1>3
  <2>3. QED
    BY <1>8, <2>1, <2>2
<1> HIDE DEF at
<1>10. Min(at) = s + 1 /\ at # {}
  <2>1. PICK m : m = Min(at)
    OBVIOUS
  <2>2. m \in at /\ m <= s + 1
    BY <1>9, <2>1, MinOf
  <2>3. m \in Nat /\ ~(m < s + 1)
    BY <1>9, <2>2
  <2>4. m = s + 1
    BY <1>3, <2>2, <2>3
  <2>5. QED
    BY <1>9, <2>1, <2>4
<1>11. Key(chunk) = key
  <2>1. PICK k : k = SubSeq(chunk, 1, s)
    OBVIOUS
  <2>2. \A i \in 1..s : chunk[i] \in P
    BY <1>6, <1>8, <1>3, ElementOfSeq
  <2>3. /\ k \in Seq(P) /\ Len(k) = (IF 1 <= s THEN s - 1 + 1 ELSE 0)
        /\ \A i \in 1..(s - 1 + 1) : k[i] = chunk[1 + i - 1]
    <3>1. 1 \in Int /\ s \in Int
      BY <1>3
    <3>2. QED
      BY <2>1, <2>2, <3>1, SubSeqProperties
  <2>4. (IF 1 <= s THEN s - 1 + 1 ELSE 0) = s /\ s - 1 + 1 = s /\ \A i \in 1..s : 1 + i - 1 = i
    BY <1>3
  <2>5. Len(k) = Len(key) /\ \A i \in 1..Len(k) : k[i] = key[i]
    BY <1>1, <1>8, <2>3, <2>4
  <2>6. k = key
    BY <2>3, <2>5, SeqEqual
  <2>7. Key(chunk) = SubSeq(chunk, 1, Min(at) - 1)
    BY <1>10 DEF Key, at
  <2>8. Min(at) - 1 = s
    BY <1>3, <1>10
  <2>9. QED
    BY <2>1, <2>6, <2>7, <2>8, Zenon
<1>12. Value(chunk) = unescape(text)
  <2>1. PICK a \in Int : a = s + 2
    BY <1>3
  <2>2. PICK t : t = SubSeq(chunk, a, n)
    OBVIOUS
  <2>3. \A i \in a..n : chunk[i] \in P
    <3>1. \A i \in a..n : i \in 1..n
      BY <1>3, <2>1
    <3>2. QED
      BY <1>6, <1>7, <3>1, ElementOfSeq
  <2>4. /\ t \in Seq(P) /\ Len(t) = (IF a <= n THEN n - a + 1 ELSE 0)
        /\ \A i \in 1..(n - a + 1) : t[i] = chunk[a + i - 1]
    <3>1. a \in Int /\ n \in Int
      OBVIOUS
    <3>2. QED
      BY <2>2, <2>3, <3>1, SubSeqProperties
  <2>5. /\ (IF a <= n THEN n - a + 1 ELSE 0) = z /\ n - a + 1 = z
        /\ \A i \in 1..z : a + i - 1 = (s + 1) + i
    BY <1>3, <1>7, <2>1
  <2>6. Len(t) = z /\ \A i \in 1..z : t[i] = text[i]
    <3>1. Len(t) = z /\ \A i \in 1..z : t[i] = chunk[a + i - 1]
      BY <2>4, <2>5
    <3>2. \A i \in 1..z : chunk[a + i - 1] = text[i]
      BY <1>6, <2>5
    <3>3. QED
      BY <3>1, <3>2
  <2>7. t = text
    BY <1>5, <2>4, <2>6, SeqEqual
  <2>8. Value(chunk) = unescape(SubSeq(chunk, Min(at) + 1, n))
    BY <1>7 DEF Value, at
  <2>9. Min(at) + 1 = a
    BY <1>3, <1>10, <2>1
  <2>10. QED
    BY <2>2, <2>7, <2>8, <2>9, Zenon
<1>13. chunk # <<>>
  <2>1. n # 0
    BY <1>3, <1>7
  <2>2. QED
    BY <1>7, <2>1, EmptySeq
<1>14. QED
  BY <1>6, <1>10, <1>11, <1>12, <1>13 DEF at

\* These texts are the entries of a record with these keys.
Entries(P, chunks, n, keys, texts) ==
  /\ chunks \in Seq(Seq(P)) /\ n = Len(chunks)
  /\ keys \in [1..n -> Seq(P)] /\ texts \in [1..n -> Seq(P)]
  /\ \A j, k \in 1..n : keys[j] = keys[k] => j = k
  /\ \A k \in 1..n : /\ \A i \in DOMAIN keys[k] : keys[k][i] # "="
                     /\ chunks[k] = Entry(keys[k], texts[k])

Names(keys, n) == {keys[k] : k \in 1..n}

\* What is decoded of them.
Decodes(got, n, keys, texts) ==
  DOMAIN got = Names(keys, n) /\ \A k \in 1..n : got[keys[k]] = unescape(texts[k])

LEMMA DecodedIs ==
  ASSUME NEW P, Raws \subseteq P, "=" \in P, NEW payload,
         NEW chunks, chunks = Split(Strip(payload), " "),
         NEW n, NEW keys, NEW texts, Entries(P, chunks, n, keys, texts),
         NEW got, got = decode_record(payload, None)
  PROVE  Decodes(got, n, keys, texts)
<1>1. /\ n \in Nat /\ DOMAIN chunks = 1..n
      /\ \A k \in 1..n : keys[k] \in Seq(P) /\ texts[k] \in Seq(P)
      /\ \A j, k \in 1..n : keys[j] = keys[k] => j = k
  BY LenProperties DEF Entries
<1>2. ASSUME NEW k \in 1..n
      PROVE  /\ chunks[k] # <<>> /\ Positions(chunks[k], "=") # {}
             /\ Key(chunks[k]) = keys[k] /\ Value(chunks[k]) = unescape(texts[k])
  <2>1. chunks[k] = Entry(keys[k], texts[k]) /\ \A i \in DOMAIN keys[k] : keys[k][i] # "="
    BY DEF Entries
  <2>2. PICK chunk, key, text : chunk = chunks[k] /\ key = keys[k] /\ text = texts[k]
    OBVIOUS
  <2>3. /\ key \in Seq(P) /\ text \in Seq(P) /\ chunk = Entry(key, text)
        /\ \A i \in DOMAIN key : key[i] # "="
    BY <1>1, <2>1, <2>2
  <2>4. /\ chunk # <<>> /\ Positions(chunk, "=") # {}
        /\ Key(chunk) = key /\ Value(chunk) = unescape(text)
    BY <2>3, EntryIs
  <2>5. QED
    BY <2>2, <2>4, Zenon
<1> DEFINE filled == {k \in DOMAIN chunks : chunks[k] # <<>>}
           Of(key) == {k \in filled : Key(chunks[k]) = key}
           names == {Key(chunks[k]) : k \in filled}
           At(key) == IF Positions(chunks[Max(Of(key))], "=") = {} THEN None
                      ELSE Value(chunks[Max(Of(key))])
           r == [key \in names |-> At(key)]
<1>3. got = r
  BY DEF decode_record
<1>4. filled = 1..n
  BY <1>1, <1>2
<1> HIDE DEF filled
<1>5. ASSUME NEW k \in 1..n PROVE Max(Of(keys[k])) = k
  <2>1. Of(keys[k]) = {k}
    <3>1. \A j \in 1..n : Key(chunks[j]) = keys[k] <=> j = k
      BY <1>1, <1>2
    <3>2. QED
      BY <1>4, <3>1
  <2> HIDE DEF Of
  <2>2. {k} \subseteq 1..n /\ {k} # {}
    OBVIOUS
  <2>3. Max({k}) \in {k}
    BY <1>1, <2>2, MaxOf
  <2>4. QED
    BY <2>1, <2>3
<1>6. names = Names(keys, n) /\ \A k \in 1..n : keys[k] \in names
  BY <1>2, <1>4 DEF Names
<1> HIDE DEF Of, names
<1>7. ASSUME NEW k \in 1..n PROVE At(keys[k]) = unescape(texts[k])
  BY <1>2, <1>5
<1> HIDE DEF At
<1>8. \A k \in 1..n : r[keys[k]] = unescape(texts[k])
  BY <1>6, <1>7
<1>9. DOMAIN r = names
  OBVIOUS
<1> HIDE DEF r
<1>10. QED
  BY <1>3, <1>6, <1>8, <1>9 DEF Decodes

LEMMA SetToSeqIs ==
  ASSUME NEW S, IsFiniteSet(S), S # {}, NEW f, f = SetToSeq(S)
  PROVE  /\ f \in Seq(S) /\ f # <<>>
         /\ \A j, k \in 1..Len(f) : f[j] = f[k] => j = k
         /\ Names(f, Len(f)) = S
<1>1. PICK n \in Nat : n = Cardinality(S) /\ ExistsBijection(1..n, S)
  BY FS_CardinalityType
<1>2. PICK g : g \in Bijection(1..n, S)
  BY <1>1 DEF ExistsBijection
<1>3. g \in [1..n -> S] /\ IsInjective(g)
  BY <1>2 DEF Bijection, Injection
<1>4. f \in [1..n -> S] /\ IsInjective(f)
  BY <1>1, <1>3 DEF SetToSeq
<1>5. f \in Injection(1..n, S)
  BY <1>4 DEF Injection
<1>6. f \in Surjection(1..n, S)
  <2>1. IsFiniteSet(1..n) /\ Cardinality(1..n) = n
    <3>1. 1..n # {} => n >= 1
      BY <1>1
    <3>2. IsFiniteSet(1..n) /\ Cardinality(1..n) = IF 1 > n THEN 0 ELSE n - 1 + 1
      BY FS_Interval
    <3>3. QED
      BY <1>1, <3>2
  <2>2. Cardinality(1..n) = Cardinality(S) <=> f \in Surjection(1..n, S)
    BY <1>5, FS_Injection
  <2>3. QED
    BY <1>1, <2>1, <2>2
<1>7. \A x \in S : \E k \in 1..n : f[k] = x
  BY <1>6 DEF Surjection
<1>8. f \in Seq(S) /\ Len(f) = n
  <2>1. \E k \in Nat : f \in [1..k -> S]
    BY <1>4
  <2>2. f \in Seq(S)
    BY <2>1, SeqDef
  <2>3. Len(f) \in Nat /\ DOMAIN f = 1..Len(f) /\ DOMAIN f = 1..n
    BY <1>4, <2>2, LenProperties
  <2>4. QED
    BY <1>1, <2>2, <2>3
<1>9. n # 0
  <2>1. SUFFICES ASSUME n = 0 PROVE FALSE
    OBVIOUS
  <2>2. 1..n = {}
    BY <2>1
  <2>3. QED
    BY <1>7, <2>2
<1>10. f # <<>>
  BY <1>8, <1>9, EmptySeq
<1>11. \A j, k \in 1..n : f[j] = f[k] => j = k
  BY <1>4 DEF IsInjective
<1>12. Names(f, n) = S
  BY <1>4, <1>7 DEF Names
<1>13. QED
  BY <1>8, <1>10, <1>11, <1>12

\* A record whose names and values are texts over P.
Fields(P, record) ==
  /\ IsFiniteSet(DOMAIN record) /\ DOMAIN record # {}
  /\ \A key \in DOMAIN record :
       /\ key \in Seq(P) \ {<<>>} /\ record[key] \in Seq(P)
       /\ \A i \in DOMAIN key : key[i] \notin Whitespace \cup {"=", "|", "error", "notify"}

\* What an entry on the wire is made of.
Plain(P) == P \ {" ", "|", "LF"}

LEMMA FieldIs ==
  ASSUME NEW P, Wired(P), "=" \in P, NEW key \in Seq(P) \ {<<>>}, NEW value \in Seq(P),
         \A i \in DOMAIN key : key[i] \notin Whitespace \cup {"=", "|", "error", "notify"},
         NEW text, text \in {escape(value), Trimmed(escape(value))},
         NEW chunk, chunk = Entry(key, text)
  PROVE  /\ text \in Seq(P) /\ chunk \in Seq(Plain(P)) /\ chunk # <<>> /\ chunk[1] = key[1]
         /\ chunk[1] \notin Whitespace \cup {"error", "notify"}
         /\ \A i \in DOMAIN text : text[i] \in Whitespace => text[i] = "NBSP"
         /\ \A i \in DOMAIN key : key[i] # "="
         /\ unescape(text) \in {value, Trimmed(value)}
<1> DEFINE C == (P \cup Letters \cup {Backslash}) \ Separators
<1>1. escape(value) \in Seq(C) /\ Trimmed(escape(value)) \in Seq(C)
  <2>1. escape(value) \in Seq(C)
    BY EscapeDelimits
  <2> HIDE DEF C
  <2>2. QED
    BY <2>1, TrimmedIs
<1>2. text \in Seq(C)
  BY <1>1
<1>3. /\ Raws \subseteq P /\ Letters \subseteq P /\ Backslash \in P
      /\ Separators = Raws \ {Backslash, "/"}
  <2>1. 1 \in 1..11
    OBVIOUS
  <2>2. QED
    BY <2>1, WiredHas DEF Wired, Separators
<1>4. \A c \in Whitespace \cup {"|"} : c = "NBSP" \/ c \in Separators
  <2>1. /\ Escapes[3][1] = " " /\ Escapes[4][1] = "|" /\ Escapes[7][1] = "FF"
        /\ Escapes[8][1] = "LF" /\ Escapes[9][1] = "CR" /\ Escapes[10][1] = "TAB"
        /\ Escapes[11][1] = "VT"
    BY DEF Escapes
  <2>2. 3 \in 1..11 /\ 4 \in 1..11 /\ 7 \in 1..11 /\ 8 \in 1..11 /\ 9 \in 1..11 /\ 10 \in 1..11
        /\ 11 \in 1..11
    OBVIOUS
  <2>3. \A j \in 1..11 : Escapes[j][1] \in Raws
    BY EscapesDiffer DEF Raws
  <2>4. {" ", "|", "FF", "LF", "CR", "TAB", "VT"} \subseteq Raws
    BY <2>1, <2>2, <2>3
  <2>5. QED
    BY <1>3, <2>4 DEF Whitespace, Backslash
<1>5. C \subseteq Plain(P) /\ \A c \in C : c \in Whitespace => c = "NBSP"
  <2>1. \A c \in C : c \notin Separators /\ c \in P
    BY <1>3
  <2>2. {" ", "|", "LF"} \subseteq Separators
    BY <1>4 DEF Whitespace
  <2>3. QED
    BY <1>4, <2>1, <2>2 DEF Plain
<1> HIDE DEF C
<1>6. text \in Seq(Plain(P)) /\ text \in Seq(P)
  <2>1. Plain(P) \subseteq P
    BY DEF Plain
  <2>2. text \in Seq(Plain(P))
    BY <1>2, <1>5, SeqMonotonic
  <2>3. QED
    BY <2>1, <2>2, SeqMonotonic
<1>7. \A i \in DOMAIN text : text[i] \in Whitespace => text[i] = "NBSP"
  <2>1. \A i \in DOMAIN text : text[i] \in C
    BY <1>2, LenProperties, ElementOfSeq
  <2>2. QED
    BY <1>5, <2>1
<1>8. PICK s \in Nat \ {0} : s = Len(key) /\ DOMAIN key = 1..s
  BY LenProperties, EmptySeq
<1>9. key \in Seq(Plain(P))
  <2>1. \A i \in 1..s : key[i] \in Plain(P)
    <3>1. \A i \in 1..s : key[i] \in P
      BY <1>8, ElementOfSeq
    <3>2. \A i \in 1..s : key[i] \notin {" ", "|", "LF"}
      BY <1>8 DEF Whitespace
    <3>3. QED
      BY <3>1, <3>2 DEF Plain
  <2>2. key = [i \in 1..s |-> key[i]]
    BY <1>8, LenProperties
  <2>3. \E j \in Nat : key \in [1..j -> Plain(P)]
    BY <2>1, <2>2
  <2>4. QED
    BY <2>3, SeqDef
<1>10. "=" \in Plain(P) /\ <<"=">> \in Seq(Plain(P))
  <2>1. "=" \in Plain(P)
    BY DEF Plain
  <2>2. QED
    BY <2>1, WordsType
<1>11. PICK h : h = key \o <<"=">>
  OBVIOUS
<1>12. /\ h \in Seq(Plain(P)) /\ Len(h) \in Nat /\ Len(h) >= s
       /\ \A i \in 1..s : h[i] = key[i]
  <2>1. PICK e : e = <<"=">>
    OBVIOUS
  <2>2. /\ h \in Seq(Plain(P)) /\ Len(h) = Len(key) + Len(e) /\ Len(e) \in Nat
        /\ \A i \in 1..Len(key) : h[i] = key[i]
    <3>1. e \in Seq(Plain(P)) /\ h = key \o e
      BY <1>10, <1>11, <2>1
    <3>2. QED
      BY <1>9, <3>1, HeadOf
  <2>3. QED
    BY <1>8, <2>2
<1>13. /\ chunk \in Seq(Plain(P)) /\ Len(chunk) \in Nat \ {0} /\ chunk[1] = key[1]
  <2>1. chunk = h \o text
    BY <1>11 DEF Entry
  <2>2. /\ chunk \in Seq(Plain(P)) /\ Len(chunk) = Len(h) + Len(text) /\ Len(text) \in Nat
        /\ \A i \in 1..Len(h) : chunk[i] = h[i]
    BY <1>6, <1>12, <2>1, HeadOf
  <2>3. 1 \in 1..s /\ 1 \in 1..Len(h)
    BY <1>12
  <2>4. QED
    BY <1>12, <2>2, <2>3
<1>14. key[1] \notin Whitespace \cup {"error", "notify"} /\ \A i \in DOMAIN key : key[i] # "="
  <2>1. 1 \in DOMAIN key
    BY <1>8
  <2>2. QED
    BY <2>1
<1>15. unescape(text) \in {value, Trimmed(value)}
  <2>1. value \in Seq(P)
    OBVIOUS
  <2>2. unescape(escape(value)) = value /\ unescape(Trimmed(escape(value))) = Trimmed(value)
    BY <2>1, RoundTrip, TrimmedTrip
  <2>3. QED
    BY <2>2
<1>16. chunk # <<>>
  BY <1>13, EmptySeq
<1>17. QED
  BY <1>6, <1>7, <1>13, <1>14, <1>15, <1>16

\* What is read of a record: the fields meant, a value as it was or without the white
\* space at its end.
Read(got, record) ==
  /\ DOMAIN got = DOMAIN record
  /\ \A key \in DOMAIN record : got[key] \in {record[key], Trimmed(record[key])}

\* What is sent of it: a text that holds no separator of records and begins with a key.
OnTheWire(P, text) ==
  /\ text \in Seq(P) /\ text # <<>> /\ text[1] \notin {"error", "notify"}
  /\ \A i \in DOMAIN text : text[i] \notin {"|", "LF"}

\* decode_record reads what is sent of a record.
LEMMA RecordArrives ==
  ASSUME NEW P, Wired(P), "=" \in P, NEW record, Fields(P, record),
         NEW text, text = Encoded(record)
  PROVE  OnTheWire(P, text) /\ Read(decode_record(text, None), record)
<1>1. PICK keys : keys = SetToSeq(DOMAIN record)
  OBVIOUS
<1>2. PICK n : n = Len(keys)
  OBVIOUS
<1>3. /\ keys \in Seq(DOMAIN record) /\ keys # <<>> /\ n \in Nat \ {0} /\ DOMAIN keys = 1..n
      /\ \A j, k \in 1..n : keys[j] = keys[k] => j = k
      /\ Names(keys, n) = DOMAIN record
  <2>1. PICK S : S = DOMAIN record /\ IsFiniteSet(S) /\ S # {} /\ keys = SetToSeq(S)
    BY <1>1 DEF Fields
  <2>2. /\ keys \in Seq(S) /\ keys # <<>>
        /\ \A j, k \in 1..Len(keys) : keys[j] = keys[k] => j = k
        /\ Names(keys, Len(keys)) = S
    BY <2>1, SetToSeqIs
  <2>3. Len(keys) \in Nat \ {0} /\ DOMAIN keys = 1..Len(keys)
    BY <2>2, LenProperties, EmptySeq
  <2>4. QED
    BY <1>2, <2>1, <2>2, <2>3
<1>4. ASSUME NEW k \in 1..n
      PROVE  /\ keys[k] \in DOMAIN record /\ keys[k] \in Seq(P) \ {<<>>}
             /\ record[keys[k]] \in Seq(P)
             /\ \A i \in DOMAIN keys[k] :
                  keys[k][i] \notin Whitespace \cup {"=", "|", "error", "notify"}
  <2>1. keys[k] \in DOMAIN record
    BY <1>3 DEF Names
  <2>2. QED
    BY <2>1 DEF Fields
<1> DEFINE value(k) == escape(record[keys[k]])
           chunks == [k \in DOMAIN keys |-> keys[k] \o <<"=">> \o value(k)]
           texts == [k \in 1..n |-> IF k = n THEN Trimmed(value(k)) ELSE value(k)]
           shorter == [chunks EXCEPT ![n] = Entry(keys[n], Trimmed(value(n)))]
<1>5. text = Joined(chunks, " ")
  BY <1>1 DEF Encoded
<1>6. chunks = [k \in 1..n |-> chunks[k]] /\ \A k \in 1..n : chunks[k] = Entry(keys[k], value(k))
  BY <1>3 DEF Entry
<1>7. /\ \A k \in 1..n : shorter[k] = Entry(keys[k], texts[k])
      /\ shorter = [k \in 1..n |-> shorter[k]]
      /\ \A k \in 1..n : texts[k] \in {value(k), Trimmed(value(k))}
      /\ texts = [k \in 1..n |-> texts[k]] /\ texts[n] = Trimmed(value(n))
  <2>1. n \in 1..n
    BY <1>3
  <2> HIDE DEF value
  <2>2. \A k \in 1..n : texts[k] = IF k = n THEN Trimmed(value(k)) ELSE value(k)
    OBVIOUS
  <2>3. texts = [k \in 1..n |-> texts[k]]
    OBVIOUS
  <2> HIDE DEF texts
  <2>4. DOMAIN chunks = 1..n
    BY <1>3
  <2> HIDE DEF chunks
  <2>5. \A k \in 1..n : shorter[k] = IF k = n THEN Entry(keys[n], Trimmed(value(n))) ELSE chunks[k]
    BY <2>4
  <2>6. shorter = [k \in 1..n |-> shorter[k]]
    BY <2>4
  <2> HIDE DEF shorter
  <2>7. \A k \in 1..n : shorter[k] = Entry(keys[k], texts[k])
    BY <1>6, <2>2, <2>5
  <2>8. QED
    BY <2>1, <2>2, <2>3, <2>6, <2>7
<1>8. ASSUME NEW k \in 1..n, NEW u, u \in {value(k), Trimmed(value(k))}
      PROVE  /\ u \in Seq(P) /\ Entry(keys[k], u) \in Seq(Plain(P)) /\ Entry(keys[k], u) # <<>>
             /\ Entry(keys[k], u)[1] = keys[k][1]
             /\ Entry(keys[k], u)[1] \notin Whitespace \cup {"error", "notify"}
             /\ \A i \in DOMAIN u : u[i] \in Whitespace => u[i] = "NBSP"
             /\ \A i \in DOMAIN keys[k] : keys[k][i] # "="
             /\ unescape(u) \in {record[keys[k]], Trimmed(record[keys[k]])}
  <2>1. PICK key, v, chunk : key = keys[k] /\ v = record[keys[k]] /\ chunk = Entry(key, u)
    OBVIOUS
  <2>2. /\ key \in Seq(P) \ {<<>>} /\ v \in Seq(P)
        /\ \A i \in DOMAIN key : key[i] \notin Whitespace \cup {"=", "|", "error", "notify"}
    BY <1>4, <2>1
  <2>3. u \in {escape(v), Trimmed(escape(v))}
    BY <1>8, <2>1
  <2>4. /\ u \in Seq(P) /\ chunk \in Seq(Plain(P)) /\ chunk # <<>> /\ chunk[1] = key[1]
        /\ chunk[1] \notin Whitespace \cup {"error", "notify"}
        /\ \A i \in DOMAIN u : u[i] \in Whitespace => u[i] = "NBSP"
        /\ \A i \in DOMAIN key : key[i] # "="
        /\ unescape(u) \in {v, Trimmed(v)}
    BY <2>1, <2>2, <2>3, FieldIs
  <2>5. QED
    BY <2>1, <2>4
<1> HIDE DEF value, chunks, texts, shorter
<1>9. Plain(P) \subseteq P /\ " " \in P
  <2>1. " " \in P
    <3>1. 3 \in 1..11 /\ Escapes[3][1] = " "
      BY DEF Escapes
    <3>2. QED
      BY <3>1, WiredHas
  <2>2. QED
    BY <2>1 DEF Plain
<1>10. /\ chunks \in [1..n -> Seq(Plain(P))] /\ shorter \in [1..n -> Seq(Plain(P))]
       /\ texts \in [1..n -> Seq(P)] /\ keys \in [1..n -> Seq(P)]
  <2>1. \A k \in 1..n : chunks[k] \in Seq(Plain(P))
    BY <1>6, <1>8
  <2>2. \A k \in 1..n : shorter[k] \in Seq(Plain(P)) /\ texts[k] \in Seq(P)
    BY <1>7, <1>8
  <2>3. \A k \in 1..n : keys[k] \in Seq(P)
    BY <1>4
  <2>4. keys = [k \in 1..n |-> keys[k]]
    BY <1>3, LenProperties
  <2>5. chunks \in [1..n -> Seq(Plain(P))] /\ keys \in [1..n -> Seq(P)]
    BY <1>6, <2>1, <2>3, <2>4
  <2>6. shorter \in [1..n -> Seq(Plain(P))] /\ texts \in [1..n -> Seq(P)]
    BY <1>7, <2>2
  <2>7. QED
    BY <2>5, <2>6
<1>11. ASSUME NEW seqs \in [1..n -> Seq(Plain(P))]
       PROVE  /\ seqs \in Seq(Seq(P)) /\ Len(seqs) = n /\ seqs # <<>>
              /\ seqs \in Seq(Seq(Plain(P) \cup {" "}))
  <2>1. PICK Q : Q = Plain(P) \cup {" "}
    OBVIOUS
  <2>2. \A k \in 1..n : seqs[k] \in Seq(P) /\ seqs[k] \in Seq(Q)
    <3>1. Plain(P) \subseteq P /\ Plain(P) \subseteq Q
      BY <1>9, <2>1
    <3>2. QED
      BY <3>1, SeqMonotonic
  <2>3. seqs \in [1..n -> Seq(P)] /\ seqs \in [1..n -> Seq(Q)]
    BY <2>2
  <2>4. seqs \in Seq(Seq(P)) /\ seqs \in Seq(Seq(Q))
    <3>1. \E j \in Nat : seqs \in [1..j -> Seq(P)]
      BY <1>3, <2>3
    <3>2. \E j \in Nat : seqs \in [1..j -> Seq(Q)]
      BY <1>3, <2>3
    <3>3. seqs \in Seq(Seq(P))
      BY <3>1, SeqDef
    <3>4. seqs \in Seq(Seq(Q))
      BY <3>2, SeqDef
    <3>5. QED
      BY <3>3, <3>4
  <2>5. Len(seqs) = n
    BY <1>3, <2>3, <2>4, LenProperties
  <2>6. seqs # <<>>
    BY <1>3, <2>4, <2>5, EmptySeq
  <2>7. QED
    BY <2>1, <2>4, <2>5, <2>6
<1>12. /\ chunks \in Seq(Seq(P)) /\ Len(chunks) = n /\ chunks # <<>>
       /\ chunks \in Seq(Seq(Plain(P) \cup {" "}))
       /\ shorter \in Seq(Seq(P)) /\ Len(shorter) = n /\ shorter # <<>>
  BY <1>10, <1>11
<1>13. text \in Seq(P) /\ text \in Seq(Plain(P) \cup {" "})
  <2>1. PICK Q : Q = Plain(P) \cup {" "}
    OBVIOUS
  <2>2. " " \in Q /\ chunks \in Seq(Seq(Q))
    BY <1>12, <2>1
  <2>3. Joined(chunks, " ") \in Seq(Q)
    BY <1>12, <2>2, JoinedLayout
  <2>4. Joined(chunks, " ") \in Seq(P)
    BY <1>9, <1>12, JoinedLayout
  <2>5. QED
    BY <1>5, <2>1, <2>3, <2>4
<1>14. PICK at : Layout(text, chunks, " ", at)
  <2>1. \E at : Layout(Joined(chunks, " "), chunks, " ", at)
    BY <1>9, <1>12, JoinedLayout
  <2>2. QED
    BY <1>5, <2>1
<1>15. 1 \in 1..n /\ n \in 1..n
  BY <1>3
<1>16. OnTheWire(P, text)
  <2>1. chunks[1] \in Seq(P) /\ chunks[1] # <<>> /\ chunks[1][1] \notin {"error", "notify"}
    <3>1. chunks[1] \in Seq(Plain(P)) /\ chunks[1] # <<>> /\ chunks[1][1] \notin {"error", "notify"}
      BY <1>6, <1>8, <1>15
    <3>2. QED
      BY <1>9, <3>1, SeqMonotonic
  <2>2. PICK l \in Nat \ {0} : l = Len(chunks[1])
    BY <2>1, EmptySeq
  <2>3. /\ at[1] = 1 /\ at \in [1..(n + 1) -> Nat \ {0}] /\ at[n + 1] = Len(text) + 2
        /\ \A q \in 1..l : text[at[1] + q - 1] = chunks[1][q]
    BY <1>12, <1>14, <1>15, <2>2 DEF Layout
  <2>4. text[1] = chunks[1][1]
    <3>1. 1 \in 1..l /\ at[1] + 1 - 1 = 1
      BY <2>3
    <3>2. QED
      BY <2>3, <3>1
  <2>5. text # <<>>
    <3>1. at[1] + l <= Len(text) + 1
      BY <1>12, <1>14, <1>15, <2>2 DEF Layout
    <3>2. PICK z \in Nat : z = Len(text)
      BY <1>13, LenProperties
    <3>3. 1 + l <= z + 1
      BY <2>3, <3>1, <3>2
    <3>4. z # 0
      BY <3>3
    <3>5. QED
      BY <3>2, <3>4, EmptySeq
  <2>6. \A i \in DOMAIN text : text[i] \notin {"|", "LF"}
    <3>1. \A i \in DOMAIN text : text[i] \in Plain(P) \cup {" "}
      BY <1>13, LenProperties, ElementOfSeq
    <3>2. QED
      BY <3>1 DEF Plain
  <2>7. QED
    BY <1>13, <2>1, <2>4, <2>5, <2>6 DEF OnTheWire
<1>17. Split(Strip(text), " ") = shorter
  <2>1. PICK h, x, s, part : /\ h = keys[n] \o <<"=">> /\ x = value(n) /\ s = Len(h)
                             /\ part = h \o Trimmed(x)
    OBVIOUS
  <2>2. h \in Seq(P) /\ s # 0 /\ h[s] = "="
    <3>1. PICK key, e : key = keys[n] /\ e = <<"=">>
      OBVIOUS
    <3>2. key \in Seq(P) /\ e \in Seq(P) /\ Len(e) = 1 /\ e[1] = "=" /\ Len(key) \in Nat
      BY <1>4, <1>15, <3>1, WordsType, LenProperties
    <3>3. /\ h \in Seq(P) /\ Len(h) = Len(key) + Len(e)
          /\ \A i \in 1..Len(e) : h[Len(key) + i] = e[i]
      BY <2>1, <3>1, <3>2, HeadOf
    <3>4. 1 \in 1..Len(e) /\ s = Len(key) + 1
      BY <2>1, <3>2, <3>3
    <3>5. QED
      BY <3>2, <3>3, <3>4
  <2>3. x \in Seq(P) /\ \A i \in DOMAIN x : x[i] \in Whitespace => x[i] = "NBSP"
    BY <1>8, <1>15, <2>1
  <2>4. chunks[n] = h \o x /\ part = Entry(keys[n], Trimmed(value(n)))
    BY <1>6, <1>15, <2>1 DEF Entry
  <2>5. chunks[1] # <<>> /\ chunks[1][1] \notin Whitespace
    BY <1>6, <1>8, <1>15
  <2>6. Open(chunks, n, h, s, x)
    <3>1. h[s] \notin Whitespace
      BY <2>2 DEF Whitespace
    <3>2. QED
      BY <1>12, <2>1, <2>2, <2>3, <2>4, <2>5, <3>1 DEF Open
  <2>7. shorter = [chunks EXCEPT ![n] = part]
    BY <2>4 DEF shorter
  <2>8. PICK stripped : stripped = Strip(text)
    OBVIOUS
  <2>9. stripped \in Seq(P) /\ \E place : Layout(stripped, shorter, " ", place)
    BY <1>12, <1>13, <1>14, <2>1, <2>2, <2>3, <2>6, <2>7, <2>8, StripLayout
  <2>10. \A k \in 1..Len(shorter) : \A q \in 1..Len(shorter[k]) : shorter[k][q] # " "
    <3>1. ASSUME NEW k \in 1..n, NEW q \in 1..Len(shorter[k]) PROVE shorter[k][q] # " "
      <4>1. shorter[k] \in Seq(Plain(P))
        BY <1>10
      <4>2. shorter[k][q] \in Plain(P)
        BY <4>1, ElementOfSeq
      <4>3. QED
        BY <4>2 DEF Plain
    <3>2. QED
      BY <1>12, <3>1
  <2>11. Split(stripped, " ") = shorter
    BY <1>12, <2>9, <2>10, SplitLayout
  <2>12. QED
    BY <2>8, <2>11
<1>18. Entries(P, shorter, n, keys, texts)
  <2>1. \A k \in 1..n : /\ \A i \in DOMAIN keys[k] : keys[k][i] # "="
                        /\ shorter[k] = Entry(keys[k], texts[k])
    BY <1>7, <1>8
  <2>2. QED
    BY <1>3, <1>10, <1>12, <2>1 DEF Entries
<1>19. PICK got : got = decode_record(text, None)
  OBVIOUS
<1>20. DOMAIN got = Names(keys, n) /\ \A k \in 1..n : got[keys[k]] = unescape(texts[k])
  <2>1. Raws \subseteq P
    BY DEF Wired
  <2>2. QED
    <3>1. shorter = Split(Strip(text), " ")
      BY <1>17
    <3>2. Decodes(got, n, keys, texts)
      BY <1>18, <1>19, <2>1, <3>1, DecodedIs
    <3>3. QED
      BY <3>2 DEF Decodes
<1>21. ASSUME NEW key \in DOMAIN record PROVE got[key] \in {record[key], Trimmed(record[key])}
  <2>1. PICK k \in 1..n : key = keys[k]
    BY <1>3 DEF Names
  <2>2. unescape(texts[k]) \in {record[keys[k]], Trimmed(record[keys[k]])}
    BY <1>7, <1>8
  <2>3. QED
    BY <1>20, <2>1, <2>2
<1>22. Read(got, record)
  BY <1>3, <1>20, <1>21 DEF Read
<1>23. QED
  BY <1>16, <1>19, <1>22

-----------------------------------------------------------------------------
(* An answer: the records in a line, and the lines around it.              *)

\* The line the records of an answer make.
Encodings(meant) == [k \in DOMAIN meant |-> Encoded(meant[k])]
Body(meant) == Joined(Encodings(meant), "|")

\* The records read are the ones meant.
Arrived(got, meant) ==
  Len(got) = Len(meant) /\ \A k \in DOMAIN meant : Read(got[k], meant[k])

\* What the line is: one line, of no other kind, and read as what was meant.
BodyIs(P, body, meant) ==
  /\ body \in Seq(P) /\ body # <<>> /\ body[1] \notin {"error", "notify"}
  /\ \A i \in DOMAIN body : body[i] # "LF"
  /\ Arrived(RecordsOf(body), meant)

\* The characters of an answer.
UsedIn(record) == UNION {ToSet(key) \cup ToSet(record[key]) : key \in DOMAIN record}
Used(meant) == UNION {UsedIn(record) : record \in ToSet(meant)}
Wires(meant) == (Raws \cup Letters) \cup ({"="} \cup Used(meant))

LEMMA RecordFields ==
  ASSUME NEW meant \in Answers, NEW P, P = Wires(meant), NEW k \in DOMAIN meant
  PROVE  Fields(P, meant[k])
<1>1. PICK record : record = meant[k]
  OBVIOUS
<1>2. record \in ToSet(meant)
  BY <1>1 DEF ToSet
<1>3. ASSUME NEW key \in DOMAIN record
      PROVE  /\ key \in Seq(P) \ {<<>>} /\ record[key] \in Seq(P)
             /\ \A i \in DOMAIN key : key[i] \notin Whitespace \cup {"=", "|", "error", "notify"}
  <2>1. /\ key \in Seq(ToSet(key)) /\ key # <<>>
        /\ ToSet(key) \cap (Whitespace \cup {"=", "|", "error", "notify"}) = {}
        /\ record[key] \in Seq(ToSet(record[key]))
    BY <1>2, AnswersAssumption
  <2>2. ToSet(key) \subseteq P /\ ToSet(record[key]) \subseteq P
    <3>1. ToSet(key) \cup ToSet(record[key]) \subseteq Used(meant)
      <4>2. ToSet(key) \cup ToSet(record[key]) \subseteq UsedIn(record)
        BY Zenon DEF UsedIn
      <4>3. UsedIn(record) \subseteq Used(meant)
        BY <1>2, Zenon DEF Used
      <4>4. QED
        BY <4>2, <4>3
    <3>2. Used(meant) \subseteq P
      BY DEF Wires
    <3>3. QED
      BY <3>1, <3>2
  <2>3. key \in Seq(P) /\ record[key] \in Seq(P)
    BY <2>1, <2>2, SeqMonotonic
  <2>4. \A i \in DOMAIN key : key[i] \in ToSet(key)
    BY DEF ToSet
  <2>5. QED
    BY <2>1, <2>3, <2>4
<1>4. IsFiniteSet(DOMAIN record) /\ DOMAIN record # {}
  BY <1>2, AnswersAssumption
<1>5. Fields(P, record)
  BY <1>3, <1>4 DEF Fields
<1>6. QED
  BY <1>1, <1>5

\* The line of records is read as the records meant.
LEMMA BodyArrives ==
  ASSUME NEW meant \in Answers, NEW P, P = Wires(meant), NEW body, body = Body(meant)
  PROVE  BodyIs(P, body, meant)
<1>1. PICK n \in Nat \ {0} : n = Len(meant) /\ DOMAIN meant = 1..n
  <2>1. meant \in Seq(ToSet(meant)) /\ meant # <<>>
    BY AnswersAssumption
  <2>2. QED
    BY <2>1, LenProperties, EmptySeq
<1>2. PICK parts : parts = Encodings(meant)
  OBVIOUS
<1>3. DOMAIN parts = 1..n /\ \A k \in 1..n : parts[k] = Encoded(meant[k])
  BY <1>1, <1>2 DEF Encodings
<1>4. Wired(P) /\ "=" \in P
  <2>1. Raws \subseteq P /\ Letters \subseteq P /\ "=" \in P
    BY DEF Wires
  <2>2. QED
    BY <2>1 DEF Wired
<1>5. ASSUME NEW k \in 1..n
      PROVE  OnTheWire(P, parts[k]) /\ Read(decode_record(parts[k], None), meant[k])
  <2>1. Fields(P, meant[k])
    BY <1>1, RecordFields
  <2>2. PICK record, text : record = meant[k] /\ text = parts[k] /\ text = Encoded(record)
    BY <1>3
  <2>3. OnTheWire(P, text) /\ Read(decode_record(text, None), record)
    BY <1>4, <2>1, <2>2, RecordArrives
  <2>4. QED
    BY <2>2, <2>3
<1>6. PICK Q : Q = (P \ {"|", "LF"}) \cup {"|"}
  OBVIOUS
<1>7. "|" \in P /\ "|" \in Q
  <2>1. 4 \in 1..11 /\ Escapes[4][1] = "|"
    BY DEF Escapes
  <2>2. "|" \in P
    BY <1>4, <2>1, WiredHas
  <2>3. QED
    BY <1>6, <2>2
<1>8. ASSUME NEW k \in 1..n
      PROVE  /\ parts[k] \in Seq(Q) /\ parts[k] \in Seq(P) /\ parts[k] # <<>>
             /\ parts[k][1] \notin {"error", "notify"}
             /\ \A q \in 1..Len(parts[k]) : parts[k][q] # "|"
  <2>1. PICK part : part = parts[k]
    OBVIOUS
  <2>2. /\ part \in Seq(P) /\ part # <<>> /\ part[1] \notin {"error", "notify"}
        /\ \A i \in DOMAIN part : part[i] \notin {"|", "LF"}
    BY <1>5, <2>1 DEF OnTheWire
  <2>3. PICK l \in Nat : l = Len(part) /\ DOMAIN part = 1..l
    BY <2>2, LenProperties
  <2>4. \A i \in 1..l : part[i] \in Q
    BY <1>6, <2>2, <2>3, ElementOfSeq
  <2>5. part \in Seq(Q)
    <3>1. part = [i \in 1..l |-> part[i]]
      BY <2>2, <2>3, LenProperties
    <3>2. part \in [1..l -> Q]
      BY <2>4, <3>1
    <3>3. \E j \in Nat : part \in [1..j -> Q]
      BY <3>2
    <3>4. QED
      BY <3>3, SeqDef
  <2>6. QED
    BY <2>1, <2>2, <2>3, <2>5
<1>9. /\ parts \in Seq(Seq(P)) /\ parts \in Seq(Seq(Q)) /\ Len(parts) = n /\ parts # <<>>
  <2>1. parts = [k \in 1..n |-> parts[k]]
    BY <1>1, <1>2 DEF Encodings
  <2>2. parts \in [1..n -> Seq(P)] /\ parts \in [1..n -> Seq(Q)]
    BY <1>8, <2>1
  <2>3. \E j \in Nat : parts \in [1..j -> Seq(P)]
    BY <2>2
  <2>4. \E j \in Nat : parts \in [1..j -> Seq(Q)]
    BY <2>2
  <2>5. parts \in Seq(Seq(P))
    BY <2>3, SeqDef
  <2>6. parts \in Seq(Seq(Q))
    BY <2>4, SeqDef
  <2>7. Len(parts) = n
    BY <2>2, <2>5, LenProperties
  <2>8. QED
    BY <2>5, <2>6, <2>7, EmptySeq
<1>10. body = Joined(parts, "|")
  BY <1>2 DEF Body
<1>11. body \in Seq(P) /\ \E at : Layout(body, parts, "|", at)
  BY <1>7, <1>9, <1>10, JoinedLayout
<1>12. body \in Seq(Q)
  BY <1>7, <1>9, <1>10, JoinedLayout
<1>13. PICK at : Layout(body, parts, "|", at)
  BY <1>11
<1>14. \A i \in DOMAIN body : body[i] # "LF"
  <2>1. \A i \in DOMAIN body : body[i] \in Q
    BY <1>12, LenProperties, ElementOfSeq
  <2>2. "LF" \notin Q
    BY <1>6
  <2>3. QED
    BY <2>1, <2>2
<1>15. body # <<>> /\ body[1] \notin {"error", "notify"}
  <2>1. 1 \in 1..n
    OBVIOUS
  <2>2. PICK first : first = parts[1]
    OBVIOUS
  <2>9. PICK l \in Nat \ {0} : l = Len(first)
    <3>1. first \in Seq(P) /\ first # <<>>
      BY <1>8, <2>1, <2>2
    <3>2. QED
      BY <3>1, LenProperties, EmptySeq
  <2>3. /\ at[1] = 1 /\ at[1] + l <= Len(body) + 1
        /\ \A q \in 1..l : body[at[1] + q - 1] = first[q]
    BY <1>9, <1>13, <2>1, <2>2, <2>9 DEF Layout
  <2>4. body[1] = first[1]
    <3>1. 1 \in 1..l /\ at[1] + 1 - 1 = 1
      BY <2>3
    <3>2. QED
      BY <2>3, <3>1
  <2>5. PICK z \in Nat : z = Len(body)
    BY <1>11, LenProperties
  <2>6. z # 0
    <3>1. 1 + l <= z + 1
      BY <2>3, <2>5
    <3>2. QED
      BY <3>1
  <2>7. body # <<>>
    BY <2>5, <2>6, EmptySeq
  <2>8. QED
    BY <1>8, <2>1, <2>2, <2>4, <2>7
<1>16. Split(body, "|") = parts
  <2>1. \A k \in 1..Len(parts) : \A q \in 1..Len(parts[k]) : parts[k][q] # "|"
    BY <1>8, <1>9
  <2>2. QED
    BY <1>9, <1>11, <1>13, <2>1, SplitLayout
<1>17. PICK got : got = RecordsOf(body)
  OBVIOUS
<1>18. got = [k \in 1..n |-> decode_record(parts[k], None)]
  BY <1>3, <1>16, <1>17 DEF RecordsOf
<1>19. Len(got) = n
  <2>1. PICK R : R = {decode_record(parts[k], None) : k \in 1..n}
    OBVIOUS
  <2>2. got \in [1..n -> R]
    BY <1>18, <2>1
  <2>3. \E j \in Nat : got \in [1..j -> R]
    BY <2>2
  <2>4. got \in Seq(R)
    BY <2>3, SeqDef
  <2>5. QED
    BY <2>2, <2>4, LenProperties
<1>20. Arrived(got, meant)
  <2>1. \A k \in 1..n : Read(got[k], meant[k])
    BY <1>5, <1>18
  <2>2. QED
    BY <1>1, <1>19, <2>1 DEF Arrived
<1>21. QED
  BY <1>11, <1>14, <1>15, <1>17, <1>20 DEF BodyIs

\* What the host sends of an answer: the line of records, the notification, the trailer.
LaidOut(text, body, b) ==
  /\ b = Len(body) /\ b \in Nat /\ text \in Seq(Chars) /\ Len(text) = b + 13
  /\ \A q \in 1..b : text[q] = body[q]
  /\ text[b + 1] = "LF" /\ text[b + 2] = "CR" /\ text[b + 3] = "notify"
  /\ text[b + 4] = "LF" /\ text[b + 5] = "CR"
  /\ \A q \in 1..6 : text[b + 5 + q] = Trailer[q]
  /\ text[b + 12] = "LF" /\ text[b + 13] = "CR"

LEMMA SentLaidOut ==
  ASSUME NEW meant \in Answers, NEW body, body = Body(meant), NEW b, b = Len(body)
  PROVE  LaidOut(Sent(meant), body, b)
<1>1. PICK P : P = Wires(meant)
  OBVIOUS
<1>2. PICK W : W = P \cup {"LF", "CR", "notify", "error", " ", "i", "d", "=", "0"}
  OBVIOUS
<1>3. body \in Seq(W)
  <2>1. BodyIs(P, body, meant)
    BY <1>1, BodyArrives
  <2>2. body \in Seq(P) /\ P \subseteq W
    BY <1>2, <2>1 DEF BodyIs
  <2>3. QED
    BY <2>2, SeqMonotonic
<1>4. PICK x : x = LINE_TERMINATOR
  OBVIOUS
<1>5. x \in Seq(W) /\ Len(x) = 2 /\ x[1] = "LF" /\ x[2] = "CR"
  <2>1. x = <<"LF", "CR">> /\ "LF" \in W /\ "CR" \in W
    BY <1>2, <1>4 DEF LINE_TERMINATOR
  <2>2. QED
    BY <2>1, WordsType
<1>6. PICK y : y = <<"notify">>
  OBVIOUS
<1>7. y \in Seq(W) /\ Len(y) = 1 /\ y[1] = "notify"
  BY <1>2, <1>6, WordsType
<1>8. PICK z : z = Trailer
  OBVIOUS
<1>9. z \in Seq(W) /\ Len(z) = 6
  <2>1. z = <<"error", " ", "i", "d", "=", "0">>
    BY <1>8 DEF Trailer
  <2>2. "error" \in W /\ " " \in W /\ "i" \in W /\ "d" \in W /\ "=" \in W /\ "0" \in W
    BY <1>2
  <2>3. QED
    BY <2>1, <2>2, WordsType
<1>10. PICK t1 : t1 = body \o x
  OBVIOUS
<1>11. PICK t2 : t2 = t1 \o y
  OBVIOUS
<1>12. PICK t3 : t3 = t2 \o x
  OBVIOUS
<1>13. PICK t4 : t4 = t3 \o z
  OBVIOUS
<1>14. PICK text : text = t4 \o x
  OBVIOUS
<1>15. text = Sent(meant)
  <2>1. Joined([k \in DOMAIN meant |-> Encoded(meant[k])], "|") = body
    BY DEF Body, Encodings
  <2>2. QED
    BY <1>4, <1>6, <1>8, <1>10, <1>11, <1>12, <1>13, <1>14, <2>1 DEF Sent
<1>16. b \in Nat
  BY <1>3, LenProperties
<1>17. /\ t1 \in Seq(W) /\ Len(t1) = b + 2 /\ \A q \in 1..b : t1[q] = body[q]
       /\ t1[b + 1] = "LF" /\ t1[b + 2] = "CR"
  <2>1. /\ t1 \in Seq(W) /\ Len(t1) = Len(body) + Len(x)
        /\ \A q \in 1..Len(body) : t1[q] = body[q]
        /\ \A q \in 1..Len(x) : t1[Len(body) + q] = x[q]
    <3>1. body \in Seq(W) /\ x \in Seq(W) /\ t1 = body \o x
      BY <1>3, <1>5, <1>10
    <3>2. QED
      BY <3>1, HeadOf
  <2>2. 1 \in 1..2 /\ 2 \in 1..2
    OBVIOUS
  <2>3. QED
    BY <1>5, <2>1, <2>2
<1>18. /\ t2 \in Seq(W) /\ Len(t2) = b + 3 /\ \A q \in 1..(b + 2) : t2[q] = t1[q]
       /\ t2[b + 3] = "notify"
  <2>1. /\ t2 \in Seq(W) /\ Len(t2) = Len(t1) + Len(y)
        /\ \A q \in 1..Len(t1) : t2[q] = t1[q]
        /\ \A q \in 1..Len(y) : t2[Len(t1) + q] = y[q]
    <3>1. t1 \in Seq(W) /\ y \in Seq(W) /\ t2 = t1 \o y
      BY <1>7, <1>11, <1>17
    <3>2. QED
      BY <3>1, HeadOf
  <2>2. 1 \in 1..1 /\ b + 2 + 1 = b + 3
    BY <1>16
  <2>3. QED
    BY <1>7, <1>17, <2>1, <2>2
<1>19. /\ t3 \in Seq(W) /\ Len(t3) = b + 5 /\ \A q \in 1..(b + 3) : t3[q] = t2[q]
       /\ t3[b + 4] = "LF" /\ t3[b + 5] = "CR"
  <2>1. /\ t3 \in Seq(W) /\ Len(t3) = Len(t2) + Len(x)
        /\ \A q \in 1..Len(t2) : t3[q] = t2[q]
        /\ \A q \in 1..Len(x) : t3[Len(t2) + q] = x[q]
    <3>1. t2 \in Seq(W) /\ x \in Seq(W) /\ t3 = t2 \o x
      BY <1>5, <1>12, <1>18
    <3>2. QED
      BY <3>1, HeadOf
  <2>2. 1 \in 1..2 /\ 2 \in 1..2 /\ b + 3 + 1 = b + 4 /\ b + 3 + 2 = b + 5
    BY <1>16
  <2>3. QED
    BY <1>5, <1>18, <2>1, <2>2
<1>20. /\ t4 \in Seq(W) /\ Len(t4) = b + 11 /\ \A q \in 1..(b + 5) : t4[q] = t3[q]
       /\ \A q \in 1..6 : t4[b + 5 + q] = z[q]
  <2>1. /\ t4 \in Seq(W) /\ Len(t4) = Len(t3) + Len(z)
        /\ \A q \in 1..Len(t3) : t4[q] = t3[q]
        /\ \A q \in 1..Len(z) : t4[Len(t3) + q] = z[q]
    <3>1. t3 \in Seq(W) /\ z \in Seq(W) /\ t4 = t3 \o z
      BY <1>9, <1>13, <1>19
    <3>2. QED
      BY <3>1, HeadOf
  <2>2. b + 5 + 6 = b + 11
    BY <1>16
  <2>3. QED
    BY <1>9, <1>19, <2>1, <2>2
<1>21. /\ text \in Seq(W) /\ Len(text) = b + 13 /\ \A q \in 1..(b + 11) : text[q] = t4[q]
       /\ text[b + 12] = "LF" /\ text[b + 13] = "CR"
  <2>1. /\ text \in Seq(W) /\ Len(text) = Len(t4) + Len(x)
        /\ \A q \in 1..Len(t4) : text[q] = t4[q]
        /\ \A q \in 1..Len(x) : text[Len(t4) + q] = x[q]
    <3>1. t4 \in Seq(W) /\ x \in Seq(W) /\ text = t4 \o x
      BY <1>5, <1>14, <1>20
    <3>2. QED
      BY <3>1, HeadOf
  <2>2. 1 \in 1..2 /\ 2 \in 1..2 /\ b + 11 + 1 = b + 12 /\ b + 11 + 2 = b + 13
    BY <1>16
  <2>3. QED
    BY <1>5, <1>20, <2>1, <2>2
<1>22. \A q \in 1..b : text[q] = body[q]
  <2> TAKE q \in 1..b
  <2>1. q \in 1..(b + 2) /\ q \in 1..(b + 3) /\ q \in 1..(b + 5) /\ q \in 1..(b + 11)
    BY <1>16
  <2>2. text[q] = t4[q] /\ t4[q] = t3[q] /\ t3[q] = t2[q]
    BY <1>19, <1>20, <1>21, <2>1
  <2>3. t2[q] = t1[q] /\ t1[q] = body[q]
    BY <1>17, <1>18, <2>1
  <2>4. QED
    BY <2>2, <2>3
<1>23. text[b + 1] = "LF" /\ text[b + 2] = "CR" /\ text[b + 3] = "notify"
  <2>1. ASSUME NEW q \in {b + 1, b + 2, b + 3}
        PROVE  /\ q \in 1..(b + 3) /\ q \in 1..(b + 5) /\ q \in 1..(b + 11)
               /\ q = b + 3 \/ q \in 1..(b + 2)
    BY <1>16
  <2>2. ASSUME NEW q \in {b + 1, b + 2, b + 3} PROVE text[q] = t2[q]
    <3>1. q \in 1..(b + 3) /\ q \in 1..(b + 5) /\ q \in 1..(b + 11)
      BY <2>1
    <3>2. text[q] = t4[q] /\ t4[q] = t3[q]
      BY <1>20, <1>21, <3>1
    <3>3. t3[q] = t2[q]
      BY <1>19, <3>1
    <3>4. QED
      BY <3>2, <3>3
  <2>3. b + 1 \in 1..(b + 2) /\ b + 2 \in 1..(b + 2)
    BY <1>16
  <2>4. QED
    BY <1>17, <1>18, <2>2, <2>3
<1>24. text[b + 4] = "LF" /\ text[b + 5] = "CR"
  <2>1. ASSUME NEW q \in {b + 4, b + 5} PROVE q \in 1..(b + 5) /\ q \in 1..(b + 11)
    BY <1>16
  <2>2. text[b + 4] = t4[b + 4] /\ text[b + 5] = t4[b + 5]
    BY <1>21, <2>1
  <2>3. t4[b + 4] = t3[b + 4] /\ t4[b + 5] = t3[b + 5]
    BY <1>20, <2>1
  <2>4. QED
    BY <1>19, <2>2, <2>3
<1>25. \A q \in 1..6 : text[b + 5 + q] = Trailer[q]
  <2> TAKE q \in 1..6
  <2>1. b + 5 + q \in 1..(b + 11)
    BY <1>16
  <2>2. QED
    BY <1>8, <1>20, <1>21, <2>1
<1>26. text \in Seq(Chars)
  BY <1>15, TextType DEF Said
<1>27. QED
  BY <1>15, <1>16, <1>21, <1>22, <1>23, <1>24, <1>25, <1>26 DEF LaidOut

-----------------------------------------------------------------------------
(* The records read of an answer are the ones meant.                       *)

\* The part lies in the text from i to j.
Holds(text, part, i, j) ==
  /\ i \in Nat \ {0} /\ j \in Int /\ j = i + Len(part) - 1 /\ j <= Len(text)
  /\ \A q \in 1..Len(part) : text[i + q - 1] = part[q]

LEMMA PartHeld ==
  ASSUME NEW P, NEW text \in Seq(P), NEW part \in Seq(P), NEW i, NEW j, Holds(text, part, i, j),
         NEW piece, piece = SubSeq(text, i, j)
  PROVE  piece = part
<1>1. PICK l \in Nat : l = Len(part)
  BY LenProperties
<1>2. /\ i \in Nat \ {0} /\ j \in Int /\ j = i + l - 1 /\ j <= Len(text)
      /\ \A q \in 1..l : text[i + q - 1] = part[q]
  BY <1>1 DEF Holds
<1>3. Len(text) \in Nat
  BY LenProperties
<1>4. \A k \in i..j : text[k] \in P
  <2>1. \A k \in i..j : k \in 1..Len(text)
    BY <1>2, <1>3
  <2>2. QED
    BY <2>1, ElementOfSeq
<1>5. i \in Int /\ j \in Int
  BY <1>2
<1>6. /\ piece \in Seq(P) /\ Len(piece) = (IF i <= j THEN j - i + 1 ELSE 0)
      /\ \A q \in 1..(j - i + 1) : piece[q] = text[i + q - 1]
  BY <1>4, <1>5, SubSeqProperties
<1>7. j - i + 1 = l /\ (IF i <= j THEN j - i + 1 ELSE 0) = l
  BY <1>1, <1>2
<1>8. Len(piece) = l /\ \A q \in 1..l : piece[q] = part[q]
  BY <1>2, <1>6, <1>7
<1>9. QED
  BY <1>1, <1>6, <1>8, SeqEqual

\* Where the lines of an answer end.
LEMMA SentEnds ==
  ASSUME NEW text, NEW body, NEW b, LaidOut(text, body, b),
         \A i \in DOMAIN body : body[i] # "LF", b = Len(body), DOMAIN body = 1..b
  PROVE  Ends(text) = {b + 1, b + 4, b + 12}
<1>1. /\ b \in Nat /\ text \in Seq(Chars) /\ Len(text) = b + 13
      /\ \A q \in 1..b : text[q] = body[q]
      /\ text[b + 1] = "LF" /\ text[b + 2] = "CR" /\ text[b + 3] = "notify"
      /\ text[b + 4] = "LF" /\ text[b + 5] = "CR"
      /\ \A q \in 1..6 : text[b + 5 + q] = Trailer[q]
      /\ text[b + 12] = "LF" /\ text[b + 13] = "CR"
  BY DEF LaidOut
<1>2. Ends(text) = {i \in 1..(b + 12) : text[i] = "LF" /\ text[i + 1] = "CR"}
  <2>1. Ends(text) = {i \in 1..(Len(text) - 1) : text[i] = "LF" /\ text[i + 1] = "CR"}
    BY <1>1, EndsAre
  <2>2. Len(text) - 1 = b + 12
    BY <1>1
  <2>3. QED
    BY <2>1, <2>2
<1>3. \A q \in 1..6 : Trailer[q] # "LF"
  <2>1. \A q \in 1..6 : q = 1 \/ q = 2 \/ q = 3 \/ q = 4 \/ q = 5 \/ q = 6
    OBVIOUS
  <2>2. /\ Trailer[1] = "error" /\ Trailer[2] = " " /\ Trailer[3] = "i" /\ Trailer[4] = "d"
        /\ Trailer[5] = "=" /\ Trailer[6] = "0"
    BY DEF Trailer
  <2>3. QED
    BY <2>1, <2>2
<1>4. ASSUME NEW i \in 1..(b + 12), text[i] = "LF" PROVE i \in {b + 1, b + 4, b + 12}
  <2>0. b \in Nat
    BY <1>1
  <2>1. i \notin 1..b
    <3>1. \A q \in 1..b : text[q] # "LF"
      <4>1. \A q \in 1..b : body[q] # "LF"
        OBVIOUS
      <4>2. \A q \in 1..b : text[q] = body[q]
        BY <1>1, Zenon
      <4>3. QED
        BY <4>1, <4>2, Zenon
    <3>2. QED
      BY <1>4, <3>1
  <2>2. i # b + 2 /\ i # b + 3 /\ i # b + 5
    <3>1. text[b + 2] # "LF" /\ text[b + 3] # "LF" /\ text[b + 5] # "LF"
      BY <1>1
    <3>2. QED
      BY <1>4, <3>1
  <2>3. ASSUME NEW q \in 1..6 PROVE i # b + 5 + q
    <3>1. text[b + 5 + q] # "LF"
      BY <1>1, <1>3
    <3>2. QED
      BY <1>4, <3>1
  <2>4. \/ i \in 1..b \/ i = b + 1 \/ i = b + 2 \/ i = b + 3 \/ i = b + 4 \/ i = b + 5
        \/ i = b + 12 \/ \E q \in 1..6 : i = b + 5 + q
    <3>1. i > b + 5 /\ i # b + 12 => i - (b + 5) \in 1..6 /\ i = b + 5 + (i - (b + 5))
      BY <2>0
    <3>2. i <= b + 5 => i \in 1..b \/ i = b + 1 \/ i = b + 2 \/ i = b + 3 \/ i = b + 4 \/ i = b + 5
      BY <2>0
    <3>3. i > b + 5 \/ i <= b + 5
      BY <2>0
    <3>4. QED
      BY <3>1, <3>2, <3>3
  <2>5. QED
    BY <2>1, <2>2, <2>3, <2>4
<1>5. \A i \in {b + 1, b + 4, b + 12} : i \in 1..(b + 12) /\ text[i] = "LF" /\ text[i + 1] = "CR"
  <2>1. /\ b + 1 \in 1..(b + 12) /\ b + 4 \in 1..(b + 12) /\ b + 12 \in 1..(b + 12)
        /\ (b + 1) + 1 = b + 2 /\ (b + 4) + 1 = b + 5 /\ (b + 12) + 1 = b + 13
    BY <1>1
  <2>2. text[(b + 1) + 1] = "CR" /\ text[(b + 4) + 1] = "CR" /\ text[(b + 12) + 1] = "CR"
    BY <1>1, <2>1
  <2>3. QED
    BY <1>1, <2>1, <2>2, Zenon
<1>6. QED
  BY <1>2, <1>4, <1>5

\* The lines of an answer.
Told(read, body) ==
  /\ read \in Seq(Seq(Chars)) /\ Len(read) <= 3
  /\ Len(read) >= 1 => read[1] = body
  /\ Len(read) >= 2 => read[2] = <<"notify">>
  /\ Len(read) >= 3 => read[3] = Trailer

\* What the host said is on its way as the answer it meant.
MeantInv == answer # None => answer \in Answers /\ stream = Sent(answer)

LEMMA LinesTold ==
  ASSUME FrameInv, MeantInv, answer # None
  PROVE  Told(lines, Body(answer))
<1>1. PICK body, b, P : body = Body(answer) /\ b = Len(body) /\ P = Wires(answer)
  OBVIOUS
<1>2. answer \in Answers /\ stream = Sent(answer)
  BY DEF MeantInv
<1>3. BodyIs(P, body, answer) /\ LaidOut(stream, body, b)
  BY <1>1, <1>2, BodyArrives, SentLaidOut
<1>4. body \in Seq(P) /\ \A i \in DOMAIN body : body[i] # "LF"
  BY <1>3 DEF BodyIs
<1>5. DOMAIN body = 1..b
  BY <1>1, <1>4, LenProperties
<1>6. Ends(stream) = {b + 1, b + 4, b + 12}
  BY <1>1, <1>3, <1>4, <1>5, SentEnds
<1>7. lines \in Seq(Seq(Chars))
  BY DEF FrameInv, ReaderType
<1>8. PICK n \in Nat : n = Len(lines) /\ DOMAIN lines = 1..n
  BY <1>7, LenProperties
<1>9. PICK end : Whole(end)
  BY DEF FrameInv
<1>10. /\ end \in [1..n -> {b + 1, b + 4, b + 12}]
       /\ \A k \in 1..n :
            /\ EndOf(end, k - 1) < end[k]
            /\ \A i \in {b + 1, b + 4, b + 12} : i > EndOf(end, k - 1) => i >= end[k]
            /\ lines[k] = SubSeq(stream, EndOf(end, k - 1) + 2, end[k] - 1)
  BY <1>6, <1>8, <1>9 DEF Whole
<1>11. b \in Nat
  BY <1>3 DEF LaidOut
<1>12. ASSUME n >= 1 PROVE end[1] = b + 1 /\ lines[1] = SubSeq(stream, 1, b)
  <2>1. 1 \in 1..n /\ EndOf(end, 1 - 1) = -1
    BY <1>12 DEF EndOf
  <2>2. end[1] \in {b + 1, b + 4, b + 12} /\ b + 1 >= end[1]
    BY <1>10, <1>11, <2>1
  <2>3. end[1] = b + 1
    BY <1>11, <2>2
  <2>4. lines[1] = SubSeq(stream, -1 + 2, (b + 1) - 1)
    BY <1>10, <2>1, <2>3
  <2>5. -1 + 2 = 1 /\ (b + 1) - 1 = b
    BY <1>11
  <2>6. QED
    BY <2>3, <2>4, <2>5
<1>13. ASSUME n >= 2 PROVE end[2] = b + 4 /\ lines[2] = SubSeq(stream, b + 3, b + 3)
  <2>1. 2 \in 1..n /\ EndOf(end, 2 - 1) = b + 1
    BY <1>12, <1>13 DEF EndOf
  <2>2. end[2] \in {b + 1, b + 4, b + 12} /\ b + 4 >= end[2] /\ b + 1 < end[2]
    BY <1>10, <1>11, <2>1
  <2>3. end[2] = b + 4
    BY <1>11, <2>2
  <2>4. lines[2] = SubSeq(stream, (b + 1) + 2, (b + 4) - 1)
    BY <1>10, <2>1, <2>3
  <2>5. (b + 1) + 2 = b + 3 /\ (b + 4) - 1 = b + 3
    BY <1>11
  <2>6. QED
    BY <2>3, <2>4, <2>5
<1>14. ASSUME n >= 3 PROVE end[3] = b + 12 /\ lines[3] = SubSeq(stream, b + 6, b + 11)
  <2>1. 3 \in 1..n /\ EndOf(end, 3 - 1) = b + 4
    BY <1>13, <1>14 DEF EndOf
  <2>2. end[3] \in {b + 1, b + 4, b + 12} /\ b + 4 < end[3]
    BY <1>10, <2>1
  <2>3. end[3] = b + 12
    BY <1>11, <2>2
  <2>4. lines[3] = SubSeq(stream, (b + 4) + 2, (b + 12) - 1)
    BY <1>10, <2>1, <2>3
  <2>5. (b + 4) + 2 = b + 6 /\ (b + 12) - 1 = b + 11
    BY <1>11
  <2>6. QED
    BY <2>3, <2>4, <2>5
<1>15. n <= 3
  <2>1. SUFFICES ASSUME n >= 4 PROVE FALSE
    OBVIOUS
  <2>2. 4 \in 1..n /\ EndOf(end, 4 - 1) = b + 12
    BY <1>14, <2>1 DEF EndOf
  <2>3. end[4] \in {b + 1, b + 4, b + 12} /\ b + 12 < end[4]
    BY <1>10, <2>2
  <2>4. QED
    BY <1>11, <2>3
<1>16. /\ stream \in Seq(Chars) /\ Len(stream) = b + 13
       /\ \A q \in 1..b : stream[q] = body[q]
       /\ stream[b + 3] = "notify" /\ \A q \in 1..6 : stream[b + 5 + q] = Trailer[q]
  BY <1>3 DEF LaidOut
<1>17. ASSUME n >= 1 PROVE lines[1] = body
  <2>1. PICK Q : Q = Chars \cup P
    OBVIOUS
  <2>2. stream \in Seq(Q) /\ body \in Seq(Q)
    <3>1. Chars \subseteq Q /\ P \subseteq Q
      BY <2>1
    <3>2. QED
      BY <1>4, <1>16, <3>1, SeqMonotonic
  <2>3. Holds(stream, body, 1, b)
    <3>1. \A q \in 1..b : 1 + q - 1 = q
      OBVIOUS
    <3>2. 1 \in Nat \ {0} /\ b \in Int /\ b = 1 + b - 1 /\ b <= b + 13
      BY <1>11
    <3>3. QED
      BY <1>1, <1>16, <3>1, <3>2 DEF Holds
  <2>4. QED
    BY <1>12, <1>17, <2>2, <2>3, PartHeld
<1>18. ASSUME n >= 2 PROVE lines[2] = <<"notify">>
  <2>1. PICK Q, part : Q = Chars \cup {"notify"} /\ part = <<"notify">>
    OBVIOUS
  <2>2. stream \in Seq(Q) /\ part \in Seq(Q) /\ Len(part) = 1 /\ part[1] = "notify"
    <3>1. Chars \subseteq Q /\ "notify" \in Q
      BY <2>1
    <3>2. QED
      BY <1>16, <2>1, <3>1, SeqMonotonic, WordsType
  <2>3. Holds(stream, part, b + 3, b + 3)
    <3>1. \A q \in 1..1 : q = 1 /\ b + 3 + q - 1 = b + 3
      BY <1>11
    <3>2. b + 3 \in Nat \ {0} /\ b + 3 \in Int /\ b + 3 = b + 3 + 1 - 1 /\ b + 3 <= b + 13
      BY <1>11
    <3>3. QED
      BY <1>16, <2>2, <3>1, <3>2 DEF Holds
  <2>4. PICK i : i = b + 3
    OBVIOUS
  <2>5. Holds(stream, part, i, i) /\ lines[2] = SubSeq(stream, i, i)
    BY <1>13, <1>18, <2>3, <2>4
  <2>6. PICK piece : piece = lines[2]
    OBVIOUS
  <2>7. piece = part
    BY <2>2, <2>5, <2>6, PartHeld
  <2>8. QED
    BY <2>1, <2>6, <2>7
<1>19. ASSUME n >= 3 PROVE lines[3] = Trailer
  <2>1. Trailer \in Seq(Chars) /\ Len(Trailer) = 6
    BY CharsHave, WordsType DEF Trailer
  <2>2. Holds(stream, Trailer, b + 6, b + 11)
    <3>1. \A q \in 1..6 : b + 6 + q - 1 = b + 5 + q
      BY <1>11
    <3>2. b + 6 \in Nat \ {0} /\ b + 11 \in Int /\ b + 11 = b + 6 + 6 - 1 /\ b + 11 <= b + 13
      BY <1>11
    <3>3. QED
      BY <1>16, <2>1, <3>1, <3>2 DEF Holds
  <2>3. PICK i, j : i = b + 6 /\ j = b + 11
    OBVIOUS
  <2>4. Holds(stream, Trailer, i, j) /\ lines[3] = SubSeq(stream, i, j)
    BY <1>14, <1>19, <2>2, <2>3
  <2>5. PICK piece, part : piece = lines[3] /\ part = Trailer
    OBVIOUS
  <2>6. stream \in Seq(Chars) /\ part \in Seq(Chars) /\ Holds(stream, part, i, j)
    BY <1>16, <2>1, <2>4, <2>5
  <2>7. piece = SubSeq(stream, i, j)
    BY <2>4, <2>5
  <2>8. piece = part
    BY <2>6, <2>7, PartHeld
  <2>9. QED
    BY <2>5, <2>8
<1>20. QED
  BY <1>1, <1>7, <1>8, <1>15, <1>17, <1>18, <1>19 DEF Told

LEMMA OtherStart ==
  ASSUME NEW P, NEW text \in Seq(P), NEW prefix \in Seq(P), prefix # <<>>,
         text # <<>>, text[1] # prefix[1]
  PROVE  ~StartsWith(text, prefix)
<1>1. PICK l \in Nat \ {0}, n \in Nat \ {0} : l = Len(prefix) /\ n = Len(text)
  BY LenProperties, EmptySeq
<1>2. SUFFICES ASSUME IsPrefix(prefix, text) PROVE FALSE
  BY DEF StartsWith
<1>3. PICK p, t : p = SubSeq(prefix, 1, l) /\ t = SubSeq(text, 1, l)
  OBVIOUS
<1>4. l <= n /\ p = t
  BY <1>1, <1>2, <1>3 DEF IsPrefix
<1>5. (\A k \in 1..l : prefix[k] \in P) /\ \A k \in 1..l : text[k] \in P
  <2>1. \A k \in 1..l : k \in 1..n
    BY <1>4
  <2>2. QED
    BY <1>1, <2>1, ElementOfSeq
<1>6. 1 \in Int /\ l \in Int
  OBVIOUS
<1>7. \A q \in 1..(l - 1 + 1) : p[q] = prefix[1 + q - 1]
  BY <1>3, <1>5, <1>6, SubSeqProperties
<1>8. \A q \in 1..(l - 1 + 1) : t[q] = text[1 + q - 1]
  BY <1>3, <1>5, <1>6, SubSeqProperties
<1>9. 1 \in 1..(l - 1 + 1) /\ 1 + 1 - 1 = 1
  OBVIOUS
<1>10. QED
  BY <1>4, <1>7, <1>8, <1>9

LEMMA SameStart ==
  ASSUME NEW P, NEW text \in Seq(P)
  PROVE  StartsWith(text, text)
BY LenProperties DEF StartsWith, IsPrefix

\* What was read of the answer.
HeardInv ==
  answer # None =>
    /\ records = IF lines = <<>> THEN <<>> ELSE RecordsOf(Body(answer))
    /\ status = "answered" => lines # <<>>

LEMMA InitMeant == Init => MeantInv /\ HeardInv
BY DEF Init, MeantInv, HeardInv

LEMMA NextMeant == MeantInv /\ [Next]_vars => MeantInv'
BY DEF MeantInv, Next, vars, RefuseLine, Recv, Closed, ReadLine, Publish, Done

\* The lines of an answer are known for what they are.
LEMMA KindsTold ==
  ASSUME NEW meant \in Answers, NEW line, line \in Seq(Chars)
  PROVE  /\ line = Body(meant) =>
              ~StartsWith(line, <<"error", " ">>) /\ ~StartsWith(line, <<"notify">>)
         /\ line = <<"notify">> => StartsWith(line, <<"notify">>)
         /\ line = Trailer => StartsWith(line, <<"error", " ">>)
<1>1. ASSUME line = Body(meant)
      PROVE  ~StartsWith(line, <<"error", " ">>) /\ ~StartsWith(line, <<"notify">>)
  <2>1. PICK P : P = Wires(meant)
    OBVIOUS
  <2>2. line \in Seq(P) /\ line # <<>> /\ line[1] \notin {"error", "notify"}
    <3>1. BodyIs(P, line, meant)
      BY <1>1, <2>1, BodyArrives
    <3>2. QED
      BY <3>1 DEF BodyIs
  <2>3. PICK Q, x, y : /\ Q = P \cup {"error", " ", "notify"} /\ x = <<"error", " ">>
                       /\ y = <<"notify">>
    OBVIOUS
  <2>4. /\ line \in Seq(Q) /\ x \in Seq(Q) /\ x # <<>> /\ x[1] = "error"
        /\ y \in Seq(Q) /\ y # <<>> /\ y[1] = "notify"
    <3>1. P \subseteq Q /\ "error" \in Q /\ " " \in Q /\ "notify" \in Q
      BY <2>3
    <3>2. line \in Seq(Q)
      BY <2>2, <3>1, SeqMonotonic
    <3>3. x \in Seq(Q) /\ x # <<>> /\ x[1] = "error"
      BY <2>3, <3>1, WordsType
    <3>4. y \in Seq(Q) /\ y # <<>> /\ y[1] = "notify"
      BY <2>3, <3>1, WordsType
    <3>5. QED
      BY <3>2, <3>3, <3>4
  <2>5. ~StartsWith(line, x) /\ ~StartsWith(line, y)
    BY <2>2, <2>4, OtherStart
  <2>6. QED
    BY <2>3, <2>5
<1>2. ASSUME line = <<"notify">> PROVE StartsWith(line, <<"notify">>)
  BY <1>2, SameStart
<1>3. ASSUME line = Trailer PROVE StartsWith(line, <<"error", " ">>)
  <2>1. PICK x : x = <<"error", " ">>
    OBVIOUS
  <2>2. PICK m \in Nat : m = Len(x) /\ m = 2
    BY <2>1
  <2>3. PICK n \in Nat : n = Len(line) /\ n = 6
    BY <1>3 DEF Trailer
  <2>13. x \in Seq(Chars)
    BY <2>1, CharsHave, WordsType
  <2>14. line[1] = x[1] /\ line[2] = x[2]
    BY <1>3, <2>1 DEF Trailer
  <2>5. /\ \A q \in 1..m : (q = 1 \/ q = 2) /\ 1 + q - 1 = q
        /\ 1 \in Nat \ {0} /\ m \in Int /\ m = 1 + m - 1 /\ m <= n /\ m <= m
    BY <2>2, <2>3
  <2>6. Holds(x, x, 1, m)
    <3>1. \A q \in 1..m : x[1 + q - 1] = x[q]
      BY <2>5
    <3>2. QED
      BY <2>2, <2>5, <3>1, Zenon DEF Holds
  <2>7. Holds(line, x, 1, m)
    <3>1. \A q \in 1..m : line[q] = x[q]
      BY <2>14, <2>5
    <3>2. \A q \in 1..m : line[1 + q - 1] = x[q]
      BY <2>5, <3>1
    <3>3. QED
      BY <2>2, <2>3, <2>5, <3>2, Zenon DEF Holds
  <2>8. PICK p, t : p = SubSeq(x, 1, m) /\ t = SubSeq(line, 1, m)
    OBVIOUS
  <2>9. p = x
    BY <2>13, <2>6, <2>8, PartHeld
  <2>10. t = x
    <3>1. line \in Seq(Chars) /\ x \in Seq(Chars) /\ t = SubSeq(line, 1, m)
      BY <2>8, <2>13
    <3>2. QED
      BY <3>1, <2>7, PartHeld
  <2>11. Len(x) <= Len(line) /\ SubSeq(x, 1, Len(x)) = SubSeq(line, 1, Len(x))
    <3>1. Len(x) = m /\ Len(x) <= Len(line)
      BY <2>2, <2>3, <2>5, Zenon
    <3>2. QED
      BY <2>8, <2>9, <2>10, <3>1
  <2>12. QED
    BY <2>1, <2>11 DEF StartsWith, IsPrefix
<1>4. QED
  BY <1>1, <1>2, <1>3

\* Every line read is one the answer was made of, so its records are read once.
LEMMA NextHeard ==
  ASSUME FrameInv, FrameInv', MeantInv, MeantInv', HeardInv, [Next]_vars,
         answer # None => Told(lines, Body(answer)),
         answer' # None => Told(lines', Body(answer'))
  PROVE  HeardInv'
<1> SUFFICES ASSUME answer' # None
             PROVE  /\ records' = IF lines' = <<>> THEN <<>> ELSE RecordsOf(Body(answer'))
                    /\ status' = "answered" => lines' # <<>>
  BY DEF HeardInv
<1>1. answer' = answer
  BY DEF Next, vars, RefuseLine, Recv, Closed, ReadLine, Publish, Done
<1>2. /\ records = IF lines = <<>> THEN <<>> ELSE RecordsOf(Body(answer))
      /\ status = "answered" => lines # <<>>
  BY <1>1 DEF HeardInv
<1>3. CASE ~ReadLine
  <2>1. lines' = lines /\ records' = records /\ (status' = "answered" => status = "answered")
    BY <1>3 DEF Next, vars, RefuseLine, Recv, Closed, Publish, Done
  <2>2. QED
    BY <1>1, <1>2, <2>1
<1>4. CASE ReadLine
  <2>1. PICK meant, body, line : meant = answer /\ body = Body(answer) /\ line = Line
    OBVIOUS
  <2>2. meant \in Answers
    BY <1>1, <2>1 DEF MeantInv
  <2>3. PICK n \in Nat : n = Len(lines)
    BY LenProperties DEF FrameInv, ReaderType
  <2>4. line \in Seq(Chars)
    BY <1>4, <2>1, LineType DEF FrameInv, ReaderType, ReadLine
  <2>5. /\ lines' \in Seq(Seq(Chars)) /\ Len(lines') = n + 1 /\ lines'[n + 1] = line
        /\ lines' # <<>>
    <3>1. lines' = Append(lines, line) /\ lines \in Seq(Seq(Chars))
      BY <1>4, <2>1 DEF ReadLine, FrameInv, ReaderType
    <3>2. /\ lines' \in Seq(Seq(Chars)) /\ Len(lines') = n + 1 /\ lines'[n + 1] = line
      BY <2>3, <2>4, <3>1, AppendProperties
    <3>3. QED
      BY <2>3, <3>2, EmptySeq
  <2>6. /\ n = 0 => line = body
        /\ n = 1 => line = <<"notify">>
        /\ n = 2 => line = Trailer
        /\ n \in {0, 1, 2}
    <3>1. /\ Len(lines') <= 3
          /\ Len(lines') >= 1 => lines'[1] = body
          /\ Len(lines') >= 2 => lines'[2] = <<"notify">>
          /\ Len(lines') >= 3 => lines'[3] = Trailer
      BY <1>1, <2>1 DEF Told
    <3>2. n \in {0, 1, 2}
      BY <2>3, <2>5, <3>1
    <3>3. ASSUME n = 0 PROVE line = body
      BY <2>5, <3>1, <3>3
    <3>4. ASSUME n = 1 PROVE line = <<"notify">>
      <4>1. Len(lines') = 2 /\ lines'[2] = line
        BY <2>5, <3>4
      <4>2. QED
        BY <3>1, <4>1
    <3>5. ASSUME n = 2 PROVE line = Trailer
      <4>1. Len(lines') = 3 /\ lines'[3] = line
        BY <2>5, <3>5
      <4>2. QED
        BY <3>1, <4>1
    <3>6. QED
      BY <3>2, <3>3, <3>4, <3>5
  <2>7. \/ StartsWith(line, <<"error", " ">>) /\ records' = records
        \/ StartsWith(line, <<"notify">>) /\ records' = records
        \/ /\ ~StartsWith(line, <<"error", " ">>) /\ ~StartsWith(line, <<"notify">>)
           /\ records' = records \o RecordsOf(line)
    BY <1>4, <2>1 DEF ReadLine
  <2>8. /\ line = body => ~StartsWith(line, <<"error", " ">>) /\ ~StartsWith(line, <<"notify">>)
        /\ line = <<"notify">> => StartsWith(line, <<"notify">>)
        /\ line = Trailer => StartsWith(line, <<"error", " ">>)
    BY <2>1, <2>2, <2>4, KindsTold
  <2>9. CASE n = 0
    <3>1. records = <<>>
      <4>1. lines = <<>>
        BY <2>3, <2>9, EmptySeq DEF FrameInv, ReaderType
      <4>2. QED
        BY <1>2, <4>1
    <3>2. RecordsOf(line) \in Seq(Records(Chars))
      <4>1. Raws \subseteq Chars
        BY CharsHave
      <4>2. QED
        BY <2>4, <4>1, RecordsType
    <3>3. PICK r : r = RecordsOf(line)
      OBVIOUS
    <3>4. <<>> \o r = r
      BY <3>2, <3>3, ConcatEmptySeq
    <3>5. records' = r
      BY <2>6, <2>7, <2>8, <2>9, <3>1, <3>3, <3>4
    <3>6. QED
      BY <1>1, <2>1, <2>5, <2>6, <2>9, <3>3, <3>5
  <2>10. CASE n # 0
    <3>1. records' = records
      BY <2>6, <2>7, <2>8, <2>10
    <3>2. lines # <<>>
      BY <2>3, <2>10, EmptySeq
    <3>3. QED
      BY <1>1, <1>2, <2>5, <3>1, <3>2
  <2>11. QED
    BY <2>9, <2>10
<1>5. QED
  BY <1>3, <1>4

LEMMA HeardArrives ==
  ASSUME FrameInv, MeantInv, HeardInv
  PROVE  AnswerArrives
<1> SUFFICES ASSUME status = "answered", answer # None
             PROVE  /\ Len(records) = Len(answer)
                    /\ \A k \in DOMAIN answer :
                         /\ DOMAIN records[k] = DOMAIN answer[k]
                         /\ \A key \in DOMAIN answer[k] :
                              records[k][key] \in {answer[k][key], Trimmed(answer[k][key])}
  BY DEF AnswerArrives
<1>1. PICK body, P : body = Body(answer) /\ P = Wires(answer)
  OBVIOUS
<1>2. answer \in Answers /\ records = RecordsOf(body)
  BY <1>1 DEF MeantInv, HeardInv
<1>3. BodyIs(P, body, answer)
  BY <1>1, <1>2, BodyArrives
<1>4. Arrived(records, answer)
  BY <1>2, <1>3 DEF BodyIs
<1>5. QED
  BY <1>4 DEF Arrived, Read

\* AnswerArrives (_read_response, serverquery.py 185-195, and decode_record, wire.py
\* 52-61): whatever the values of an answer contain and however it is cut, the records
\* read are the ones meant.
THEOREM Arrives == Spec => []AnswerArrives
<1>1. Init => FrameInv /\ MeantInv /\ HeardInv
  BY InitFrame, InitMeant
<1>2. FrameInv /\ [Next]_vars => FrameInv'
  BY NextFrame
<1>3. MeantInv /\ [Next]_vars => MeantInv'
  BY NextMeant
<1>4. FrameInv /\ MeantInv => (answer # None => Told(lines, Body(answer)))
  BY LinesTold
<1>5. FrameInv /\ FrameInv' /\ MeantInv /\ MeantInv'
        /\ (answer # None => Told(lines, Body(answer)))
        /\ (answer # None => Told(lines, Body(answer)))'
        /\ HeardInv /\ [Next]_vars => HeardInv'
  BY NextHeard
<1>6. FrameInv /\ MeantInv /\ HeardInv => AnswerArrives
  BY HeardArrives
<1>7. QED
  BY <1>1, <1>2, <1>3, <1>4, <1>5, <1>6, PTL DEF Spec
===============================================================================
