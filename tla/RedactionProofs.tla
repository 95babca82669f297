--------------------------- MODULE RedactionProofs ---------------------------
(***************************************************************************)
(* redact's promise, for every text, every set of secrets and both markers *)
(* -- and what the passes over texts it is made of return.                 *)
(***************************************************************************)
EXTENDS Redaction, SequenceTheorems, WellFoundedInduction, TLAPS

\* A set of numbers has a least one ...
LEMMA LeastOf ==
  ASSUME NEW S, S \subseteq Nat, S # {}
  PROVE  \E m \in S : \A i \in S : m <= i
<1>1. PICK m \in S : \A i \in S : ~(<<i, m>> \in OpToRel(<, Nat))
  <2>1. \A R, U, V : IsWellFoundedOn(R, U) /\ V \subseteq U /\ V # {} =>
          \E x \in V : \A y \in V : ~(<<y, x>> \in R)
    BY WFMin
  <2>2. QED
    BY <2>1, NatLessThanWellFounded
<1>2. \A i \in S : ~(i < m)
  BY <1>1 DEF OpToRel
<1>3. QED
  BY <1>2

\* ... and a bounded one a greatest: what holds at a place if it holds at the places
\* behind it holds everywhere.
LEMMA GreatestOf ==
  ASSUME NEW n \in Nat, NEW S, S \subseteq 1..n, S # {}
  PROVE  \E m \in S : \A i \in S : i <= m
<1> DEFINE T == {k \in Nat : n - k \in S}
<1>1. T \subseteq Nat /\ T # {}
  <2>1. PICK i \in S : TRUE
    OBVIOUS
  <2>2. n - i \in Nat /\ n - (n - i) = i
    BY <2>1
  <2>3. QED
    BY <2>1, <2>2
<1>2. PICK m \in T : \A i \in T : m <= i
  <2> HIDE DEF T
  <2>1. QED
    BY <1>1, LeastOf
<1>3. ASSUME NEW i \in S PROVE i <= n - m
  <2>1. i \in 1..n /\ m \in Nat
    BY <1>2
  <2>2. n - i \in T
    BY <2>1
  <2>3. m <= n - i
    <3> HIDE DEF T
    <3>1. QED
      BY <1>2, <2>2
  <2>4. QED
    BY <2>1, <2>3
<1>4. QED
  BY <1>2, <1>3

LEMMA MinOf ==
  ASSUME NEW S, S \subseteq Nat, S # {}
  PROVE  Min(S) \in S /\ \A i \in S : Min(S) <= i
<1>1. \E m \in S : \A i \in S : m <= i
  BY LeastOf
<1>2. QED
  BY <1>1 DEF Min

LEMMA MaxOf ==
  ASSUME NEW n \in Nat, NEW S, S \subseteq 1..n, S # {}
  PROVE  Max(S) \in S /\ \A i \in S : i <= Max(S)
<1>1. \E m \in S : \A i \in S : i <= m
  BY GreatestOf
<1>2. PICK m \in S : \A i \in S : i <= m
  BY <1>1
<1>3. \A i \in S : m >= i
  BY <1>2
<1>4. QED
  BY <1>3 DEF Max

-----------------------------------------------------------------------------
(* One pass of re.sub.                                                     *)

\* A pass over a text of that length: what is written, how far it is to the next.
IsPass(P, length, written, width) ==
  /\ length \in Nat
  /\ \A i \in 1..length :
       /\ written[i] \in Seq(P)
       /\ width[i] \in Nat \ {0} /\ i + width[i] <= length + 1

\* The texts from place k on.
IsRest(P, length, written, width, k, f) ==
  /\ f \in [k..(length + 1) -> Seq(P)]
  /\ f[length + 1] = <<>>
  /\ \A i \in k..length : f[i] = written[i] \o f[i + width[i]]

LEMMA RestExists ==
  ASSUME NEW P, NEW n, NEW w, NEW d, IsPass(P, n, w, d)
  PROVE  \E f : IsRest(P, n, w, d, 1, f)
<1>1. n \in Nat
  BY DEF IsPass
<1> DEFINE S == {k \in 1..(n + 1) : ~\E f : IsRest(P, n, w, d, k, f)}
<1>6. S \subseteq 1..(n + 1) /\ n + 1 \in Nat /\ (S = {} => \E f : IsRest(P, n, w, d, 1, f))
  BY <1>1
<1> SUFFICES ASSUME S # {} PROVE FALSE
  BY <1>6
<1>2. PICK m \in S : \A i \in S : i <= m
  <2> HIDE DEF S
  <2>1. QED
    BY <1>6, GreatestOf
<1>3. CASE m = n + 1
  <2>1. <<>> \in Seq(P)
    BY EmptySeq
  <2>2. IsRest(P, n, w, d, n + 1, [i \in (n + 1)..(n + 1) |-> <<>>])
    <3> DEFINE f == [i \in (n + 1)..(n + 1) |-> <<>>]
    <3>1. f \in [(n + 1)..(n + 1) -> Seq(P)] /\ f[n + 1] = <<>> /\ (n + 1)..n = {}
      BY <1>1, <2>1
    <3> HIDE DEF f
    <3>2. IsRest(P, n, w, d, n + 1, f)
      BY <3>1 DEF IsRest
    <3>3. QED
      BY <3>2 DEF f
  <2>3. QED
    BY <1>2, <1>3, <2>2
<1>4. CASE m # n + 1
  <2>1. m \in 1..n /\ m + 1 \in 1..(n + 1) /\ m + 1 \notin S
    BY <1>1, <1>2, <1>4
  <2>2. PICK f : IsRest(P, n, w, d, m + 1, f)
    BY <2>1
  <2>3. /\ f \in [(m + 1)..(n + 1) -> Seq(P)] /\ f[n + 1] = <<>>
        /\ \A i \in (m + 1)..n : f[i] = w[i] \o f[i + d[i]]
    BY <2>2 DEF IsRest
  <2>4. w[m] \in Seq(P) /\ d[m] \in Nat \ {0} /\ m + d[m] \in (m + 1)..(n + 1)
    BY <1>1, <2>1 DEF IsPass
  <2>5. w[m] \o f[m + d[m]] \in Seq(P)
    BY <2>3, <2>4, ConcatProperties
  <2> DEFINE v == w[m] \o f[m + d[m]]
             h == [i \in m..(n + 1) |-> IF i = m THEN v ELSE f[i]]
  <2>6. v \in Seq(P) /\ v = w[m] \o f[m + d[m]]
    BY <2>5
  <2> HIDE DEF v
  <2>7. h \in [m..(n + 1) -> Seq(P)] /\ h[n + 1] = <<>>
    BY <1>1, <2>1, <2>3, <2>6
  <2>8. ASSUME NEW i \in m..n PROVE h[i] = w[i] \o h[i + d[i]]
    <3>1. i + d[i] \in (i + 1)..(n + 1) /\ i \in 1..n
      BY <1>1, <2>1 DEF IsPass
    <3>2. h[i + d[i]] = f[i + d[i]]
      BY <1>1, <2>1, <3>1
    <3>3. CASE i = m
      <4>1. h[m] = v
        BY <1>1, <2>1
      <4>2. QED
        BY <2>6, <3>2, <3>3, <4>1
    <3>4. CASE i # m
      <4>1. i \in (m + 1)..n /\ h[i] = f[i]
        BY <1>1, <2>1, <3>4
      <4>2. QED
        BY <2>3, <3>2, <4>1
    <3>5. QED
      BY <3>3, <3>4
  <2> HIDE DEF h
  <2>9. IsRest(P, n, w, d, m, h)
    BY <2>7, <2>8 DEF IsRest
  <2>10. QED
    BY <1>2, <2>9
<1>5. QED
  BY <1>3, <1>4

\* The pass is defined, and what it writes is what a solution of its recursion has
\* at the first place.
LEMMA PassDefined ==
  ASSUME NEW P, NEW n, NEW w, NEW d, IsPass(P, n, w, d)
  PROVE  \E f : IsRest(P, n, w, d, 1, f) /\ Rewritten(n, w, d) = f[1]
<1>1. n \in Nat
  BY DEF IsPass
<1> DEFINE Body(f) == [i \in 1..(n + 1) |-> IF i > n THEN <<>> ELSE w[i] \o f[i + d[i]]]
           from == CHOOSE f : f = Body(f)
<1>2. PICK g : IsRest(P, n, w, d, 1, g)
  BY RestExists
<1>3. /\ g \in [1..(n + 1) -> Seq(P)] /\ g[n + 1] = <<>>
      /\ \A i \in 1..n : g[i] = w[i] \o g[i + d[i]]
  BY <1>2 DEF IsRest
<1>4. g = Body(g)
  <2> DEFINE h == Body(g)
  <2>1. \A i \in 1..(n + 1) : g[i] = h[i]
    <3> TAKE i \in 1..(n + 1)
    <3>1. CASE i > n
      BY <1>1, <1>3, <3>1
    <3>2. CASE ~(i > n)
      <4>1. i \in 1..n
        BY <1>1, <3>2
      <4>2. QED
        BY <1>3, <3>2, <4>1
    <3>3. QED
      BY <3>1, <3>2
  <2>2. h = [i \in 1..(n + 1) |-> h[i]]
    OBVIOUS
  <2> HIDE DEF h
  <2>3. g = h
    BY <1>3, <2>1, <2>2
  <2>4. QED
    BY <2>3 DEF h
<1>5. from = Body(from)
  BY <1>4
<1>6. Rewritten(n, w, d) = from[1]
  BY DEF Rewritten
<1> HIDE DEF from
<1>7. ASSUME NEW i \in 1..n PROVE from[i] = w[i] \o from[i + d[i]]
  <2>1. i \in 1..(n + 1) /\ ~(i > n)
    BY <1>1
  <2>2. Body(from)[i] = w[i] \o from[i + d[i]]
    BY <2>1
  <2>3. QED
    BY <1>5, <2>2
<1>8. from[n + 1] = <<>> /\ DOMAIN from = 1..(n + 1) /\ from = [i \in 1..(n + 1) |-> from[i]]
  <2>1. Body(from)[n + 1] = <<>> /\ DOMAIN Body(from) = 1..(n + 1)
        /\ Body(from) = [i \in 1..(n + 1) |-> Body(from)[i]]
    BY <1>1
  <2>2. QED
    BY <1>5, <2>1
<1> DEFINE S == {k \in 1..(n + 1) : from[k] \notin Seq(P)}
<1>9. ASSUME S # {} PROVE FALSE
  <2>1. PICK m \in S : \A i \in S : i <= m
    <3>1. S \subseteq 1..(n + 1) /\ n + 1 \in Nat
      BY <1>1
    <3> HIDE DEF S
    <3>2. QED
      BY <1>9, <3>1, GreatestOf
  <2>2. m # n + 1
    BY <1>8, <2>1, EmptySeq
  <2>3. m \in 1..n
    BY <1>1, <2>1, <2>2
  <2>4. w[m] \in Seq(P) /\ m + d[m] \in 1..(n + 1) /\ m + d[m] > m
    BY <1>1, <2>3 DEF IsPass
  <2>5. from[m + d[m]] \in Seq(P)
    BY <1>1, <2>1, <2>3, <2>4
  <2>6. QED
    BY <1>7, <2>1, <2>3, <2>4, <2>5, ConcatProperties
<1>10. IsRest(P, n, w, d, 1, from)
  BY <1>7, <1>8, <1>9 DEF IsRest
<1>11. QED
  BY <1>6, <1>10

\* So the text it writes is a text.
LEMMA PassType ==
  ASSUME NEW P, NEW n, NEW w, NEW d, IsPass(P, n, w, d)
  PROVE  Rewritten(n, w, d) \in Seq(P)
<1>1. n \in Nat /\ 1 \in 1..(n + 1)
  BY DEF IsPass
<1>2. PICK f : IsRest(P, n, w, d, 1, f) /\ Rewritten(n, w, d) = f[1]
  BY PassDefined
<1>3. QED
  BY <1>1, <1>2 DEF IsRest

-----------------------------------------------------------------------------
(* Censoring.                                                              *)

\* An occurrence, place by place.
LEMMA Occurrence ==
  ASSUME NEW P, NEW s \in Seq(P), NEW t \in Seq(P), NEW i \in Nat \ {0}
  PROVE  Occurs(s, t, i) <=> /\ i + Len(s) - 1 <= Len(t)
                             /\ \A q \in 1..Len(s) : t[i + q - 1] = s[q]
<1> DEFINE e == i + Len(s) - 1
<1>1. Len(s) \in Nat /\ Len(t) \in Nat /\ e \in Int /\ i \in Int
  BY LenProperties
<1>2. SUFFICES ASSUME e <= Len(t)
               PROVE  SubSeq(t, i, e) = s <=> \A q \in 1..Len(s) : t[i + q - 1] = s[q]
  BY DEF Occurs
<1>3. \A j \in i..e : t[j] \in P
  BY <1>1, <1>2, ElementOfSeq
<1> HIDE DEF e
<1>4. /\ SubSeq(t, i, e) \in Seq(P)
      /\ Len(SubSeq(t, i, e)) = (IF i <= e THEN e - i + 1 ELSE 0)
      /\ \A q \in 1..(e - i + 1) : SubSeq(t, i, e)[q] = t[i + q - 1]
  BY <1>1, <1>3, SubSeqProperties
<1>5. e - i + 1 = Len(s)
  BY <1>1 DEF e
<1>6. Len(SubSeq(t, i, e)) = Len(s)
  BY <1>1, <1>4, <1>5
<1>7. \A q \in 1..Len(s) : SubSeq(t, i, e)[q] = t[i + q - 1]
  BY <1>4, <1>5
<1>8. ASSUME \A q \in 1..Len(s) : t[i + q - 1] = s[q]
      PROVE  SubSeq(t, i, e) = s
  <2>1. \A q \in 1..Len(s) : SubSeq(t, i, e)[q] = s[q]
    BY <1>7, <1>8
  <2>2. QED
    BY <1>4, <1>6, <2>1, SeqEqual
<1>9. QED
  BY <1>7, <1>8

\* f[i] is what a censored text has from the place on that the text has at i: where
\* no secret begins, one piece is copied; where one does, the marker replaces it.
Censors(P, text, S, marker, f) ==
  /\ f \in [1..(Len(text) + 1) -> Seq(P)]
  /\ f[Len(text) + 1] = <<>>
  /\ \A i \in 1..Len(text) :
       \/ /\ \A s \in S : ~Occurs(s, text, i)
          /\ f[i] = <<text[i]>> \o f[i + 1]
       \/ \E s \in S : /\ Occurs(s, text, i)
                       /\ i + Len(s) \in (i + 1)..(Len(text) + 1)
                       /\ f[i] = marker \o f[i + Len(s)]

LEMMA CensoredPass ==
  ASSUME NEW P, NEW text \in Seq(P), NEW Q, NEW S, S \subseteq Seq(Q) \ {<<>>},
         NEW marker \in Seq(P)
  PROVE  \E f : Censors(P, text, S, marker, f) /\ Censored(text, S, marker) = f[1]
<1> DEFINE At(i) == {s \in S : Occurs(s, text, i)}
           Longest(i) == CHOOSE s \in At(i) : \A t \in At(i) : Len(t) <= Len(s)
           w == [i \in DOMAIN text |-> IF At(i) = {} THEN <<text[i]>> ELSE marker]
           d == [i \in DOMAIN text |-> IF At(i) = {} THEN 1 ELSE Len(Longest(i))]
           n == Len(text)
<1>1. n \in Nat /\ DOMAIN text = 1..n
  BY LenProperties
<1>2. Censored(text, S, marker) = Rewritten(n, w, d)
  BY DEF Censored
<1>3. ASSUME NEW i \in 1..n, NEW s \in At(i)
      PROVE  Len(s) \in 1..n /\ i + Len(s) <= n + 1
  <2>1. s \in Seq(Q) /\ s # <<>> /\ Occurs(s, text, i)
    BY <1>3
  <2>2. Len(s) \in Nat \ {0}
    BY <2>1, EmptySeq
  <2>3. QED
    BY <1>1, <2>1, <2>2 DEF Occurs
<1>4. ASSUME NEW i \in 1..n, At(i) # {} PROVE Longest(i) \in At(i)
  <2> DEFINE L == {Len(s) : s \in At(i)}
  <2>1. L \subseteq 1..n /\ L # {}
    BY <1>3, <1>4
  <2> HIDE DEF At
  <2>2. PICK m \in L : \A l \in L : l <= m
    <3> HIDE DEF L
    <3>1. QED
      BY <1>1, <2>1, GreatestOf
  <2>3. PICK s \in At(i) : m = Len(s)
    BY <2>2
  <2>4. \A t \in At(i) : Len(t) <= Len(s)
    BY <2>2, <2>3
  <2>5. QED
    BY <2>4
<1>5. ASSUME NEW i \in 1..n
      PROVE  \/ At(i) = {} /\ w[i] = <<text[i]>> /\ d[i] = 1
             \/ Longest(i) \in At(i) /\ w[i] = marker /\ d[i] = Len(Longest(i))
  <2> HIDE DEF At, Longest
  <2>1. i \in DOMAIN text
    BY <1>1
  <2>2. QED
    BY <1>4, <2>1
<1> HIDE DEF At, Longest, w, d
<1>6. IsPass(P, n, w, d)
  <2>1. ASSUME NEW i \in 1..n
        PROVE  w[i] \in Seq(P) /\ d[i] \in Nat \ {0} /\ i + d[i] <= n + 1
    <3>1. text[i] \in P
      BY <1>1, ElementOfSeq
    <3>2. <<text[i]>> \in Seq(P)
      BY <3>1
    <3>3. CASE At(i) = {} /\ w[i] = <<text[i]>> /\ d[i] = 1
      BY <1>1, <3>2, <3>3
    <3>4. CASE Longest(i) \in At(i) /\ w[i] = marker /\ d[i] = Len(Longest(i))
      BY <1>1, <1>3, <3>4
    <3>5. QED
      BY <1>5, <3>3, <3>4
  <2>2. QED
    BY <1>1, <2>1 DEF IsPass
<1>7. PICK f : IsRest(P, n, w, d, 1, f) /\ Rewritten(n, w, d) = f[1]
  BY <1>6, PassDefined
<1>8. /\ f \in [1..(n + 1) -> Seq(P)] /\ f[n + 1] = <<>>
      /\ \A i \in 1..n : f[i] = w[i] \o f[i + d[i]]
  BY <1>7 DEF IsRest
<1>9. ASSUME NEW i \in 1..n
      PROVE  \/ /\ \A s \in S : ~Occurs(s, text, i)
                /\ f[i] = <<text[i]>> \o f[i + 1]
             \/ \E s \in S : /\ Occurs(s, text, i)
                             /\ i + Len(s) \in (i + 1)..(n + 1)
                             /\ f[i] = marker \o f[i + Len(s)]
  <2>1. f[i] = w[i] \o f[i + d[i]]
    BY <1>8
  <2>2. CASE At(i) = {} /\ w[i] = <<text[i]>> /\ d[i] = 1
    BY <2>1, <2>2 DEF At
  <2>3. CASE Longest(i) \in At(i) /\ w[i] = marker /\ d[i] = Len(Longest(i))
    <3>1. Longest(i) \in S /\ Occurs(Longest(i), text, i)
      BY <2>3 DEF At
    <3>2. i + Len(Longest(i)) \in (i + 1)..(n + 1)
      BY <1>1, <1>3, <2>3
    <3>3. f[i] = marker \o f[i + Len(Longest(i))]
      BY <2>1, <2>3
    <3>4. QED
      BY <3>1, <3>2, <3>3
  <2>4. QED
    BY <1>5, <2>2, <2>3
<1>10. Censors(P, text, S, marker, f)
  BY <1>8, <1>9 DEF Censors
<1>11. QED
  BY <1>2, <1>7, <1>10

\* No piece of the marker is in the secret.
Foreign(marker, secret) ==
  \A i \in DOMAIN secret, j \in DOMAIN marker : secret[i] # marker[j]

\* A marker foreign to every secret leaves none and makes up none: an occurrence
\* would have to lie in a stretch that was copied, and there the pass would have
\* stopped at it.
LEMMA CensoredClean ==
  ASSUME NEW P, NEW text \in Seq(P), NEW S, S \subseteq Seq(P) \ {<<>>},
         NEW marker \in Seq(P), marker # <<>>, \A s \in S : Foreign(marker, s)
  PROVE  ~Leaks(Censored(text, S, marker), S)
<1> DEFINE n == Len(text)
<1>1. n \in Nat /\ Len(marker) \in Nat \ {0} /\ DOMAIN marker = 1..Len(marker)
  BY LenProperties, EmptySeq
<1>9. PICK f : Censors(P, text, S, marker, f) /\ Censored(text, S, marker) = f[1]
  BY CensoredPass
<1>2. /\ Censored(text, S, marker) = f[1]
      /\ f \in [1..(n + 1) -> Seq(P)]
      /\ f[n + 1] = <<>>
      /\ \A i \in 1..n :
           \/ /\ \A s \in S : ~Occurs(s, text, i)
              /\ f[i] = <<text[i]>> \o f[i + 1]
           \/ \E s \in S : /\ Occurs(s, text, i)
                           /\ i + Len(s) \in (i + 1)..(n + 1)
                           /\ f[i] = marker \o f[i + Len(s)]
  BY <1>9 DEF Censors
<1> HIDE DEF n
<1>3. \A i \in 1..(n + 1) : f[i] \in Seq(P) /\ Len(f[i]) \in Nat /\ DOMAIN f[i] = 1..Len(f[i])
  BY <1>1, <1>2, LenProperties
<1>4. SUFFICES ASSUME NEW s \in S PROVE ~Contained(s, f[1])
  <2>1. 1 \in 1..(n + 1)
    BY <1>1
  <2>2. QED
    BY <1>2, <1>3, <2>1 DEF Leaks
<1>5. s \in Seq(P) /\ Len(s) \in Nat \ {0} /\ DOMAIN s = 1..Len(s)
  BY LenProperties, EmptySeq
<1>6. \A p \in 1..Len(s), q \in 1..Len(marker) : s[p] # marker[q]
  BY <1>1, <1>5 DEF Foreign
\* From place j of the secret on, it is at the beginning of what is written for i.
<1> DEFINE Begins(i, j) == /\ Len(s) - j <= Len(f[i])
                           /\ \A q \in 1..(Len(s) - j) : f[i][q] = s[j + q]
           InText(i, j) == /\ i + Len(s) - j - 1 <= n
                           /\ \A q \in 1..(Len(s) - j) : text[i + q - 1] = s[j + q]
           A(i) == \A j \in 0..Len(s) : Begins(i, j) => InText(i, j)
<1>7. \A i \in 1..(n + 1) : A(i)
  <2> DEFINE B == {i \in 1..(n + 1) : ~A(i)}
  <2> SUFFICES ASSUME B # {} PROVE FALSE
    OBVIOUS
  <2>1. PICK i \in B : \A k \in B : k <= i
    <3>1. B \subseteq 1..(n + 1) /\ n + 1 \in Nat
      BY <1>1
    <3> HIDE DEF B
    <3>2. QED
      BY <3>1, GreatestOf
  <2>2. i \in 1..(n + 1) /\ ~A(i)
    OBVIOUS
  <2>3. PICK j \in 0..Len(s) : Begins(i, j) /\ ~InText(i, j)
    BY <2>2
  <2>4. j # Len(s)
    <3>1. SUFFICES ASSUME j = Len(s) PROVE InText(i, j)
      BY <2>3
    <3>2. 1..(Len(s) - j) = {} /\ i + Len(s) - j - 1 <= n
      BY <1>1, <1>5, <2>2, <3>1
    <3>3. QED
      BY <3>2
  <2>13. j \in Nat /\ j < Len(s)
    <3> HIDE DEF A, B, Begins, InText
    <3>1. j \in 0..Len(s)
      BY <2>3
    <3>2. Len(s) \in Nat
      BY <1>5
    <3>3. j \in Nat /\ j <= Len(s)
      BY <3>1, <3>2
    <3>4. QED
      BY <2>4, <3>2, <3>3
  <2>5. i # n + 1
    <3>1. Len(<<>>) = 0
      OBVIOUS
    <3>2. Len(s) - j <= Len(f[i]) /\ Len(s) - j > 0
      BY <1>5, <2>3, <2>13
    <3>3. ASSUME i = n + 1 PROVE FALSE
      <4>1. Len(f[i]) = 0
        BY <1>2, <3>1, <3>3
      <4>2. QED
        BY <1>5, <3>2, <4>1
    <3>4. QED
      BY <3>3
  <2>6. i \in 1..n /\ i + 1 \in 1..(n + 1)
    BY <1>1, <2>2, <2>5
  <2>7. f[i][1] = s[j + 1] /\ Len(f[i]) >= 1 /\ j + 1 \in 1..Len(s)
    <3>1. Len(s) - j <= Len(f[i]) /\ \A q \in 1..(Len(s) - j) : f[i][q] = s[j + q]
      BY <2>3
    <3>2. 1 \in 1..(Len(s) - j) /\ j + 1 \in 1..Len(s)
      <4> HIDE DEF A, B, Begins, InText
      <4>1. Len(s) \in Nat /\ Len(s) - j \in Nat /\ Len(s) - j >= 1
        BY <1>5, <2>13
      <4>2. QED
        BY <2>13, <4>1
    <3>3. Len(f[i]) \in Nat
      BY <1>3, <2>2
    <3>4. Len(f[i]) >= 1
      BY <1>5, <3>1, <3>2, <3>3
    <3>5. QED
      BY <3>1, <3>2, <3>4
  <2>8. CASE \E t \in S : i + Len(t) \in (i + 1)..(n + 1) /\ f[i] = marker \o f[i + Len(t)]
    <3>1. PICK t \in S : i + Len(t) \in (i + 1)..(n + 1) /\ f[i] = marker \o f[i + Len(t)]
      BY <2>8
    <3>2. f[i + Len(t)] \in Seq(P) /\ Len(f[i + Len(t)]) \in Nat
      BY <1>1, <1>3, <2>6, <3>1
    <3>3. f[i][1] = marker[1]
      BY <1>1, <3>1, <3>2, ConcatProperties
    <3>4. 1 \in 1..Len(marker)
      BY <1>1
    <3>5. QED
      BY <1>6, <2>7, <3>3, <3>4
  <2>9. CASE f[i] = <<text[i]>> \o f[i + 1]
    <3>1. <<text[i]>> \in Seq(P) /\ Len(<<text[i]>>) = 1 /\ f[i + 1] \in Seq(P) /\ Len(f[i + 1]) \in Nat
      <4>1. text[i] \in P
        BY <2>6, ElementOfSeq DEF n
      <4> HIDE DEF A, B, Begins, InText
      <4>2. <<text[i]>> \in Seq(P) /\ Len(<<text[i]>>) = 1
        BY <4>1
      <4>3. QED
        BY <1>3, <2>6, <4>2
    <3>2. /\ Len(f[i]) = 1 + Len(f[i + 1])
          /\ f[i][1] = text[i]
          /\ \A q \in 1..Len(f[i + 1]) : f[i][q + 1] = f[i + 1][q]
      <4>1. /\ Len(f[i]) = 1 + Len(f[i + 1])
            /\ \A q \in 1..(1 + Len(f[i + 1])) :
                 f[i][q] = IF q <= 1 THEN <<text[i]>>[q] ELSE f[i + 1][q - 1]
        BY <2>9, <3>1, ConcatProperties
      <4>2. f[i][1] = text[i]
        <5>1. 1 \in 1..(1 + Len(f[i + 1])) /\ <<text[i]>>[1] = text[i]
          BY <3>1
        <5>2. QED
          BY <4>1, <5>1
      <4>3. ASSUME NEW q \in 1..Len(f[i + 1]) PROVE f[i][q + 1] = f[i + 1][q]
        <5> HIDE DEF A, B, Begins, InText
        <5>1. q + 1 \in 1..(1 + Len(f[i + 1])) /\ ~(q + 1 <= 1) /\ (q + 1) - 1 = q
          BY <3>1
        <5>2. QED
          BY <4>1, <5>1
      <4>4. QED
        BY <4>1, <4>2, <4>3
    <3>3. Begins(i + 1, j + 1)
      <4>1. Len(s) - (j + 1) <= Len(f[i + 1])
        BY <1>5, <2>3, <3>1, <3>2
      <4>2. ASSUME NEW q \in 1..(Len(s) - (j + 1)) PROVE f[i + 1][q] = s[(j + 1) + q]
        <5> HIDE DEF A, B, InText
        <5>1. q + 1 \in 1..(Len(s) - j) /\ q \in 1..Len(f[i + 1]) /\ j + (q + 1) = (j + 1) + q
          BY <1>5, <2>13, <3>1, <4>1
        <5>2. f[i][q + 1] = s[j + (q + 1)]
          BY <2>3, <5>1
        <5>3. QED
          BY <3>2, <5>1, <5>2
      <4>3. QED
        BY <4>1, <4>2
    <3>4. A(i + 1) /\ j + 1 \in 0..Len(s)
      <4>1. i + 1 \notin B
        <5> HIDE DEF B
        <5>1. ~(i + 1 <= i)
          BY <2>6
        <5>2. QED
          BY <2>1, <5>1
      <4>2. j + 1 \in 0..Len(s)
        BY <1>5, <2>7
      <4>3. QED
        BY <2>6, <4>1, <4>2
    <3>5. InText(i + 1, j + 1)
      BY <3>3, <3>4
    <3>6. InText(i, j)
      <4>1. i + Len(s) - j - 1 <= n
        BY <1>1, <1>5, <2>6, <3>5
      <4>2. ASSUME NEW q \in 1..(Len(s) - j) PROVE text[i + q - 1] = s[j + q]
        <5>1. CASE q = 1
          <6>1. i + q - 1 = i
            BY <2>6, <5>1
          <6>2. QED
            BY <2>7, <3>2, <5>1, <6>1
        <5>2. CASE q # 1
          <6>1. /\ q - 1 \in 1..(Len(s) - (j + 1))
                /\ (i + 1) + (q - 1) - 1 = i + q - 1 /\ (j + 1) + (q - 1) = j + q
            BY <1>5, <2>6, <5>2
          <6>2. text[(i + 1) + (q - 1) - 1] = s[(j + 1) + (q - 1)]
            BY <3>5, <6>1
          <6>3. QED
            BY <6>1, <6>2
        <5>3. QED
          BY <5>1, <5>2
      <4>3. QED
        BY <4>1, <4>2
    <3>7. QED
      BY <2>3, <3>6
  <2>10. QED
    BY <1>2, <2>6, <2>8, <2>9
<1>8. \A i \in 1..(n + 1) : \A p \in 1..Len(f[i]) : ~Occurs(s, f[i], p)
  <2> DEFINE Clean0(i) == \A p \in 1..Len(f[i]) : ~Occurs(s, f[i], p)
             B == {i \in 1..(n + 1) : ~Clean0(i)}
  <2> SUFFICES ASSUME B # {} PROVE FALSE
    OBVIOUS
  <2>1. PICK i \in B : \A k \in B : k <= i
    <3>1. B \subseteq 1..(n + 1) /\ n + 1 \in Nat
      BY <1>1
    <3> HIDE DEF B
    <3>2. QED
      BY <3>1, GreatestOf
  <2>2. i \in 1..(n + 1) /\ ~Clean0(i)
    OBVIOUS
  <2>3. PICK p \in 1..Len(f[i]) : Occurs(s, f[i], p)
    BY <2>2
  <2>4. f[i] \in Seq(P) /\ Len(f[i]) \in Nat /\ p \in Nat \ {0}
    BY <1>3, <2>2, <2>3
  <2>5. p + Len(s) - 1 <= Len(f[i]) /\ \A q \in 1..Len(s) : f[i][p + q - 1] = s[q]
    <3> HIDE DEF A, B, Begins, InText, Clean0
    <3>1. s \in Seq(P)
      BY <1>5
    <3>2. QED
      BY <2>3, <2>4, <3>1, Occurrence
  <2>6. f[i][p] = s[1] /\ 1 \in 1..Len(s)
    <3>1. p + 1 - 1 = p /\ 1 \in 1..Len(s)
      BY <1>5, <2>4
    <3>2. QED
      BY <2>5, <3>1
  <2>7. i # n + 1
    <3>1. Len(<<>>) = 0
      OBVIOUS
    <3>2. QED
      BY <1>2, <2>4, <2>3, <3>1
  <2>8. i \in 1..n /\ i + 1 \in 1..(n + 1)
    BY <1>1, <2>2, <2>7
  \* Behind a piece v that begins the text, the secret begins in the rest.
  <2>9. ASSUME NEW v \in Seq(P), NEW k \in (i + 1)..(n + 1), f[i] = v \o f[k], p > Len(v)
        PROVE  FALSE
    <3>1. f[k] \in Seq(P) /\ Len(f[k]) \in Nat /\ Len(v) \in Nat /\ k \in 1..(n + 1)
      BY <1>1, <1>3, <2>8, LenProperties
    <3>2. /\ Len(f[i]) = Len(v) + Len(f[k])
          /\ \A q \in 1..(Len(v) + Len(f[k])) :
               f[i][q] = IF q <= Len(v) THEN v[q] ELSE f[k][q - Len(v)]
      BY <2>9, <3>1, ConcatProperties
    <3>3. p - Len(v) \in 1..Len(f[k]) /\ p - Len(v) \in Nat \ {0}
      BY <2>3, <2>4, <2>9, <3>1, <3>2
    <3>4. (p - Len(v)) + Len(s) - 1 <= Len(f[k])
      BY <1>5, <2>4, <2>5, <3>1, <3>2
    <3>5. ASSUME NEW q \in 1..Len(s) PROVE f[k][(p - Len(v)) + q - 1] = s[q]
      <4>1. /\ p + q - 1 \in 1..(Len(v) + Len(f[k])) /\ ~(p + q - 1 <= Len(v))
            /\ (p + q - 1) - Len(v) = (p - Len(v)) + q - 1
        <5> HIDE DEF A, B, Begins, InText, Clean0
        <5>1. q \in Nat \ {0} /\ q <= Len(s) /\ Len(s) \in Nat
          BY <1>5
        <5>2. p + Len(s) - 1 <= Len(v) + Len(f[k])
          BY <2>5, <3>2
        <5>3. QED
          BY <2>4, <2>9, <3>1, <5>1, <5>2
      <4>2. f[i][p + q - 1] = f[k][(p - Len(v)) + q - 1]
        BY <3>2, <4>1
      <4>3. QED
        BY <2>5, <4>2
    <3>6. Occurs(s, f[k], p - Len(v))
      BY <1>5, <3>1, <3>3, <3>4, <3>5, Occurrence
    <3>7. k \in B
      BY <3>1, <3>3, <3>6
    <3>8. QED
      BY <2>1, <2>8, <3>7
  <2>10. CASE \E t \in S : i + Len(t) \in (i + 1)..(n + 1) /\ f[i] = marker \o f[i + Len(t)]
    <3>1. PICK t \in S : i + Len(t) \in (i + 1)..(n + 1) /\ f[i] = marker \o f[i + Len(t)]
      BY <2>10
    <3>2. f[i + Len(t)] \in Seq(P) /\ Len(f[i + Len(t)]) \in Nat
      BY <1>1, <1>3, <2>8, <3>1
    <3>3. CASE p <= Len(marker)
      <4>1. f[i][p] = marker[p]
        BY <1>1, <2>4, <3>1, <3>2, <3>3, ConcatProperties
      <4>2. p \in 1..Len(marker)
        BY <1>1, <2>4, <3>3
      <4>3. QED
        BY <1>6, <2>6, <4>1, <4>2
    <3>4. CASE p > Len(marker)
      BY <2>9, <3>1, <3>4
    <3>5. QED
      BY <1>1, <2>4, <3>3, <3>4
  <2>11. CASE /\ \A t \in S : ~Occurs(t, text, i)
              /\ f[i] = <<text[i]>> \o f[i + 1]
    <3>1. <<text[i]>> \in Seq(P) /\ Len(<<text[i]>>) = 1
      <4>1. text[i] \in P
        BY <2>8, ElementOfSeq DEF n
      <4>2. QED
        BY <4>1
    <3>2. i + 1 \in (i + 1)..(n + 1)
      BY <1>1, <2>8
    <3>3. p = 1
      <4>1. ~(p > Len(<<text[i]>>))
        BY <2>9, <2>11, <3>1, <3>2
      <4>2. QED
        BY <2>4, <3>1, <4>1
    <3>4. InText(i, 0)
      <4>1. Len(s) - 0 <= Len(f[i]) /\ 0 \in 0..Len(s)
        BY <1>5, <2>4, <2>5, <3>3
      <4>2. ASSUME NEW q \in 1..(Len(s) - 0) PROVE f[i][q] = s[0 + q]
        <5>1. q \in 1..Len(s) /\ 1 + q - 1 = q /\ 0 + q = q
          BY <1>5
        <5>2. QED
          BY <2>5, <3>3, <5>1
      <4>3. Begins(i, 0)
        BY <4>1, <4>2
      <4>4. QED
        BY <1>7, <2>2, <4>1, <4>3
    <3>5. i + Len(s) - 1 <= n /\ \A q \in 1..Len(s) : text[i + q - 1] = s[q]
      <4>1. Len(s) - 0 = Len(s) /\ i + Len(s) - 0 - 1 = i + Len(s) - 1
            /\ \A q \in 1..Len(s) : 0 + q = q
        BY <1>5, <2>8
      <4>2. QED
        BY <3>4, <4>1
    <3>6. Occurs(s, text, i)
      <4>1. i \in Nat \ {0}
        BY <2>8
      <4>2. QED
        BY <1>5, <3>5, <4>1, Occurrence DEF n
    <3>7. QED
      BY <2>11, <3>6
  <2>12. QED
    BY <1>2, <2>8, <2>10, <2>11
<1>10. QED
  <2>1. 1 \in 1..(n + 1)
    BY <1>1
  <2>2. QED
    BY <1>3, <1>8, <2>1 DEF Contained

\* The pieces of a censored text are those of the text and the marker, whatever the
\* secrets are made of.
LEMMA CensoredType ==
  ASSUME NEW P, NEW text \in Seq(P), NEW Q, NEW S, S \subseteq Seq(Q) \ {<<>>},
         NEW marker \in Seq(P)
  PROVE  Censored(text, S, marker) \in Seq(P)
<1>1. PICK f : Censors(P, text, S, marker, f) /\ Censored(text, S, marker) = f[1]
  BY CensoredPass
<1>2. 1 \in 1..(Len(text) + 1)
  BY LenProperties
<1>3. QED
  BY <1>1, <1>2 DEF Censors

\* A text without a secret stays as it is.
LEMMA CensoredSame ==
  ASSUME NEW P, NEW text \in Seq(P), NEW S, S \subseteq Seq(P) \ {<<>>},
         NEW marker \in Seq(P), ~Leaks(text, S)
  PROVE  Censored(text, S, marker) = text
<1> DEFINE n == Len(text)
<1>1. n \in Nat /\ DOMAIN text = 1..n /\ \A i \in 1..n : text[i] \in P
  BY LenProperties, ElementOfSeq
<1>2. PICK f : Censors(P, text, S, marker, f) /\ Censored(text, S, marker) = f[1]
  BY CensoredPass
<1>3. /\ f \in [1..(n + 1) -> Seq(P)] /\ f[n + 1] = <<>>
      /\ \A i \in 1..n : f[i] = <<text[i]>> \o f[i + 1]
  <2>1. \A i \in 1..n, s \in S : ~Occurs(s, text, i)
    BY <1>1 DEF Leaks, Contained
  <2>2. QED
    BY <1>2, <2>1 DEF Censors
<1> HIDE DEF n
<1> DEFINE Same(i) == /\ Len(f[i]) = n + 1 - i
                      /\ \A q \in 1..(n + 1 - i) : f[i][q] = text[i + q - 1]
           B == {i \in 1..(n + 1) : ~Same(i)}
<1>4. ASSUME B # {} PROVE FALSE
  <2>1. PICK i \in B : \A k \in B : k <= i
    <3>1. B \subseteq 1..(n + 1) /\ n + 1 \in Nat
      BY <1>1
    <3> HIDE DEF B
    <3>2. QED
      BY <1>4, <3>1, GreatestOf
  <2>2. i \in 1..(n + 1) /\ ~Same(i)
    OBVIOUS
  <2>3. i # n + 1
    <3>1. Len(<<>>) = 0
      OBVIOUS
    <3>2. ASSUME i = n + 1 PROVE Same(i)
      <4>1. n + 1 - i = 0 /\ f[i] = <<>> /\ 1..(n + 1 - i) = {}
        BY <1>1, <1>3, <3>2
      <4>2. QED
        BY <3>1, <4>1
    <3>3. QED
      BY <2>2, <3>2
  <2>4. i \in 1..n /\ i + 1 \in 1..(n + 1) /\ ~(i + 1 <= i)
    BY <1>1, <2>2, <2>3
  <2>5. i + 1 \notin B
    <3> HIDE DEF B
    <3>1. QED
      BY <2>1, <2>4
  <2>6. /\ Len(f[i + 1]) = n - i
        /\ \A q \in 1..(n - i) : f[i + 1][q] = text[i + q]
    <3>1. Same(i + 1)
      BY <2>4, <2>5
    <3>2. n + 1 - (i + 1) = n - i /\ \A q \in 1..(n - i) : (i + 1) + q - 1 = i + q
      BY <1>1, <2>4
    <3>3. QED
      BY <3>1, <3>2
  <2> HIDE DEF B
  <2>7. f[i + 1] \in Seq(P) /\ <<text[i]>> \in Seq(P) /\ Len(<<text[i]>>) = 1
    BY <1>1, <1>3, <2>4
  <2>8. /\ Len(f[i]) = 1 + (n - i)
        /\ \A q \in 1..(1 + (n - i)) :
             f[i][q] = IF q <= 1 THEN <<text[i]>>[q] ELSE f[i + 1][q - 1]
    <3> HIDE DEF Same
    <3>1. f[i] = <<text[i]>> \o f[i + 1] /\ Len(f[i + 1]) = n - i
      BY <1>3, <2>4, <2>6
    <3>2. QED
      BY <2>7, <3>1, ConcatProperties
  <2>9. ASSUME NEW q \in 1..(n + 1 - i) PROVE f[i][q] = text[i + q - 1]
    <3> HIDE DEF Same
    <3>1. q \in 1..(1 + (n - i)) /\ q \in Nat /\ i \in Nat
      BY <1>1, <2>4
    <3>2. CASE q = 1
      <4>1. f[i][q] = text[i] /\ i + q - 1 = i
        BY <2>8, <3>1, <3>2
      <4>2. QED
        BY <4>1
    <3>3. CASE q # 1
      <4>1. ~(q <= 1) /\ q - 1 \in 1..(n - i) /\ i + (q - 1) = i + q - 1
        BY <1>1, <2>4, <3>1, <3>3
      <4>2. QED
        BY <2>6, <2>8, <3>1, <4>1
    <3>4. QED
      BY <3>2, <3>3
  <2>10. Len(f[i]) = n + 1 - i
    BY <1>1, <2>4, <2>8
  <2>11. Same(i)
    BY <2>9, <2>10
  <2>12. QED
    BY <2>2, <2>11
<1>5. Same(1) /\ 1 \in 1..(n + 1)
  <2> HIDE DEF Same
  <2>1. 1 \in 1..(n + 1)
    BY <1>1
  <2>2. QED
    BY <1>4, <2>1
<1>6. f[1] \in Seq(P) /\ Len(f[1]) = n /\ \A q \in 1..n : f[1][q] = text[q]
  <2>1. n + 1 - 1 = n /\ \A q \in 1..n : 1 + q - 1 = q
    BY <1>1
  <2>2. QED
    BY <1>3, <1>5, <2>1
<1>7. f[1] = text
  BY <1>6, SeqEqual DEF n
<1>8. QED
  BY <1>2, <1>7

\* Some candidate for the marker is in none of the secrets.
MarkerFree(S) == \E k \in DOMAIN Candidates : \A s \in S : Candidates[k] \notin ToSet(s)

LEMMA MarkerForeign ==
  ASSUME NEW S, MarkerFree(S)
  PROVE  /\ MarkerAvoiding(S) \in Seq(ToSet(Candidates)) \ {<<>>}
         /\ \A s \in S : Foreign(MarkerAvoiding(S), s)
<1> DEFINE used == UNION {ToSet(s) : s \in S}
           free == {k \in DOMAIN Candidates : Candidates[k] \notin used}
           c == Candidates[Min(free)]
<1>1. DOMAIN Candidates \subseteq Nat
  BY MarkerAssumption, LenProperties
<1>2. free # {} /\ free \subseteq Nat
  BY <1>1 DEF MarkerFree
<1>3. Min(free) \in free
  <2> HIDE DEF free
  <2>1. PICK m \in free : \A i \in free : m <= i
    BY <1>2, LeastOf
  <2>2. QED
    BY <2>1 DEF Min
<1>4. c \in ToSet(Candidates) /\ c \notin used
  BY <1>3 DEF ToSet
<1> HIDE DEF free, c
<1>5. MarkerAvoiding(S) = [i \in 1..8 |-> c]
  BY DEF MarkerAvoiding, free, c
<1>6. [i \in 1..8 |-> c] \in Seq(ToSet(Candidates)) \ {<<>>}
  <2>1. DOMAIN [i \in 1..8 |-> c] = 1..8 /\ DOMAIN <<>> = {} /\ 1 \in 1..8
    OBVIOUS
  <2>2. [i \in 1..8 |-> c] # <<>>
    BY <2>1
  <2>3. QED
    BY <1>4, <2>2, SeqDef
<1>7. ASSUME NEW s \in S PROVE Foreign(MarkerAvoiding(S), s)
  <2>1. \A i \in DOMAIN s : s[i] \in used
    BY DEF ToSet
  <2>2. QED
    BY <1>4, <1>5, <2>1 DEF Foreign
<1>8. QED
  BY <1>5, <1>6, <1>7

\* "Replace every occurrence of each secret; guarantee none is left": whatever the
\* text and the secrets are, also where the usual marker brings one back.
THEOREM NoneLeft ==
  ASSUME NEW P, ToSet(Candidates) \subseteq P, NEW text \in Seq(P),
         NEW S, S \subseteq Seq(P) \ {<<>>}, MarkerFree(S)
  PROVE  ~Leaks(redact(text, S), S)
<1> DEFINE result == Censored(text, S, REDACTED)
<1>1. redact(text, S) = IF Leaks(result, S)
                        THEN Censored(text, S, MarkerAvoiding(S)) ELSE result
  BY DEF redact
<1>2. ~Leaks(Censored(text, S, MarkerAvoiding(S)), S)
  <2>1. MarkerAvoiding(S) \in Seq(P) \ {<<>>}
    BY MarkerForeign, SeqMonotonic
  <2>2. QED
    BY <2>1, MarkerForeign, CensoredClean
<1>3. QED
  BY <1>1, <1>2

\* What redact returns is made of the text and a marker ...
LEMMA RedactType ==
  ASSUME NEW P, ToSet(Candidates) \cup ToSet(REDACTED) \subseteq P, NEW text \in Seq(P),
         NEW Q, NEW S, S \subseteq Seq(Q) \ {<<>>}, MarkerFree(S)
  PROVE  redact(text, S) \in Seq(P)
<1>1. REDACTED \in Seq(P)
  BY MarkerAssumption, SeqMonotonic
<1>2. MarkerAvoiding(S) \in Seq(P)
  <2>1. MarkerAvoiding(S) \in Seq(ToSet(Candidates))
    BY MarkerForeign
  <2>2. QED
    BY <2>1, SeqMonotonic
<1>3. Censored(text, S, REDACTED) \in Seq(P) /\ Censored(text, S, MarkerAvoiding(S)) \in Seq(P)
  BY <1>1, <1>2, CensoredType
<1>4. QED
  BY <1>3 DEF redact

\* ... and is the text itself if no secret is in it.
LEMMA RedactSame ==
  ASSUME NEW P, ToSet(REDACTED) \subseteq P, NEW text \in Seq(P),
         NEW S, S \subseteq Seq(P) \ {<<>>}, ~Leaks(text, S)
  PROVE  redact(text, S) = text
<1>1. REDACTED \in Seq(P)
  BY MarkerAssumption, SeqMonotonic
<1>2. Censored(text, S, REDACTED) = text
  BY <1>1, CensoredSame
<1>3. QED
  BY <1>2 DEF redact

-----------------------------------------------------------------------------
(* Texts put together step by step.                                        *)

\* A recursion over 1..n that stays in T has a solution, and every solution is in T.
LEMMA StepsType ==
  ASSUME NEW T, NEW n \in Nat, NEW f, f[0] \in T,
         \A k \in 1..n : f[k - 1] \in T => f[k] \in T
  PROVE  \A k \in 0..n : f[k] \in T
<1> DEFINE S == {k \in 0..n : f[k] \notin T}
<1> SUFFICES ASSUME S # {} PROVE FALSE
  OBVIOUS
<1>1. PICK m \in S : \A i \in S : m <= i
  <2>1. S \subseteq Nat
    OBVIOUS
  <2> HIDE DEF S
  <2>2. QED
    BY <2>1, LeastOf
<1>2. m \in 0..n /\ f[m] \notin T
  OBVIOUS
<1>3. m # 0
  BY <1>2
<1>4. m \in 1..n /\ m - 1 \in 0..n /\ ~(m <= m - 1)
  BY <1>2, <1>3
<1>5. m - 1 \notin S
  <2> HIDE DEF S
  <2>1. QED
    BY <1>1, <1>4
<1>6. QED
  BY <1>2, <1>4, <1>5

\* The first k steps from a.
Stepping(T, a, step, k, g) ==
  /\ g \in [0..k -> T] /\ g[0] = a
  /\ \A i \in 1..k : g[i] = step[<<i, g[i - 1]>>]

LEMMA StepsExist ==
  ASSUME NEW T, NEW n \in Nat, NEW a \in T, NEW step \in [(1..n) \X T -> T]
  PROVE  \E g : Stepping(T, a, step, n, g)
<1> DEFINE S == {k \in 0..n : ~\E g : Stepping(T, a, step, k, g)}
<1>1. S \subseteq Nat /\ (S = {} => \E g : Stepping(T, a, step, n, g))
  OBVIOUS
<1> SUFFICES ASSUME S # {} PROVE FALSE
  BY <1>1
<1>2. PICK m \in S : \A i \in S : m <= i
  <2> HIDE DEF S
  <2>1. QED
    BY <1>1, LeastOf
<1>3. m \in 0..n /\ ~\E g : Stepping(T, a, step, m, g)
  OBVIOUS
<1>4. CASE m = 0
  <2> DEFINE h == [i \in 0..0 |-> a]
  <2>1. h \in [0..0 -> T] /\ h[0] = a /\ 1..0 = {}
    OBVIOUS
  <2> HIDE DEF h
  <2>2. Stepping(T, a, step, 0, h)
    BY <2>1 DEF Stepping
  <2>3. QED
    BY <1>3, <1>4, <2>2
<1>5. CASE m # 0
  <2>1. m \in 1..n /\ m - 1 \in 0..n /\ ~(m <= m - 1)
    BY <1>3, <1>5
  <2>2. m - 1 \notin S
    <3> HIDE DEF S
    <3>1. QED
      BY <1>2, <2>1
  <2>3. PICK g : Stepping(T, a, step, m - 1, g)
    BY <2>1, <2>2
  <2> HIDE DEF S
  <2>4. /\ g \in [0..(m - 1) -> T] /\ g[0] = a
        /\ \A i \in 1..(m - 1) : g[i] = step[<<i, g[i - 1]>>]
    BY <2>3 DEF Stepping
  <2> DEFINE v == step[<<m, g[m - 1]>>]
             h == [i \in 0..m |-> IF i = m THEN v ELSE g[i]]
  <2>5. v \in T
    <3>1. g[m - 1] \in T
      BY <2>1, <2>4
    <3>2. QED
      BY <2>1, <3>1
  <2> HIDE DEF v
  <2>6. h \in [0..m -> T] /\ h[0] = a
    BY <2>1, <2>4, <2>5
  <2>7. ASSUME NEW i \in 1..m PROVE h[i] = step[<<i, h[i - 1]>>]
    <3>1. i - 1 \in 0..m /\ i \in 0..m /\ i - 1 # m
      BY <2>1
    <3>2. h[i - 1] = g[i - 1]
      BY <3>1
    <3>3. CASE i = m
      <4>1. h[i] = v
        BY <3>1, <3>3
      <4>2. QED
        BY <3>2, <3>3, <4>1 DEF v
    <3>4. CASE i # m
      <4>1. i \in 1..(m - 1) /\ h[i] = g[i]
        BY <2>1, <3>1, <3>4
      <4>2. QED
        BY <2>4, <3>2, <4>1
    <3>5. QED
      BY <3>3, <3>4
  <2> HIDE DEF h
  <2>8. Stepping(T, a, step, m, h)
    BY <2>6, <2>7 DEF Stepping
  <2>9. QED
    BY <1>3, <2>8
<1>6. QED
  BY <1>4, <1>5

\* Texts one behind the other, added one by one ...
LEMMA FlattenSteps ==
  ASSUME NEW P, NEW seqs \in Seq(Seq(P)), seqs # <<>>
  PROVE  \E f \in [1..Len(seqs) -> Seq(P)] :
           /\ FlattenSeq(seqs) = f[Len(seqs)]
           /\ \A i \in 1..Len(seqs) : f[i] = IF i = 1 THEN seqs[i] ELSE f[i - 1] \o seqs[i]
<1> DEFINE n == Len(seqs)
           Body(f) == [i \in 1..n |-> IF i = 1 THEN seqs[i] ELSE f[i - 1] \o seqs[i]]
           flatten == CHOOSE f : f = Body(f)
<1>1. n \in Nat /\ seqs \in [1..n -> Seq(P)]
  BY LenProperties
<1>2. n # 0
  BY EmptySeq
<1>3. FlattenSeq(seqs) = flatten[n]
  BY <1>2 DEF FlattenSeq
<1> HIDE DEF n
<1> DEFINE T == Seq(P)
           step == [q \in (1..n) \X T |-> q[2] \o seqs[q[1]]]
<1>4. <<>> \in T /\ step \in [(1..n) \X T -> T]
  <2>1. ASSUME NEW q \in (1..n) \X T PROVE q[2] \o seqs[q[1]] \in T
    BY <1>1, ConcatProperties
  <2>2. QED
    BY <2>1, EmptySeq
<1>5. PICK g : Stepping(T, <<>>, step, n, g)
  <2> HIDE DEF step, T
  <2>1. QED
    BY <1>1, <1>4, StepsExist
<1>6. /\ g \in [0..n -> T] /\ g[0] = <<>>
      /\ \A i \in 1..n : g[i] = step[<<i, g[i - 1]>>]
  <2> HIDE DEF step, T
  <2>1. QED
    BY <1>5 DEF Stepping
<1>7. \A i \in 1..n : g[i] = g[i - 1] \o seqs[i]
  <2> TAKE i \in 1..n
  <2>1. g[i - 1] \in T
    BY <1>1, <1>6
  <2>2. <<i, g[i - 1]>> \in (1..n) \X T
    BY <2>1
  <2>3. step[<<i, g[i - 1]>>] = g[i - 1] \o seqs[i]
    BY <2>2
  <2>4. QED
    BY <1>6, <2>3
<1> HIDE DEF step
<1>8. \E f : f = Body(f)
  <2> DEFINE h == [i \in 1..n |-> g[i]]
             b == Body(h)
  <2>1. ASSUME NEW i \in 1..n PROVE h[i] = b[i]
    <3>1. CASE i = 1
      <4>1. g[1] = <<>> \o seqs[1]
        <5>1. 1 \in 1..n /\ 1 - 1 = 0
          BY <3>1
        <5>2. g[1] = g[1 - 1] \o seqs[1]
          BY <1>7, <5>1
        <5>3. QED
          BY <1>6, <5>1, <5>2
      <4>2. seqs[1] \in Seq(P)
        BY <1>1, <3>1
      <4>3. g[1] = seqs[1]
        BY <4>1, <4>2, ConcatEmptySeq
      <4>4. QED
        BY <3>1, <4>3
    <3>2. CASE i # 1
      <4>1. i - 1 \in 1..n
        BY <1>1, <3>2
      <4>2. h[i - 1] = g[i - 1]
        BY <4>1
      <4>3. QED
        BY <1>7, <3>2, <4>2
    <3>3. QED
      BY <3>1, <3>2
  <2>2. h = [i \in 1..n |-> h[i]] /\ b = [i \in 1..n |-> b[i]]
    OBVIOUS
  <2> HIDE DEF h, b
  <2>3. h = b
    BY <2>1, <2>2
  <2>4. h = Body(h)
    BY <2>3 DEF b
  <2>5. QED
    BY <2>4
<1>9. flatten = Body(flatten)
  BY <1>8
<1> HIDE DEF flatten
<1>10. \A i \in 1..n : flatten[i] = IF i = 1 THEN seqs[i] ELSE flatten[i - 1] \o seqs[i]
  <2> DEFINE b == Body(flatten)
  <2>1. \A i \in 1..n : b[i] = IF i = 1 THEN seqs[i] ELSE flatten[i - 1] \o seqs[i]
    OBVIOUS
  <2>2. flatten = b
    BY <1>9
  <2> HIDE DEF b
  <2>3. QED
    BY <2>1, <2>2
<1> DEFINE f == [i \in 0..n |-> IF i = 0 THEN <<>> ELSE flatten[i]]
<1>11. f[0] \in T
  BY <1>1, <1>4
<1>12. ASSUME NEW k \in 1..n, f[k - 1] \in T PROVE f[k] \in T
  <2>1. f[k] = flatten[k] /\ seqs[k] \in Seq(P)
    BY <1>1
  <2>2. CASE k = 1
    BY <1>10, <2>1, <2>2
  <2>3. CASE k # 1
    <3>1. f[k - 1] = flatten[k - 1]
      BY <1>1, <2>3
    <3>2. flatten[k] = flatten[k - 1] \o seqs[k]
      BY <1>10, <2>3
    <3>3. flatten[k - 1] \in T
      <4> HIDE DEF f
      <4>1. QED
        BY <1>12, <3>1
    <3>4. flatten[k - 1] \o seqs[k] \in T
      BY <2>1, <3>3, ConcatProperties
    <3>5. QED
      <4> HIDE DEF f, T
      <4>1. QED
        BY <2>1, <3>2, <3>4
  <2>4. QED
    BY <2>2, <2>3
<1>13. \A k \in 1..n : f[k] = flatten[k] /\ k \in 0..n
  OBVIOUS
<1> HIDE DEF f, T
<1>14. \A k \in 0..n : f[k] \in T
  BY <1>1, <1>11, <1>12, StepsType
<1>15. \A k \in 1..n : flatten[k] \in Seq(P)
  BY <1>13, <1>14 DEF T
<1>16. flatten = [k \in 1..n |-> flatten[k]]
  <2> DEFINE b == Body(flatten)
  <2>1. b = [k \in 1..n |-> b[k]]
    OBVIOUS
  <2>2. flatten = b
    BY <1>9
  <2> HIDE DEF b
  <2>3. QED
    BY <2>1, <2>2
<1>17. flatten \in [1..n -> Seq(P)]
  BY <1>15, <1>16
<1>18. QED
  BY <1>3, <1>10, <1>17 DEF n

\* ... are a text.
LEMMA FlattenType ==
  ASSUME NEW P, NEW seqs \in Seq(Seq(P))
  PROVE  FlattenSeq(seqs) \in Seq(P)
<1>1. Len(seqs) \in Nat
  BY LenProperties
<1>2. CASE seqs = <<>>
  BY <1>2, EmptySeq DEF FlattenSeq
<1>3. CASE seqs # <<>>
  <2>1. Len(seqs) \in 1..Len(seqs)
    BY <1>1, <1>3, EmptySeq
  <2>2. PICK f \in [1..Len(seqs) -> Seq(P)] : FlattenSeq(seqs) = f[Len(seqs)]
    BY <1>3, FlattenSteps
  <2>3. QED
    BY <2>1, <2>2
<1>4. QED
  BY <1>2, <1>3

\* Texts of a few pieces.
LEMMA WordsType ==
  ASSUME NEW P
  PROVE  /\ \A a \in P : <<a>> \in Seq(P)
         /\ \A a, b \in P : <<a, b>> \in Seq(P)
         /\ \A a, b, c \in P : <<a, b, c>> \in Seq(P)
         /\ \A a, b, c, d, e \in P : <<a, b, c, d, e>> \in Seq(P)
         /\ \A a, b, c, d, e, f \in P : <<a, b, c, d, e, f>> \in Seq(P)
  OBVIOUS

-----------------------------------------------------------------------------
(* Control characters.                                                     *)

\* What a text with escaped control characters is made of.
Printable(P) == (P \cup {"\\"} \cup {Controls[c] : c \in DOMAIN Controls}) \ DOMAIN Controls

LEMMA EscapedType ==
  ASSUME NEW P, NEW text \in Seq(P)
  PROVE  escape_control_characters(text) \in Seq(Printable(P))
<1> DEFINE parts == [i \in DOMAIN text |->
             IF text[i] \in DOMAIN Controls THEN <<"\\", Controls[text[i]]>> ELSE <<text[i]>>]
<1>1. Len(text) \in Nat /\ DOMAIN text = 1..Len(text) /\ \A i \in 1..Len(text) : text[i] \in P
  BY LenProperties, ElementOfSeq
<1>2. ASSUME NEW i \in 1..Len(text) PROVE parts[i] \in Seq(Printable(P))
  <2>1. CASE text[i] \in DOMAIN Controls
    <3>1. "\\" \in Printable(P) /\ Controls[text[i]] \in Printable(P)
      BY <2>1, ControlsAssumption DEF Printable
    <3>2. parts[i] = <<"\\", Controls[text[i]]>>
      BY <1>1, <2>1
    <3> HIDE DEF parts
    <3>3. QED
      BY <3>1, <3>2, WordsType
  <2>2. CASE text[i] \notin DOMAIN Controls
    <3>1. text[i] \in Printable(P)
      BY <1>1, <2>2 DEF Printable
    <3>2. parts[i] = <<text[i]>>
      BY <1>1, <2>2
    <3> HIDE DEF parts
    <3>3. QED
      BY <3>1, <3>2, WordsType
  <2>3. QED
    BY <2>1, <2>2
<1>3. escape_control_characters(text) = FlattenSeq(parts)
  BY DEF escape_control_characters
<1>4. parts \in [1..Len(text) -> Seq(Printable(P))]
  <2>1. DOMAIN parts = 1..Len(text) /\ parts = [i \in 1..Len(text) |-> parts[i]]
    BY <1>1
  <2> HIDE DEF parts
  <2>2. QED
    BY <1>2, <2>1
<1> HIDE DEF parts
<1>5. parts \in Seq(Seq(Printable(P)))
  <2>1. \E n \in Nat : parts \in [1..n -> Seq(Printable(P))]
    BY <1>1, <1>4
  <2>2. QED
    BY <2>1, SeqDef
<1>6. QED
  BY <1>3, <1>5, FlattenType
===============================================================================
