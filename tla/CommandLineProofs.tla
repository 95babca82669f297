-------------------------- MODULE CommandLineProofs --------------------------
(***************************************************************************)
(* Nothing argparse prints shows a password of the command line, for every *)
(* set of options and every argument list.                                 *)
(***************************************************************************)
EXTENDS CommandLine, RedactionProofs, FiniteSetTheorems

-----------------------------------------------------------------------------
(* The texts of the command line.                                          *)

\* What every text argparse prints is made of.
Pieces ==
  {"usage:", " ", "error:", "hidden", "(argument values hidden; see", "ambiguous option:",
   "could match", ",", "argument", ":", "expected one argument", "ignored explicit argument",
   "'", "unrecognized arguments:"}
  \cup ToSet(REDACTED) \cup ToSet(Candidates)
  \cup UNION {ToSet(text) : text \in Tokens \cup Known \cup {HelpText} \cup UNION SecretSets}

LEMMA TextType ==
  ASSUME NEW text \in Tokens \cup Known \cup {HelpText} \cup UNION SecretSets
  PROVE  text \in Seq(Pieces)
<1>1. text \in Seq(ToSet(text))
  BY TextAssumption
<1>2. ToSet(text) \subseteq Pieces
  BY DEF Pieces
<1>3. QED
  BY <1>1, <1>2, SeqMonotonic

\* The name and the value of an argument are parts of it.
LEMMA PartType ==
  ASSUME NEW P, NEW token \in Seq(P)
  PROVE  /\ Name(token) \in Seq(P) /\ Value(token) \in Seq(P)
         /\ ToSet(Value(token)) \subseteq ToSet(token)
<1>1. Len(token) \in Nat /\ DOMAIN token = 1..Len(token) /\ \A i \in 1..Len(token) : token[i] \in P
  BY LenProperties, ElementOfSeq
<1>2. CASE ~Separated(token)
  <2>1. Name(token) = token /\ Value(token) = <<>>
    BY <1>2 DEF Name, Value
  <2>2. ToSet(<<>>) = {}
    BY DEF ToSet
  <2>3. QED
    BY <2>1, <2>2, EmptySeq
<1>3. CASE Separated(token)
  <2> DEFINE e == Min(Equals(token))
  <2>1. e \in 1..Len(token)
    <3> DEFINE E == Equals(token)
    <3>1. E # {} /\ E \subseteq 1..Len(token) /\ E \subseteq Nat
      BY <1>1, <1>3 DEF Separated, Equals
    <3> HIDE DEF E
    <3>2. PICK m \in E : \A i \in E : m <= i
      BY <3>1, LeastOf
    <3>3. Min(E) \in E
      BY <3>2 DEF Min
    <3>4. QED
      BY <3>1, <3>3 DEF E
  <2>2. Name(token) = SubSeq(token, 1, e - 1) /\ Value(token) = SubSeq(token, e + 1, Len(token))
    BY <1>3 DEF Name, Value
  <2> HIDE DEF e
  <2>3. e - 1 \in Int /\ e + 1 \in Int /\ 1 \in Int /\ Len(token) \in Int
    BY <1>1, <2>1
  <2>4. (\A i \in 1..(e - 1) : token[i] \in P) /\ \A i \in (e + 1)..Len(token) : token[i] \in P
    BY <1>1, <2>1
  <2>5. Name(token) \in Seq(P)
    BY <2>2, <2>3, <2>4, SubSeqProperties
  <2>6. /\ Value(token) \in Seq(P)
        /\ Len(Value(token)) = (IF e + 1 <= Len(token) THEN Len(token) - (e + 1) + 1 ELSE 0)
        /\ \A i \in 1..(Len(token) - (e + 1) + 1) : Value(token)[i] = token[(e + 1) + i - 1]
    BY <2>2, <2>3, <2>4, SubSeqProperties
  <2>7. ASSUME NEW i \in DOMAIN Value(token) PROVE Value(token)[i] \in ToSet(token)
    <3>1. i \in 1..Len(Value(token))
      BY <2>6, LenProperties
    <3>2. e \in Nat \ {0} /\ Len(token) \in Nat
      BY <1>1, <2>1
    <3>4. e + 1 <= Len(token) /\ Len(Value(token)) = Len(token) - (e + 1) + 1
      <4>1. CASE e + 1 <= Len(token)
        BY <2>6, <4>1
      <4>2. CASE ~(e + 1 <= Len(token))
        <5>1. Len(Value(token)) = 0
          BY <2>6, <4>2
        <5>2. QED
          BY <3>1, <5>1
      <4>3. QED
        BY <4>1, <4>2
    <3>5. i \in Nat \ {0} /\ i <= Len(token) - (e + 1) + 1
      BY <3>1, <3>2, <3>4
    <3>6. i \in 1..(Len(token) - (e + 1) + 1) /\ (e + 1) + i - 1 \in 1..Len(token)
      BY <3>2, <3>4, <3>5
    <3>7. QED
      BY <1>1, <2>6, <3>6 DEF ToSet
  <2>8. ToSet(Value(token)) \subseteq ToSet(token)
    BY <2>7 DEF ToSet
  <2>9. QED
    BY <2>5, <2>6, <2>8
<1>4. QED
  BY <1>2, <1>3

\* The arguments, and the passwords known beforehand.
Given == argv \in SeqOf(Tokens, MaxArgs) /\ secrets \in SecretSets

LEMMA GivenType ==
  ASSUME Given
  PROVE  /\ argv \in Seq(Tokens) /\ Len(argv) \in Nat /\ DOMAIN argv = 1..Len(argv)
         /\ \A k \in DOMAIN argv : argv[k] \in Tokens /\ argv[k] \in Seq(Pieces)
<1>1. PICK m \in 0..MaxArgs : argv \in [1..m -> Tokens]
  BY DEF Given, SeqOf
<1>2. m \in Nat
  BY <1>1, CandidatesAssumption
<1>3. argv \in Seq(Tokens)
  BY <1>1, <1>2, SeqDef
<1>4. QED
  BY <1>3, LenProperties, ElementOfSeq, TextType

\* The secrets are texts, and one of the candidates can stand for them.
LEMMA SecretsType ==
  ASSUME Given
  PROVE  Secrets \subseteq Seq(Pieces) \ {<<>>} /\ MarkerFree(Secrets)
<1>1. ASSUME NEW s \in Secrets
      PROVE  \/ s \in secrets
             \/ \E k \in DOMAIN argv : s = Value(argv[k]) \/ s = argv[k]
  <2>1. s \in secrets \cup option_values
    BY DEF Secrets, secrets_for_redaction
  <2>2. ASSUME s \in option_values
        PROVE  \E k \in DOMAIN argv : s = Value(argv[k]) \/ s = argv[k]
    <3>1. \E k \in DOMAIN argv : s = Value(argv[k]) \/ (k < Len(argv) /\ s = argv[k + 1])
      BY <2>2 DEF option_values
    <3>2. \A k \in DOMAIN argv : k < Len(argv) => k + 1 \in DOMAIN argv
      BY GivenType
    <3>3. QED
      BY <3>1, <3>2
  <2>3. QED
    BY <2>1, <2>2
<1>2. Secrets \subseteq Seq(Pieces) \ {<<>>}
  <2>1. ASSUME NEW s \in Secrets PROVE s \in Seq(Pieces)
    <3>1. CASE s \in secrets
      BY <3>1, TextType DEF Given
    <3>2. CASE \E k \in DOMAIN argv : s = Value(argv[k]) \/ s = argv[k]
      BY <3>2, GivenType, PartType
    <3>3. QED
      BY <1>1, <3>1, <3>2
  <2>2. <<>> \notin Secrets
    BY DEF Secrets, secrets_for_redaction
  <2>3. QED
    BY <2>1, <2>2
<1>3. MarkerFree(Secrets)
  <2>1. PICK c \in DOMAIN Candidates :
          \A text \in secrets \cup ToSet(argv) : Candidates[c] \notin ToSet(text)
    BY CandidatesAssumption DEF Given
  <2>2. ASSUME NEW s \in Secrets PROVE Candidates[c] \notin ToSet(s)
    <3>1. CASE s \in secrets
      BY <2>1, <3>1
    <3>2. CASE \E k \in DOMAIN argv : s = Value(argv[k]) \/ s = argv[k]
      <4>1. PICK k \in DOMAIN argv : s = Value(argv[k]) \/ s = argv[k]
        BY <3>2
      <4>2. Candidates[c] \notin ToSet(argv[k])
        BY <2>1 DEF ToSet
      <4>3. ToSet(s) \subseteq ToSet(argv[k])
        BY <4>1, GivenType, PartType
      <4>4. QED
        BY <4>2, <4>3
    <3>3. QED
      BY <1>1, <3>1, <3>2
  <2>3. QED
    BY <2>2 DEF MarkerFree
<1>4. QED
  BY <1>2, <1>3

\* So whatever is printed through redact shows none of them.
LEMMA PrintedClean ==
  ASSUME Given, NEW text \in Seq(Pieces)
  PROVE  \A s \in Secrets : ~Contained(s, redact(text, Secrets))
<1>1. ToSet(Candidates) \subseteq Pieces
  BY DEF Pieces
<1>2. ~Leaks(redact(text, Secrets), Secrets)
  BY <1>1, SecretsType, NoneLeft
<1>3. QED
  BY <1>2 DEF Leaks

-----------------------------------------------------------------------------
(* Masking.                                                                *)

LEMMA MaskedType ==
  ASSUME NEW P, "hidden" \in P, NEW text \in Seq(P), NEW fragment \in Seq(P) \ {<<>>}
  PROVE  Masked(text, fragment) \in Seq(P)
<1> DEFINE n == Len(text)
           w == [i \in DOMAIN text |-> IF StandsAlone(fragment, text, i) THEN <<"hidden">> ELSE <<text[i]>>]
           d == [i \in DOMAIN text |-> IF StandsAlone(fragment, text, i) THEN Len(fragment) ELSE 1]
<1>1. n \in Nat /\ DOMAIN text = 1..n /\ Len(fragment) \in Nat \ {0}
  BY LenProperties, EmptySeq
<1>2. ASSUME NEW i \in 1..n
      PROVE  w[i] \in Seq(P) /\ d[i] \in Nat \ {0} /\ i + d[i] <= n + 1
  <2>1. CASE StandsAlone(fragment, text, i)
    <3>1. w[i] = <<"hidden">> /\ d[i] = Len(fragment)
      BY <1>1, <2>1
    <3>2. i + Len(fragment) - 1 <= n
      BY <2>1 DEF StandsAlone, Occurs
    <3>3. <<"hidden">> \in Seq(P)
      OBVIOUS
    <3> HIDE DEF n, w, d
    <3>4. QED
      BY <1>1, <3>1, <3>2, <3>3
  <2>2. CASE ~StandsAlone(fragment, text, i)
    <3>1. w[i] = <<text[i]>> /\ d[i] = 1
      BY <1>1, <2>2
    <3>2. text[i] \in P
      BY ElementOfSeq
    <3> HIDE DEF n, w, d
    <3>3. <<text[i]>> \in Seq(P)
      BY <3>2
    <3>4. QED
      BY <1>1, <3>1, <3>3
  <2>3. QED
    BY <2>1, <2>2
<1>3. Masked(text, fragment) = Rewritten(n, w, d)
  BY DEF Masked
<1> HIDE DEF n, w, d
<1>4. IsPass(P, n, w, d)
  BY <1>1, <1>2 DEF IsPass
<1>5. QED
  BY <1>3, <1>4, PassType

\* The fragments in any order of Python's are a sequence of texts.
LEMMA OrdersType ==
  ASSUME Given, NEW order \in Orders
  PROVE  order \in Seq(Seq(Pieces) \ {<<>>})
<1> DEFINE I == DOMAIN argv
           F == {Fragment(argv[k]) : k \in I}
           g == [k \in I |-> Fragment(argv[k])]
           S == F \ {<<>>}
<1>1. order \in [1..Cardinality(S) -> S]
  BY DEF Orders, SetToSeqs
<1>2. IsFiniteSet(I)
  <2>1. I = 1..Len(argv) /\ Len(argv) \in Int /\ 1 \in Int
    BY GivenType
  <2> HIDE DEF I
  <2>2. QED
    BY <2>1, FS_Interval
<1>3. g \in Surjection(I, F)
  BY DEF Surjection
<1>4. S \subseteq Seq(Pieces) \ {<<>>}
  <2>1. ASSUME NEW k \in I PROVE Fragment(argv[k]) \in Seq(Pieces)
    <3>1. argv[k] \in Seq(Pieces)
      BY GivenType
    <3>2. Fragment(argv[k]) \in {<<>>, Value(argv[k]), argv[k]}
      BY DEF Fragment
    <3>3. QED
      BY <3>1, <3>2, PartType, EmptySeq
  <2>2. QED
    BY <2>1
<1> HIDE DEF I, F, g
<1>5. IsFiniteSet(F)
  BY <1>2, <1>3, FS_Surjection
<1>6. IsFiniteSet(S)
  BY <1>5, FS_Subset
<1> HIDE DEF S
<1>7. Cardinality(S) \in Nat
  BY <1>6, FS_CardinalityType
<1>8. order \in Seq(S)
  BY <1>1, <1>7, SeqDef
<1>9. QED
  BY <1>4, <1>8, SeqMonotonic

LEMMA MaskType ==
  ASSUME NEW message \in Seq(Pieces), NEW order \in Seq(Seq(Pieces) \ {<<>>})
  PROVE  mask_values(message, order) \in Seq(Pieces)
<1> DEFINE n == Len(order)
           Body(f) == [k \in 0..n |-> IF k = 0 THEN message ELSE Masked(f[k - 1], order[k])]
           after == CHOOSE f : f = Body(f)
           masked == after[n]
           note == <<" ", "(argument values hidden; see">> \o <<" ">> \o HelpOption
           T == Seq(Pieces)
           step == [q \in (1..n) \X T |-> Masked(q[2], order[q[1]])]
<1>1. n \in Nat /\ \A k \in 1..n : order[k] \in Seq(Pieces) \ {<<>>}
  BY LenProperties, ElementOfSeq
<1>2. mask_values(message, order) = masked \o IF masked = message THEN <<>> ELSE note
  BY DEF mask_values
<1>3. note \in Seq(Pieces)
  <2>1. HelpOption \in Seq(Pieces)
    BY OptionsAssumption, TextType
  <2>2. {" ", "(argument values hidden; see"} \subseteq Pieces
    BY DEF Pieces
  <2>3. <<" ", "(argument values hidden; see">> \in Seq(Pieces) /\ <<" ">> \in Seq(Pieces)
    BY <2>2, WordsType
  <2>4. QED
    BY <2>1, <2>3, ConcatProperties
<1>4. "hidden" \in Pieces
  BY DEF Pieces
<1> HIDE DEF n, note
<1>5. step \in [(1..n) \X T -> T]
  <2>1. ASSUME NEW q \in (1..n) \X T PROVE Masked(q[2], order[q[1]]) \in T
    <3>1. q[2] \in Seq(Pieces) /\ order[q[1]] \in Seq(Pieces) \ {<<>>}
      BY <1>1
    <3>2. QED
      BY <1>4, <3>1, MaskedType
  <2>2. QED
    BY <2>1
<1>6. \E f : f = Body(f)
  <2>1. PICK g : Stepping(T, message, step, n, g)
    <3>1. message \in T
      OBVIOUS
    <3> HIDE DEF step, T
    <3>2. QED
      BY <1>1, <1>5, <3>1, StepsExist
  <2>2. /\ g \in [0..n -> T] /\ g[0] = message
        /\ \A i \in 1..n : g[i] = step[<<i, g[i - 1]>>]
    <3> HIDE DEF step, T
    <3>1. QED
      BY <2>1 DEF Stepping
  <2>3. \A k \in 1..n : g[k] = Masked(g[k - 1], order[k])
    <3> TAKE k \in 1..n
    <3>1. g[k - 1] \in T
      BY <1>1, <2>2
    <3>2. <<k, g[k - 1]>> \in (1..n) \X T
      BY <3>1
    <3>3. step[<<k, g[k - 1]>>] = Masked(g[k - 1], order[k])
      BY <3>2
    <3>4. QED
      BY <2>2, <3>3
  <2> HIDE DEF step
  <2> DEFINE b == Body(g)
  <2>4. \A k \in 0..n : g[k] = b[k]
    <3> TAKE k \in 0..n
    <3>1. CASE k = 0
      BY <2>2, <3>1
    <3>2. CASE k # 0
      <4>1. k \in 1..n
        BY <1>1, <3>2
      <4>2. QED
        BY <2>3, <3>2, <4>1
    <3>3. QED
      BY <3>1, <3>2
  <2>5. g = [k \in 0..n |-> g[k]] /\ b = [k \in 0..n |-> b[k]]
    BY <2>2
  <2> HIDE DEF b
  <2>6. g = b
    BY <2>4, <2>5
  <2>7. g = Body(g)
    BY <2>6 DEF b
  <2>8. QED
    BY <2>7
<1>7. after = Body(after)
  BY <1>6
<1> HIDE DEF after
<1>8. \A k \in 0..n : after[k] = IF k = 0 THEN message ELSE Masked(after[k - 1], order[k])
  <2> DEFINE b == Body(after)
  <2>1. \A k \in 0..n : b[k] = IF k = 0 THEN message ELSE Masked(after[k - 1], order[k])
    OBVIOUS
  <2>2. after = b
    BY <1>7
  <2> HIDE DEF b
  <2>3. QED
    BY <2>1, <2>2
<1>9. after[0] \in T
  BY <1>1, <1>8
<1>10. ASSUME NEW k \in 1..n, after[k - 1] \in T PROVE after[k] \in T
  <2>1. after[k] = Masked(after[k - 1], order[k])
    BY <1>1, <1>8
  <2>2. QED
    BY <1>1, <1>4, <1>10, <2>1, MaskedType
<1> HIDE DEF T
<1>11. \A k \in 0..n : after[k] \in T
  BY <1>1, <1>9, <1>10, StepsType
<1>12. masked \in Seq(Pieces)
  BY <1>1, <1>11 DEF T
<1> HIDE DEF masked
<1>13. (IF masked = message THEN <<>> ELSE note) \in Seq(Pieces)
  BY <1>3, EmptySeq
<1>14. QED
  BY <1>2, <1>12, <1>13, ConcatProperties

-----------------------------------------------------------------------------
(* What argparse says.                                                     *)

LEMMA SpacedType ==
  ASSUME NEW texts \in Seq(Seq(Pieces))
  PROVE  Spaced(texts) \in Seq(Pieces)
<1> DEFINE parts == [k \in DOMAIN texts |-> <<" ">> \o texts[k]]
<1>1. Len(texts) \in Nat /\ DOMAIN texts = 1..Len(texts)
  BY LenProperties
<1>2. " " \in Pieces
  BY DEF Pieces
<1>3. ASSUME NEW k \in 1..Len(texts) PROVE <<" ">> \o texts[k] \in Seq(Pieces)
  <2>1. texts[k] \in Seq(Pieces) /\ <<" ">> \in Seq(Pieces)
    BY <1>2, ElementOfSeq, WordsType
  <2>2. QED
    BY <2>1, ConcatProperties
<1>4. parts \in [1..Len(texts) -> Seq(Pieces)]
  BY <1>1, <1>3
<1>5. Spaced(texts) = FlattenSeq(parts)
  BY DEF Spaced
<1> HIDE DEF parts
<1>6. parts \in Seq(Seq(Pieces))
  <2>1. \E n \in Nat : parts \in [1..n -> Seq(Pieces)]
    BY <1>1, <1>4
  <2>2. QED
    BY <2>1, SeqDef
<1>7. QED
  BY <1>5, <1>6, FlattenType

LEMMA UsageType == Usage \in Seq(Pieces)
<1>1. Known \subseteq Seq(Pieces)
  BY TextType
<1>2. Options \in Seq(Seq(Pieces))
  BY <1>1, OptionsAssumption, SeqMonotonic
<1>3. "usage:" \in Pieces
  BY DEF Pieces
<1>4. <<"usage:">> \in Seq(Pieces) /\ Spaced(Options) \in Seq(Pieces)
  BY <1>2, <1>3, SpacedType, WordsType
<1>5. QED
  BY <1>4, ConcatProperties DEF Usage

\* No secret is shown.
Shown == \A s \in Secrets : ~Contained(s, usage) /\ ~Contained(s, error)

\* Neither the arguments nor the passwords change.
LEMMA SecretsKept ==
  ASSUME argv' = argv, secrets' = secrets
  PROVE  Secrets' = Secrets /\ Given' = Given /\ Passwords' = Passwords
BY DEF Secrets, option_values, Given, Passwords

\* An error shows no secret, whatever its message.
LEMMA FailClean ==
  ASSUME Given, NEW message \in Seq(Pieces), Fail(message)
  PROVE  Shown'
<1>1. usage' = redact(Usage, Secrets) /\ Secrets' = Secrets
  BY SecretsKept DEF Fail
<1>2. PICK order \in Orders :
        error' = redact(<<"error:", " ">> \o mask_values(message, order), Secrets)
  BY DEF Fail
<1>3. mask_values(message, order) \in Seq(Pieces)
  BY OrdersType, MaskType
<1>4. {"error:", " "} \subseteq Pieces
  BY DEF Pieces
<1>5. <<"error:", " ">> \in Seq(Pieces)
  BY <1>4, WordsType
<1>6. <<"error:", " ">> \o mask_values(message, order) \in Seq(Pieces)
  BY <1>3, <1>5, ConcatProperties
<1>7. \A s \in Secrets : ~Contained(s, usage') /\ ~Contained(s, error')
  BY <1>1, <1>2, <1>6, PrintedClean, UsageType
<1>8. QED
  BY <1>1, <1>7 DEF Shown, Contained

-----------------------------------------------------------------------------
(* Every password is a secret.                                             *)

\* What means the password option is counted by option_values: a name too short to
\* be counted begins the help option just as well, so it is ambiguous.
LEMMA PasswordCounted ==
  ASSUME NEW token \in Seq(Pieces), Meant(token) = {PasswordOption}
  PROVE  Len(Name(token)) >= 3 /\ IsPrefix(Name(token), PasswordOption)
<1> DEFINE name == Name(token)
<1>1. name \in Seq(Pieces) /\ Len(name) \in Nat
  BY PartType, LenProperties
<1>2. PasswordOption \in Seq(Pieces) /\ HelpOption \in Seq(Pieces)
  BY OptionsAssumption, TextType
<1>3. Len(PasswordOption) \in Nat /\ Len(HelpOption) \in Nat
  BY <1>2, LenProperties
<1> HIDE DEF name
<1>4. CASE name \in Known
  <2>1. name = PasswordOption
    BY <1>4 DEF Meant, name
  <2>2. IsPrefix(PasswordOption, PasswordOption) /\ Len(PasswordOption) >= 3
    BY <1>3, OptionsAssumption DEF IsPrefix
  <2>3. QED
    BY <2>1, <2>2 DEF name
<1>5. CASE name \notin Known
  <2>1. Meant(token) = {option \in Known : LooksLikeOption(token) /\ IsPrefix(name, option)}
    BY <1>5 DEF Meant, name
  <2>2. LooksLikeOption(token) /\ IsPrefix(name, PasswordOption)
    BY <2>1
  <2>3. ~IsPrefix(name, HelpOption)
    BY <2>1, <2>2, OptionsAssumption
  <2>4. SubSeq(name, 1, Len(name)) = SubSeq(PasswordOption, 1, Len(name)) /\ Len(name) <= Len(PasswordOption)
    BY <2>2 DEF IsPrefix
  <2>5. ASSUME Len(name) < 3 PROVE FALSE
    <3> DEFINE l == Len(name)
    <3>1. l \in 0..2 /\ 1 \in Int /\ l \in Int
      <4>1. l \in Nat /\ l < 3
        BY <1>1, <2>5 DEF name
      <4> HIDE DEF l
      <4>2. QED
        BY <4>1
    <3>2. \A i \in 1..l : PasswordOption[i] = "-" /\ HelpOption[i] = "-"
      <4> HIDE DEF l
      <4>1. \A i \in 1..l : i = 1 \/ i = 2
        BY <3>1
      <4>2. \A i \in {1, 2} : PasswordOption[i] = "-" /\ HelpOption[i] = "-"
        BY OptionsAssumption
      <4>3. QED
        BY <4>1, <4>2
    <3>3. l <= Len(PasswordOption) /\ l <= Len(HelpOption)
      <4>1. Len(PasswordOption) > 2 /\ Len(HelpOption) > 2
        BY OptionsAssumption
      <4> HIDE DEF l
      <4>2. QED
        BY <1>3, <3>1, <4>1
    <3>4. (\A i \in 1..l : PasswordOption[i] \in Pieces) /\ \A i \in 1..l : HelpOption[i] \in Pieces
      BY <1>2, <1>3, <3>1, <3>3, ElementOfSeq
    <3> DEFINE p == SubSeq(PasswordOption, 1, l)
               h == SubSeq(HelpOption, 1, l)
    <3> HIDE DEF l
    <3>5. /\ p \in Seq(Pieces) /\ Len(p) = (IF 1 <= l THEN l - 1 + 1 ELSE 0)
          /\ \A i \in 1..(l - 1 + 1) : p[i] = PasswordOption[1 + i - 1]
      BY <3>1, <3>4, SubSeqProperties
    <3>6. /\ h \in Seq(Pieces) /\ Len(h) = (IF 1 <= l THEN l - 1 + 1 ELSE 0)
          /\ \A i \in 1..(l - 1 + 1) : h[i] = HelpOption[1 + i - 1]
      BY <3>1, <3>4, SubSeqProperties
    <3> HIDE DEF p, h
    <3>7. Len(p) = l /\ Len(h) = l
      BY <3>1, <3>5, <3>6
    <3>8. \A i \in 1..Len(p) : p[i] = h[i]
      <4> TAKE i \in 1..Len(p)
      <4>1. i \in 1..l /\ i \in 1..(l - 1 + 1) /\ 1 + i - 1 = i
        BY <3>1, <3>7
      <4>2. QED
        BY <3>2, <3>5, <3>6, <4>1
    <3>9. p = h
      BY <3>5, <3>6, <3>7, <3>8, SeqEqual
    <3>10. IsPrefix(name, HelpOption)
      BY <2>4, <3>3, <3>9 DEF IsPrefix, p, h, l
    <3>11. QED
      BY <2>3, <3>10
  <2>6. QED
    BY <1>1, <2>2, <2>5 DEF name
<1>6. QED
  BY <1>4, <1>5

LEMMA PasswordsSecret ==
  ASSUME Given
  PROVE  Passwords \subseteq Secrets
<1>1. \A k \in DOMAIN argv : Meant(argv[k]) = {PasswordOption} =>
        Len(Name(argv[k])) >= 3 /\ IsPrefix(Name(argv[k]), PasswordOption)
  BY GivenType, PasswordCounted
<1>2. QED
  BY <1>1 DEF Passwords, Secrets, secrets_for_redaction, option_values

-----------------------------------------------------------------------------
(* The parser.                                                             *)

\* Between two arguments: what is left over is of the command line, and what has been
\* printed shows no secret.
ParserInv ==
  /\ Given
  /\ next \in Nat \ {0}
  /\ extras \in Seq(Tokens)
  /\ Shown

LEMMA InitParser == Init => ParserInv
<1> SUFFICES ASSUME Init PROVE ParserInv
  OBVIOUS
<1>1. DOMAIN <<>> = {}
  OBVIOUS
<1>2. Shown
  BY <1>1 DEF Init, Shown, Contained
<1>3. extras \in Seq(Tokens)
  BY EmptySeq DEF Init
<1>4. QED
  BY <1>2, <1>3 DEF Init, ParserInv, Given

\* The argument looked at, and its value.
LEMMA TokenType ==
  ASSUME ParserInv, Reading
  PROVE  Token \in Tokens /\ Token \in Seq(Pieces) /\ Value(Token) \in Seq(Pieces)
<1>1. next \in DOMAIN argv
  BY GivenType DEF ParserInv, Reading
<1>2. QED
  BY <1>1, GivenType, PartType DEF ParserInv, Token

LEMMA NextParser ==
  ASSUME ParserInv, [Next]_vars
  PROVE  ParserInv'
<1> USE DEF ParserInv
\* A step that prints nothing.
<1>1. ASSUME UNCHANGED <<argv, secrets, usage, error>>, extras' \in Seq(Tokens),
             next' \in Nat \ {0}
      PROVE  ParserInv'
  <2>1. Secrets' = Secrets /\ Given' = Given
    BY <1>1, SecretsKept
  <2>2. Shown'
    BY <1>1, <2>1 DEF Shown, Contained
  <2>3. QED
    BY <1>1, <2>1, <2>2
\* An error.
<1>2. ASSUME NEW message \in Seq(Pieces), Fail(message)
      PROVE  ParserInv'
  <2>1. Given' /\ next' = next /\ extras' = extras
    BY <1>2, SecretsKept DEF Fail
  <2>2. QED
    BY <1>2, <2>1, FailClean
<1>3. CASE Unrecognized
  <2>1. Token \in Tokens
    BY <1>3, TokenType DEF Unrecognized
  <2>2. extras' \in Seq(Tokens)
    BY <1>3, <2>1, AppendProperties DEF Unrecognized
  <2>3. QED
    BY <1>1, <1>3, <2>2 DEF Unrecognized, Advance
<1>4. CASE Ambiguous
  <2> DEFINE likely == [k \in DOMAIN Options |->
               IF Options[k] \in Meant(Token) THEN <<" ">> \o Options[k] \o <<",">> ELSE <<>>]
             first == <<"ambiguous option:", " ">> \o Token
             second == first \o <<" ", "could match">>
             message == second \o FlattenSeq(likely)
  <2>1. Token \in Seq(Pieces) /\ Fail(message)
    BY <1>4, TokenType DEF Ambiguous
  <2>2. {" ", ",", "ambiguous option:", "could match"} \subseteq Pieces
    BY DEF Pieces
  <2>3. likely \in Seq(Seq(Pieces))
    <3>1. Len(Options) \in Nat /\ DOMAIN Options = 1..Len(Options)
      BY OptionsAssumption, LenProperties
    <3>2. ASSUME NEW k \in 1..Len(Options)
          PROVE  <<" ">> \o Options[k] \o <<",">> \in Seq(Pieces)
      <4>1. Options[k] \in Seq(Pieces)
        BY OptionsAssumption, ElementOfSeq, TextType
      <4>2. <<" ">> \in Seq(Pieces) /\ <<",">> \in Seq(Pieces)
        BY <2>2, WordsType
      <4>3. <<" ">> \o Options[k] \in Seq(Pieces)
        BY <4>1, <4>2, ConcatProperties
      <4>4. QED
        BY <4>2, <4>3, ConcatProperties
    <3>3. <<>> \in Seq(Pieces)
      BY EmptySeq
    <3>4. likely \in [1..Len(Options) -> Seq(Pieces)]
      BY <3>1, <3>2, <3>3
    <3> HIDE DEF likely
    <3>5. QED
      BY <3>1, <3>4, SeqDef
  <2> HIDE DEF likely
  <2>4. FlattenSeq(likely) \in Seq(Pieces)
    BY <2>3, FlattenType
  <2>5. first \in Seq(Pieces)
    BY <2>1, <2>2, WordsType, ConcatProperties
  <2> HIDE DEF first
  <2>6. second \in Seq(Pieces)
    BY <2>2, <2>5, WordsType, ConcatProperties
  <2> HIDE DEF second
  <2>7. message \in Seq(Pieces)
    BY <2>4, <2>6, ConcatProperties
  <2> HIDE DEF message
  <2>8. QED
    BY <1>2, <2>1, <2>7
<1>5. CASE Store
  BY <1>1, <1>5 DEF Store, Advance
<1>6. CASE MissingValue
  <2>1. PICK option \in Known :
          Fail(<<"argument", " ">> \o option \o <<":", " ", "expected one argument">>)
    BY <1>6 DEF MissingValue
  <2> DEFINE first == <<"argument", " ">> \o option
             last == <<":", " ", "expected one argument">>
             message == first \o last
  <2>2. {"argument", " ", ":", "expected one argument"} \subseteq Pieces
    BY DEF Pieces
  <2>3. first \in Seq(Pieces)
    BY <2>2, TextType, WordsType, ConcatProperties
  <2>4. last \in Seq(Pieces)
    BY <2>2, WordsType
  <2> HIDE DEF first, last
  <2>5. message \in Seq(Pieces)
    BY <2>3, <2>4, ConcatProperties
  <2>6. Fail(message)
    BY <2>1 DEF first, last
  <2> HIDE DEF message
  <2>7. QED
    BY <1>2, <2>5, <2>6
<1>7. CASE NeedlessValue
  <2> DEFINE first == <<"argument", " ">> \o HelpOption
             middle == <<":", " ", "ignored explicit argument", " ", "'">>
             third == first \o middle
             fourth == third \o Value(Token)
             message == fourth \o <<"'">>
  <2>1. Value(Token) \in Seq(Pieces) /\ Fail(message)
    BY <1>7, TokenType DEF NeedlessValue, Means
  <2>2. {"argument", " ", ":", "'", "ignored explicit argument"} \subseteq Pieces
    BY DEF Pieces
  <2>3. first \in Seq(Pieces)
    BY <2>2, OptionsAssumption, TextType, WordsType, ConcatProperties
  <2>4. middle \in Seq(Pieces)
    BY <2>2, WordsType
  <2> HIDE DEF first, middle
  <2>5. third \in Seq(Pieces)
    BY <2>3, <2>4, ConcatProperties
  <2> HIDE DEF third
  <2>6. fourth \in Seq(Pieces)
    BY <2>1, <2>5, ConcatProperties
  <2> HIDE DEF fourth
  <2>7. message \in Seq(Pieces)
    BY <2>2, <2>6, WordsType, ConcatProperties
  <2> HIDE DEF message
  <2>8. QED
    BY <1>2, <2>1, <2>7
<1>8. CASE print_help
  <2>1. Usage \o HelpText \in Seq(Pieces)
    BY UsageType, TextType, ConcatProperties
  <2>2. usage' = redact(Usage \o HelpText, Secrets) /\ error' = error
        /\ next' = next /\ extras' = extras /\ argv' = argv /\ secrets' = secrets
    BY <1>8 DEF print_help
  <2>3. Secrets' = Secrets /\ Given'
    BY <2>2, SecretsKept
  <2>4. \A s \in Secrets : ~Contained(s, usage') /\ ~Contained(s, error')
    BY <2>1, <2>2, PrintedClean DEF Shown
  <2>5. Shown'
    BY <2>3, <2>4 DEF Shown, Contained
  <2>6. QED
    BY <2>2, <2>3, <2>5
<1>9. CASE Finish
  <2>1. CASE UNCHANGED <<argv, secrets, next, extras, usage, error>>
    BY <1>1, <2>1
  <2>2. CASE Fail(<<"unrecognized arguments:">> \o Spaced(extras))
    <3> DEFINE message == <<"unrecognized arguments:">> \o Spaced(extras)
    <3>1. Tokens \subseteq Seq(Pieces)
      BY TextType
    <3>2. Spaced(extras) \in Seq(Pieces)
      BY <3>1, SeqMonotonic, SpacedType
    <3>3. "unrecognized arguments:" \in Pieces
      BY DEF Pieces
    <3>4. message \in Seq(Pieces)
      BY <3>2, <3>3, WordsType, ConcatProperties
    <3>5. QED
      BY <1>2, <2>2, <3>4
  <2>3. QED
    BY <1>9, <2>1, <2>2 DEF Finish
<1>10. CASE UNCHANGED vars
  BY <1>1, <1>10 DEF vars
<1>11. QED
  BY <1>3, <1>4, <1>5, <1>6, <1>7, <1>8, <1>9, <1>10 DEF Next, Done

\* PasswordsCensored: whatever the options are and whatever the argument list, wherever
\* argparse stopped reading, no password known from the environment or given on the
\* command line is in what it printed.
THEOREM Uncovered == Spec => []PasswordsCensored
<1>1. ASSUME ParserInv PROVE PasswordsCensored
  BY <1>1, PasswordsSecret DEF ParserInv, Shown, PasswordsCensored
<1>2. Spec => []ParserInv
  BY InitParser, NextParser, PTL DEF Spec
<1>3. QED
  BY <1>1, <1>2, PTL
===============================================================================
