---------------------------- MODULE ReleaseProofs ----------------------------
(***************************************************************************)
(* A version that was pulled stays what it is, for any number of versions, *)
(* concurrent runs and re-runs, and wherever a run fails; notes that are   *)
(* accepted stand alone, for changelogs of any length; and what is         *)
(* published was validated.                                                *)
(***************************************************************************)
EXTENDS Release, SequenceTheorems, FiniteSetTheorems, TLAPS

Steps == {"none", "validate", "notes", "push", "attest", "release", "done", "failed"}

RunType == attempt \in [Tags -> Nat] /\ step \in [Tags -> Steps]
ImageType == images \in [Registries -> [Names -> (Tags \X Nat) \cup {None}]]

\* A version's reference shows the image of the present run of its tag, and a tag
\* that had no run yet shows none.
ShowsRun ==
  \A r \in Registries, t \in Tags :
    images[r][t] # None => images[r][t] = Image(t) /\ step[t] # "none"

ImageInv == RunType /\ ImageType /\ ShowsRun

\* What a step may do to the references of the tags.
Lasting ==
  \A r \in Registries, t \in Tags :
    images[r][t] # None => images'[r][t] = images[r][t]

LEMMA TagNames == Tags \subseteq Names /\ Versions \subseteq Tags /\ \A u \in Tags : u # "latest"
BY TagsAssumption DEF Names, Tags

LEMMA ImageInit == Init => ImageInv
<1>1. ASSUME Init PROVE RunType
  BY <1>1 DEF Init, RunType, Steps
<1>2. ASSUME Init PROVE ImageType /\ \A r \in Registries, t \in Tags : images[r][t] = None
  <2>1. images = [r \in Registries |-> [n \in Names |-> None]]
    BY <1>2 DEF Init
  <2>2. \A r \in Registries : images[r] = [n \in Names |-> None]
    BY <2>1
  <2>3. ImageType
    BY <2>1 DEF ImageType
  <2>4. QED
    BY <2>2, <2>3, TagNames
<1>3. QED
  BY <1>1, <1>2 DEF ImageInv, ShowsRun

\* A new run starts only where no image of the tag is.
LEMMA BeginStep ==
  ASSUME ImageInv, NEW t \in Tags, PushTag(t) \/ Rerun(t) PROVE ImageInv' /\ Lasting
<1>1. /\ step' = [step EXCEPT ![t] = "validate"] /\ images' = images
      /\ attempt' = [attempt EXCEPT ![t] = attempt[t] + 1]
  BY DEF PushTag, Rerun, Begin
<1>2. \A r \in Registries : images[r][t] = None
  <2>1. CASE PushTag(t)
    BY <2>1 DEF PushTag, ImageInv, ShowsRun
  <2>2. CASE Rerun(t)
    <3>1. ~Published(t)
      BY <2>2 DEF Rerun, MayRerun
    <3>2. \A r \in Registries : images[r][t] # None => images[r][t][1] = t
      BY DEF ImageInv, ShowsRun, Image
    <3>3. t \in Names
      BY TagNames
    <3>4. QED
      BY <3>1, <3>2, <3>3 DEF Published
  <2>3. QED
    BY <2>1, <2>2
<1>3. RunType'
  BY <1>1 DEF RunType, Steps, ImageInv
<1>4. ImageType' /\ Lasting
  BY <1>1 DEF ImageType, ImageInv, Lasting
<1>5. ASSUME NEW r \in Registries, NEW u \in Tags, images'[r][u] # None
      PROVE  images'[r][u] = Image(u)' /\ step'[u] # "none"
  <2>1. u # t
    BY <1>1, <1>2, <1>5
  <2>2. attempt'[u] = attempt[u] /\ step'[u] = step[u]
    BY <1>1, <2>1 DEF RunType, ImageInv
  <2>3. QED
    BY <1>1, <1>5, <2>2 DEF ImageInv, ShowsRun, Image
<1>6. QED
  BY <1>3, <1>4, <1>5 DEF ImageInv, ShowsRun

\* A step of a run that has begun leaves it begun, and is of the same run.
LEMMA SameRun ==
  ASSUME ImageInv, NEW t \in Tags, NEW next \in Steps \ {"none"}, Goto(t, next)
  PROVE  /\ RunType' /\ attempt' = attempt
         /\ \A u \in Tags : Image(u)' = Image(u)
         /\ step'[t] # "none"
         /\ \A u \in Tags : step[u] # "none" => step'[u] # "none"
<1>1. attempt' = attempt /\ step' = [step EXCEPT ![t] = next]
  BY DEF Goto
<1>2. QED
  BY <1>1 DEF ImageInv, RunType, Image

\* The run of t points references of t, and those that move, to its image.
Marks(t) ==
  \A r \in Registries, n \in Names :
    images'[r][n] = images[r][n] \/ (n \in {t, "latest"} /\ images'[r][n] = Image(t))

LEMMA MarkStep ==
  ASSUME ImageInv, NEW t \in Tags, Push(t) \/ FinishByHand(t) PROVE ImageType' /\ Marks(t)
<1>1. Image(t) \in Tags \X Nat
  BY DEF Image, ImageInv, RunType
<1>2. CASE Push(t)
  <2>1. PICK p \in Unpushed(t) : images' = [images EXCEPT ![p[1]][p[2]] = Image(t)]
    BY <1>2 DEF Push
  <2>2. p[1] \in Registries /\ p[2] \in {t, "latest"} /\ p[2] \in Names
    BY <2>1 DEF Unpushed, Pushes, Names
  <2>3. QED
    BY <1>1, <2>1, <2>2, TagNames DEF ImageInv, ImageType, Marks
<1>3. CASE FinishByHand(t)
  <2>1. images' = [r \in Registries |-> [images[r] EXCEPT ![t] =
                     IF <<r, t>> \in Pushes(t) THEN Image(t) ELSE images[r][t]]]
    BY <1>3 DEF FinishByHand
  <2>2. QED
    BY <1>1, <2>1, TagNames DEF ImageInv, ImageType, Marks
<1>4. QED
  BY <1>2, <1>3

LEMMA PushStep ==
  ASSUME ImageInv, NEW t \in Tags, Push(t) \/ FinishByHand(t) PROVE ImageInv' /\ Lasting
<1>1. PICK next \in {"attest", "push", "done"} : Goto(t, next)
  <2>1. CASE Push(t)
    <3>1. PICK p \in Unpushed(t) : Goto(t, IF Unpushed(t) = {p} THEN "attest" ELSE "push")
      BY <2>1 DEF Push
    <3>2. QED
      BY <3>1
  <2>2. CASE FinishByHand(t)
    BY <2>2 DEF FinishByHand
  <2>3. QED
    BY <2>1, <2>2
<1>2. next \in Steps \ {"none"}
  BY DEF Steps
<1>3. /\ RunType' /\ attempt' = attempt /\ step'[t] # "none"
      /\ \A u \in Tags : Image(u)' = Image(u) /\ (step[u] # "none" => step'[u] # "none")
  BY <1>1, <1>2, SameRun
<1>4. ImageType' /\ \A r \in Registries, u \in Tags :
        images'[r][u] = images[r][u] \/ (u = t /\ images'[r][u] = Image(t))
  BY MarkStep, TagNames DEF Marks
<1>5. Lasting
  BY <1>4 DEF ImageInv, ShowsRun, Lasting
<1>6. ShowsRun'
  <2>1. ASSUME NEW r \in Registries, NEW u \in Tags, images'[r][u] # None
        PROVE  images'[r][u] = Image(u)' /\ step'[u] # "none"
    <3>1. CASE images'[r][u] = images[r][u]
      BY <1>3, <2>1, <3>1 DEF ImageInv, ShowsRun
    <3>2. CASE u = t /\ images'[r][u] = Image(t)
      BY <1>3, <3>2
    <3>3. QED
      BY <1>4, <3>1, <3>2
  <2>2. QED
    BY <2>1 DEF ShowsRun
<1>7. QED
  BY <1>3, <1>4, <1>5, <1>6 DEF ImageInv

LEMMA ImageNext == ASSUME ImageInv, [Next]_vars PROVE ImageInv' /\ (Lasting \/ UNCHANGED images)
<1>1. CASE Write \/ Merge \/ UNCHANGED vars
  <2>1. UNCHANGED <<step, attempt, images>>
    BY <1>1 DEF Write, Merge, vars, runVars
  <2>2. QED
    BY <2>1 DEF ImageInv, RunType, ImageType, ShowsRun, Image
<1>2. ASSUME NEW t \in Tags,
             Validate(t) \/ TakeNotes(t) \/ Attest(t) \/ CreateRelease(t) \/ Breaks(t)
      PROVE  ImageInv' /\ UNCHANGED images
  <2>1. images' = images /\ \E next \in Steps \ {"none"} : Goto(t, next)
    <3>1. CASE Validate(t)
      BY <3>1 DEF Validate, Steps
    <3>2. CASE TakeNotes(t)
      BY <3>2 DEF TakeNotes, Steps
    <3>3. CASE Attest(t)
      BY <3>3 DEF Attest, Steps
    <3>4. CASE CreateRelease(t)
      BY <3>4 DEF CreateRelease, Steps
    <3>5. CASE Breaks(t)
      BY <3>5 DEF Breaks, Steps
    <3>6. QED
      BY <1>2, <3>1, <3>2, <3>3, <3>4, <3>5
  <2>2. QED
    BY <2>1, SameRun DEF ImageInv, ImageType, ShowsRun
<1>3. QED
  BY <1>1, <1>2, BeginStep, PushStep DEF Next

\* For any number of versions, runs at the same time, failures and re-runs: a
\* reference of a version, once it points to an image, points to it for ever.
THEOREM VersionsLast == Spec => VersionsImmutable
<1>1. ImageInv /\ [Next]_vars =>
        [\A r \in Registries, v \in Versions :
           images[r][v] # None => images'[r][v] = images[r][v]]_vars
  <2>1. ASSUME ImageInv, [Next]_vars
        PROVE  \A r \in Registries, v \in Versions :
                 images[r][v] # None => images'[r][v] = images[r][v]
    BY <2>1, ImageNext, TagNames DEF Lasting
  <2>2. QED
    BY <2>1
<1>2. QED
  BY ImageInit, ImageNext, <1>1, PTL DEF Spec, VersionsImmutable

-----------------------------------------------------------------------------
(* Accepted notes stand alone.  What is visible depends on the number of      *)
(* fences before it: a section begins behind a visible heading, so that       *)
(* number is even, and the section shows what the changelog shows of it.      *)

\* A set of numbers has a least one, and a bounded one a greatest.
LEMMA LeastOf ==
  ASSUME NEW S, S \subseteq Nat, S # {}
  PROVE  Min(S) \in S /\ \A i \in S : Min(S) <= i
<1>1. PICK m \in S : \A i \in S : ~(<<i, m>> \in OpToRel(<, Nat))
  <2>1. \A R, U, V : IsWellFoundedOn(R, U) /\ V \subseteq U /\ V # {} =>
          \E x \in V : \A y \in V : ~(<<y, x>> \in R)
    BY WFMin
  <2>2. QED
    BY <2>1, NatLessThanWellFounded
<1>2. \A i \in S : ~(i < m)
  BY <1>1 DEF OpToRel
<1>3. \A i \in S : m <= i
  BY <1>2
<1>4. QED
  BY <1>3 DEF Min

LEMMA GreatestOf ==
  ASSUME NEW n \in Nat, NEW S, S \subseteq 0..n, S # {}
  PROVE  Max(S) \in S /\ \A i \in S : i <= Max(S)
<1> DEFINE T == {n - i : i \in S}
<1>1. T \subseteq Nat /\ T # {}
  <2>1. \A i \in S : n - i \in Nat
    OBVIOUS
  <2>2. QED
    BY <2>1
<1>2. PICK m \in T : \A i \in T : m <= i
  <2> HIDE DEF T
  <2>1. QED
    BY <1>1, LeastOf
<1>3. PICK k \in S : m = n - k
  BY <1>2
<1>4. \A i \in S : k >= i
  <2>1. \A i \in S : m <= n - i
    BY <1>2
  <2>2. QED
    BY <1>3, <2>1
<1>5. QED
  BY <1>4 DEF Max

\* The positions of the fences among the first n blocks.
Fences(doc, n) == {j \in 1..n : doc[j].kind = "fence"}

LEMMA FencesCounted ==
  ASSUME NEW doc, NEW n \in Int
  PROVE  IsFiniteSet(Fences(doc, n)) /\ Cardinality(Fences(doc, n)) \in Nat
<1>1. IsFiniteSet(1..n)
  BY FS_Interval
<1>2. Fences(doc, n) \in SUBSET (1..n)
  BY DEF Fences
<1>3. IsFiniteSet(Fences(doc, n))
  BY <1>1, <1>2, FS_Subset
<1>4. QED
  BY <1>3, FS_CardinalityType

\* A part of a document: its blocks stand there from place s + 1 on.
Within(body, doc, s) ==
  /\ s \in Nat /\ s + Len(body) <= Len(doc)
  /\ \A j \in 1..Len(body) : body[j] = doc[s + j]

\* The fences before a block are those before the part and those in the part.
LEMMA FencesShift ==
  ASSUME NEW doc, NEW body, NEW s \in Nat, NEW n \in Nat, NEW m, m = s + n,
         \A j \in 1..n : body[j] = doc[s + j]
  PROVE  Cardinality(Fences(doc, m)) =
           Cardinality(Fences(doc, s)) + Cardinality(Fences(body, n))
<1> DEFINE Upper == {j \in Fences(doc, m) : j > s}
           f == [j \in Fences(body, n) |-> s + j]
<1>1. Fences(doc, m) = Fences(doc, s) \cup Upper /\ Fences(doc, s) \cap Upper = {}
  BY DEF Fences
<1>2. f \in [Fences(body, n) -> Upper]
  BY DEF Fences
<1>3. \A j, k \in Fences(body, n) : f[j] = f[k] => j = k
  BY DEF Fences
<1>4. \A i \in Upper : \E j \in Fences(body, n) : f[j] = i
  <2>1. ASSUME NEW i \in Upper PROVE \E j \in Fences(body, n) : f[j] = i
    <3>1. i - s \in 1..n /\ s + (i - s) = i /\ doc[i].kind = "fence"
      BY DEF Fences
    <3>2. i - s \in Fences(body, n)
      BY <3>1 DEF Fences
    <3>3. QED
      BY <3>1, <3>2
  <2>2. QED
    BY <2>1
<1>5. f \in Bijection(Fences(body, n), Upper)
  <2> HIDE DEF f, Upper
  <2>1. QED
    BY <1>2, <1>3, <1>4 DEF Bijection, Injection, Surjection, IsInjective
<1>6. IsFiniteSet(Upper) /\ Cardinality(Upper) = Cardinality(Fences(body, n))
  <2> HIDE DEF f, Upper
  <2>1. QED
    BY <1>5, FencesCounted, FS_Bijection DEF ExistsBijection
<1>7. QED
  <2> HIDE DEF f, Upper
  <2>1. PICK a \in Nat : a = Cardinality(Fences(doc, s))
    BY FencesCounted
  <2>2. PICK b \in Nat : b = Cardinality(Fences(body, n))
    BY FencesCounted
  <2>3. PICK c \in Nat : c = Cardinality(Fences(doc, s) \cap Upper) /\ c = 0
    BY <1>1, FS_EmptySet
  <2>4. Cardinality(Fences(doc, s) \cup Upper) = a + b - c
    <3>1. IsFiniteSet(Fences(doc, s))
      BY FencesCounted
    <3>2. Cardinality(Fences(doc, s) \cup Upper) =
            Cardinality(Fences(doc, s)) + Cardinality(Upper)
              - Cardinality(Fences(doc, s) \cap Upper)
      BY <1>6, <3>1, FS_Union
    <3>3. QED
      BY <1>6, <2>1, <2>2, <2>3, <3>2
  <2>5. a + b - c = a + b
    BY <2>3
  <2>6. QED
    BY <1>1, <2>1, <2>2, <2>4, <2>5

\* An even number of fences before a part does not matter to what it shows.
LEMMA Parity ==
  ASSUME NEW a \in Nat, NEW b \in Nat, a % 2 = 0
  PROVE  (a + b) % 2 = b % 2
OBVIOUS

LEMMA NoFence ==
  ASSUME NEW doc, NEW n \in Int, \A j \in 1..n : doc[j].kind # "fence"
  PROVE  Cardinality(Fences(doc, n)) = 0
<1>1. Fences(doc, n) = {}
  BY DEF Fences
<1>2. QED
  BY <1>1, FS_EmptySet

\* Not inside a code block.
Shown(doc, i) == Cardinality(Fences(doc, i - 1)) % 2 = 0

LEMMA VisibleIs ==
  ASSUME NEW doc, NEW kind
  PROVE  Visible(doc, kind) = {i \in DOMAIN doc : doc[i].kind = kind /\ Shown(doc, i)}
BY DEF Visible, Shown, Fences

\* A part shows what the document shows of it, if no code block is open before it.
LEMMA VisibleShift ==
  ASSUME NEW doc \in Seq(Blocks), NEW body \in Seq(Blocks), NEW s, Within(body, doc, s),
         Cardinality(Fences(doc, s)) % 2 = 0, NEW kind, NEW i \in 1..Len(body), NEW k, k = s + i
  PROVE  i \in Visible(body, kind) <=> k \in Visible(doc, kind)
<1>1. PICK m \in Nat, n \in Nat :
        m = Len(body) /\ n = Len(doc) /\ DOMAIN body = 1..m /\ DOMAIN doc = 1..n
  BY LenProperties
<1>2. s \in Nat /\ s + m <= n /\ \A j \in 1..m : body[j] = doc[s + j]
  BY <1>1 DEF Within
<1>3. i \in DOMAIN body /\ k \in DOMAIN doc /\ body[i] = doc[k] /\ i \in 1..m
  BY <1>1, <1>2
<1>4. PICK p \in Nat : p = i - 1 /\ p < m /\ k - 1 = s + p
  <2>1. i \in Nat /\ i >= 1 /\ i <= m /\ s \in Nat /\ m \in Nat
    BY <1>2, <1>3
  <2>2. i - 1 \in Nat /\ i - 1 < m /\ k - 1 = s + (i - 1)
    BY <2>1
  <2>3. QED
    BY <2>2
<1>5. Cardinality(Fences(doc, k - 1)) = Cardinality(Fences(doc, s)) + Cardinality(Fences(body, p))
  <2>1. \A j \in 1..p : body[j] = doc[s + j]
    BY <1>1, <1>2, <1>4
  <2>2. QED
    BY <1>2, <1>4, <2>1, FencesShift
<1>6. Shown(body, i) <=> Shown(doc, k)
  <2>1. PICK a \in Nat : a = Cardinality(Fences(doc, s))
    BY <1>2, FencesCounted
  <2>2. PICK b \in Nat : b = Cardinality(Fences(body, p))
    BY <1>4, FencesCounted
  <2>3. a % 2 = 0 /\ (a + b) % 2 = b % 2
    BY <2>1, <2>2, Parity
  <2>4. Cardinality(Fences(doc, k - 1)) = a + b /\ Cardinality(Fences(body, i - 1)) = b
    BY <1>4, <1>5, <2>1, <2>2
  <2>5. QED
    BY <2>3, <2>4 DEF Shown
<1>7. QED
  BY <1>3, <1>6, VisibleIs

\* The blocks up to a place are alike: what is visible there is.
LEMMA VisiblePrefix ==
  ASSUME NEW doc \in Seq(Blocks), NEW body \in Seq(Blocks), NEW c \in Nat,
         c <= Len(doc), c <= Len(body), \A j \in 1..c : body[j] = doc[j],
         NEW kind, NEW i \in 1..c
  PROVE  i \in Visible(body, kind) <=> i \in Visible(doc, kind)
<1>1. i \in DOMAIN body /\ i \in DOMAIN doc /\ body[i] = doc[i]
  <2>1. PICK m \in Nat, n \in Nat :
          m = Len(body) /\ n = Len(doc) /\ DOMAIN body = 1..m /\ DOMAIN doc = 1..n
    BY LenProperties
  <2>2. QED
    BY <2>1
<1>2. Fences(body, i - 1) = Fences(doc, i - 1)
  BY DEF Fences
<1>3. QED
  BY <1>1, <1>2, VisibleIs DEF Shown

\* How many of the positions are up to one: what At looks for.
Below(positions, i) == {j \in positions : j <= i}

\* Each position has a place of its own among them, and each place is taken.
LEMMA Ranks ==
  ASSUME NEW positions \in SUBSET Nat, IsFiniteSet(positions), NEW n, n = Cardinality(positions)
  PROVE  /\ n \in Nat
         /\ \A k \in 1..n : At(positions, k) \in positions
         /\ \A k, l \in 1..n : At(positions, k) = At(positions, l) => k = l
         /\ \A i \in positions : \E k \in 1..n : At(positions, k) = i
<1>1. n \in Nat
  BY FS_CardinalityType
<1>2. ASSUME NEW i \in positions
      PROVE  /\ IsFiniteSet(Below(positions, i))
             /\ Cardinality(Below(positions, i)) \in 1..n
  <2>1. Below(positions, i) \in SUBSET positions /\ i \in Below(positions, i)
    BY DEF Below
  <2>2. IsFiniteSet(Below(positions, i)) /\ Cardinality(Below(positions, i)) <= n
    BY <2>1, FS_Subset
  <2>3. Cardinality(Below(positions, i)) \in Nat /\ Cardinality(Below(positions, i)) # 0
    BY <2>1, <2>2, FS_CardinalityType, FS_EmptySet
  <2>4. QED
    BY <1>1, <2>2, <2>3
<1>3. ASSUME NEW i \in positions, NEW j \in positions, i < j
      PROVE  Cardinality(Below(positions, i)) # Cardinality(Below(positions, j))
  <2>1. /\ Below(positions, i) \in SUBSET Below(positions, j)
        /\ j \in Below(positions, j) \ Below(positions, i)
    <3>1. i \in Nat /\ j \in Nat
      OBVIOUS
    <3>2. \A k \in positions : k <= i => k <= j
      BY <1>3, <3>1
    <3>3. j <= j /\ ~(j <= i)
      BY <1>3, <3>1
    <3>4. QED
      BY <3>2, <3>3 DEF Below
  <2>2. IsFiniteSet(Below(positions, j))
    BY <1>2
  <2>3. Cardinality(Below(positions, j)) = Cardinality(Below(positions, i)) =>
          Below(positions, j) = Below(positions, i)
    BY <2>1, <2>2, FS_Subset
  <2>4. QED
    BY <2>1, <2>3
<1> DEFINE f == [i \in positions |-> Cardinality(Below(positions, i))]
<1>4. f \in Injection(positions, 1..n)
  <2>1. f \in [positions -> 1..n]
    BY <1>2
  <2>2. \A i, j \in positions : f[i] = f[j] => i = j
    <3>1. ASSUME NEW i \in positions, NEW j \in positions, f[i] = f[j] PROVE i = j
      <4>1. ~(i < j) /\ ~(j < i)
        BY <1>3, <3>1
      <4>2. QED
        BY <4>1
    <3>2. QED
      BY <3>1
  <2> HIDE DEF f
  <2>3. QED
    BY <2>1, <2>2 DEF Injection, IsInjective
<1>5. f \in Surjection(positions, 1..n)
  <2>1. IsFiniteSet(1..n) /\ Cardinality(1..n) = n
    <3>1. n \in Int /\ 1 \in Int
      BY <1>1
    <3>2. IsFiniteSet(1..n) /\ Cardinality(1..n) = IF 1 > n THEN 0 ELSE n - 1 + 1
      BY <3>1, FS_Interval
    <3>3. QED
      BY <1>1, <3>2
  <2> HIDE DEF f
  <2>2. Cardinality(positions) = Cardinality(1..n) <=> f \in Surjection(positions, 1..n)
    BY <1>4, <2>1, FS_Injection
  <2>3. QED
    BY <2>1, <2>2
<1>6. \A k \in 1..n : \E i \in positions : Cardinality(Below(positions, i)) = k
  BY <1>5 DEF Surjection
<1>7. \A k \in 1..n : /\ At(positions, k) \in positions
                      /\ Cardinality(Below(positions, At(positions, k))) = k
  BY <1>6 DEF At, Below
<1>8. ASSUME NEW i \in positions PROVE \E k \in 1..n : At(positions, k) = i
  <2>1. PICK k \in 1..n : k = Cardinality(Below(positions, i))
    BY <1>2
  <2>2. PICK j \in positions : j = At(positions, k) /\ Cardinality(Below(positions, j)) = k
    BY <1>7
  <2>3. ~(i < j) /\ ~(j < i)
    BY <1>3, <2>1, <2>2
  <2>4. QED
    BY <2>2, <2>3
<1>9. QED
  BY <1>1, <1>7, <1>8

\* The positions of a document are finitely many.
LEMMA PositionsFinite ==
  ASSUME NEW n \in Nat, NEW positions \in SUBSET (1..n)
  PROVE  IsFiniteSet(positions) /\ positions \in SUBSET Nat
<1>1. IsFiniteSet(1..n)
  BY FS_Interval
<1>2. IsFiniteSet(positions)
  BY <1>1, FS_Subset
<1>3. QED
  BY <1>2

\* The blocks of Only are those at the positions.
Collects(only, doc, positions) ==
  /\ \A k \in DOMAIN only : \E i \in positions : only[k] = doc[i]
  /\ \A i \in positions : \E k \in DOMAIN only : only[k] = doc[i]
  /\ \A k, l \in DOMAIN only : k # l =>
       \E i, j \in positions : i # j /\ only[k] = doc[i] /\ only[l] = doc[j]

LEMMA OnlyIs ==
  ASSUME NEW S, NEW doc, NEW positions \in SUBSET Nat, IsFiniteSet(positions),
         \A i \in positions : doc[i] \in S, NEW only, only = Only(doc, positions)
  PROVE  only \in Seq(S) /\ Collects(only, doc, positions)
<1>1. PICK c : c = Cardinality(positions)
  OBVIOUS
<1>2. /\ c \in Nat
      /\ \A k \in 1..c : At(positions, k) \in positions
      /\ \A k, l \in 1..c : At(positions, k) = At(positions, l) => k = l
      /\ \A i \in positions : \E k \in 1..c : At(positions, k) = i
  BY <1>1, Ranks
<1>3. only = [k \in 1..c |-> doc[At(positions, k)]]
  BY <1>1 DEF Only
<1>4. only \in [1..c -> S]
  BY <1>2, <1>3
<1>5. only \in Seq(S)
  BY <1>2, <1>4, SeqDef
<1>6. \A k \in 1..c : only[k] = doc[At(positions, k)]
  BY <1>3
<1>7. DOMAIN only = 1..c
  BY <1>3
<1>8. ASSUME NEW k \in 1..c, NEW l \in 1..c, k # l
      PROVE  \E i, j \in positions : i # j /\ only[k] = doc[i] /\ only[l] = doc[j]
  <2>1. At(positions, k) # At(positions, l)
    BY <1>2, <1>8
  <2>2. PICK i, j \in positions : i = At(positions, k) /\ j = At(positions, l)
    BY <1>2
  <2>3. only[k] = doc[i] /\ only[l] = doc[j]
    BY <1>6, <2>2
  <2>4. QED
    BY <2>1, <2>2, <2>3
<1>9. Collects(only, doc, positions)
  <2>1. \A k \in DOMAIN only : \E i \in positions : only[k] = doc[i]
    BY <1>2, <1>6, <1>7
  <2>2. \A i \in positions : \E k \in DOMAIN only : only[k] = doc[i]
    BY <1>2, <1>6, <1>7
  <2>3. \A k, l \in DOMAIN only : k # l =>
          \E i, j \in positions : i # j /\ only[k] = doc[i] /\ only[l] = doc[j]
    BY <1>7, <1>8
  <2>4. QED
    BY <2>1, <2>2, <2>3 DEF Collects
<1>10. QED
  BY <1>5, <1>9

\* Documents that agree at the positions have the same blocks there.
LEMMA OnlyAgrees ==
  ASSUME NEW doc, NEW other, NEW positions \in SUBSET Nat, IsFiniteSet(positions),
         \A i \in positions : doc[i] = other[i]
  PROVE  Only(doc, positions) = Only(other, positions)
<1>1. PICK c : c = Cardinality(positions)
  OBVIOUS
<1>2. \A k \in 1..c : At(positions, k) \in positions
  BY <1>1, Ranks
<1>3. \A k \in 1..c : doc[At(positions, k)] = other[At(positions, k)]
  BY <1>2
<1>4. QED
  BY <1>1, <1>3 DEF Only

-----------------------------------------------------------------------------
(* Links: what a document has itself and what it borrows.                     *)

\* The references a document uses, and what it points one of them to.
Used(doc) == {doc[i].uses : i \in Visible(doc, "text")}
Target(doc, r) == doc[FirstOf(doc, r)].href

\* Its links with its own definitions, and those it needs another's for.
Own(doc) == {<<r, Target(doc, r)>> : r \in Used(doc) \cap Defined(doc)}
Borrowed(doc, outside) ==
  {<<r, Target(outside, r)>> : r \in (Used(doc) \cap Defined(outside)) \ Defined(doc)}

LEMMA LinksAre ==
  ASSUME NEW doc, NEW outside
  PROVE  links(doc, outside) = Own(doc) \cup Borrowed(doc, outside)
BY DEF links, Own, Borrowed, Used, Target

LEMMA LinksAlone == ASSUME NEW doc PROVE links(doc, <<>>) = Own(doc)
<1>1. Defined(<<>>) = {}
  <2>1. DOMAIN <<>> = {}
    OBVIOUS
  <2>2. Visible(<<>>, "definition") = {}
    BY <2>1 DEF Visible
  <2>3. QED
    BY <2>2 DEF Defined
<1>2. Borrowed(doc, <<>>) = {}
  BY <1>1 DEF Borrowed
<1>3. QED
  BY <1>2, LinksAre

\* Notes without a broken link have a definition for whatever they use that the
\* changelog defines.
LEMMA NothingBroken ==
  ASSUME NEW notes, NEW doc
  PROVE  broken_links(notes, doc) = {} <=> Used(notes) \cap Defined(doc) \subseteq Defined(notes)
<1>1. broken_links(notes, doc) = (Own(notes) \cup Borrowed(notes, doc)) \ Own(notes)
  BY LinksAre, LinksAlone DEF broken_links
<1>2. Borrowed(notes, doc) \cap Own(notes) = {}
  <2>1. ASSUME NEW r \in Used(notes) \cap Defined(notes),
               NEW q \in (Used(notes) \cap Defined(doc)) \ Defined(notes)
        PROVE  <<r, Target(notes, r)>> # <<q, Target(doc, q)>>
    <3>1. r # q
      BY <2>1
    <3>2. QED
      BY <3>1
  <2>2. QED
    BY <2>1 DEF Own, Borrowed
<1>3. broken_links(notes, doc) = Borrowed(notes, doc)
  BY <1>1, <1>2
<1>4. Borrowed(notes, doc) = {} <=> (Used(notes) \cap Defined(doc)) \ Defined(notes) = {}
  BY DEF Borrowed
<1>5. QED
  BY <1>3, <1>4

LEMMA OwnLinks ==
  ASSUME NEW doc, NEW r
  PROVE  (\E href : <<r, href>> \in Own(doc)) <=> r \in Used(doc) \cap Defined(doc)
BY DEF Own

LEMMA SameLinks ==
  ASSUME NEW doc, NEW other, Used(doc) = Used(other),
         Used(doc) \cap Defined(doc) = Used(doc) \cap Defined(other),
         \A r \in Used(doc) \cap Defined(doc) : Target(doc, r) = Target(other, r)
  PROVE  Own(doc) = Own(other)
BY DEF Own

\* The definition in effect is the first.
LEMMA FirstIs ==
  ASSUME NEW doc \in Seq(Blocks), NEW r \in Defined(doc)
  PROVE  /\ FirstOf(doc, r) \in Visible(doc, "definition") /\ doc[FirstOf(doc, r)].defines = r
         /\ \A i \in Visible(doc, "definition") : doc[i].defines = r => FirstOf(doc, r) <= i
<1> DEFINE S == {i \in Visible(doc, "definition") : doc[i].defines = r}
<1>1. DOMAIN doc \subseteq Nat
  <2>1. PICK n \in Nat : DOMAIN doc = 1..n
    BY LenProperties
  <2>2. QED
    BY <2>1
<1>2. S \subseteq Nat
  BY <1>1 DEF Visible
<1>3. S # {}
  BY DEF Defined
<1>4. FirstOf(doc, r) = Min(S)
  BY DEF FirstOf
<1>5. Min(S) \in S /\ \A i \in S : Min(S) <= i
  <2> HIDE DEF S
  <2>1. QED
    BY <1>2, <1>3, LeastOf
<1>6. QED
  BY <1>4, <1>5

\* The definition in effect is the one before which there is none.
LEMMA FirstUnique ==
  ASSUME NEW doc \in Seq(Blocks), NEW i \in Visible(doc, "definition"),
         \A j \in Visible(doc, "definition") : doc[j].defines = doc[i].defines => i <= j
  PROVE  doc[i].defines \in Defined(doc) /\ FirstOf(doc, doc[i].defines) = i
<1>1. doc[i].defines \in Defined(doc)
  BY DEF Defined
<1>2. PICK r : r = doc[i].defines
  OBVIOUS
<1>3. PICK m : m = FirstOf(doc, r)
  OBVIOUS
<1>4. m \in Visible(doc, "definition") /\ doc[m].defines = r /\ m <= i
  BY <1>1, <1>2, <1>3, FirstIs
<1>5. i <= m
  BY <1>2, <1>4
<1>6. PICK n \in Nat : DOMAIN doc = 1..n
  BY LenProperties
<1>7. m \in Nat /\ i \in Nat
  BY <1>4, <1>6 DEF Visible
<1>8. m = i
  BY <1>4, <1>5, <1>7
<1>9. QED
  BY <1>1, <1>2, <1>3, <1>8

\* Behind the cut there are definitions only.
LEMMA CutIs ==
  ASSUME NEW body \in Seq(Blocks), NEW c,
         c = Max({0} \cup {i \in DOMAIN body : i \notin Visible(body, "definition")})
  PROVE  /\ c \in Nat /\ c <= Len(body)
         /\ \A i \in 1..Len(body) : i > c => i \in Visible(body, "definition")
<1>1. PICK n \in Nat : n = Len(body) /\ DOMAIN body = 1..n
  BY LenProperties
<1> DEFINE S == {0} \cup {i \in DOMAIN body : i \notin Visible(body, "definition")}
<1>2. S \subseteq 0..n /\ S # {}
  <2>1. 1..n \subseteq 0..n /\ 0 \in 0..n
    BY <1>1
  <2>2. QED
    BY <1>1, <2>1
<1>3. c \in S /\ \A i \in S : i <= c
  <2>1. c = Max(S)
    OBVIOUS
  <2> HIDE DEF S
  <2>2. QED
    BY <1>2, <2>1, GreatestOf
<1>4. c \in 0..n
  <2> HIDE DEF S
  <2>1. QED
    BY <1>2, <1>3
<1>5. ASSUME NEW i \in 1..n, i > c PROVE i \in Visible(body, "definition")
  <2>1. ~(i <= c)
    BY <1>4, <1>5
  <2>2. i \notin S
    BY <1>3, <2>1
  <2>3. QED
    BY <1>1, <2>2
<1>6. QED
  BY <1>1, <1>4, <1>5

-----------------------------------------------------------------------------
(* The last section, without the changelog's link block.                      *)

\* The parts of without_the_link_block.
Cut(body) == Max({0} \cup {i \in DOMAIN body : i \notin Visible(body, "definition")})
LinkBlock(body) == SubSeq(body, Cut(body) + 1, Len(body))
Firsts(body) == {FirstOf(LinkBlock(body), r) : r \in Defined(LinkBlock(body))}
Kept(body) ==
  {i \in Firsts(body) : links(RemoveAt(body, Cut(body) + i), <<>>) # links(body, <<>>)}

LEMMA TrimmedIs ==
  ASSUME NEW body
  PROVE  without_the_link_block(body) =
           SubSeq(body, 1, Cut(body)) \o Only(LinkBlock(body), Kept(body))
BY DEF without_the_link_block, Cut, LinkBlock, Firsts, Kept

\* A part of a document from place a + 1 to place b.
LEMMA PartIs ==
  ASSUME NEW doc \in Seq(Blocks), NEW a \in Nat, NEW b \in Nat, a <= b, b <= Len(doc),
         NEW part, part = SubSeq(doc, a + 1, b)
  PROVE  /\ part \in Seq(Blocks) /\ Len(part) = b - a
         /\ \A j \in 1..Len(part) : part[j] = doc[a + j]
<1>1. PICK n \in Nat : n = Len(doc) /\ DOMAIN doc = 1..n /\ doc \in [1..n -> Blocks]
  BY LenProperties
<1>2. \A i \in (a + 1)..b : doc[i] \in Blocks
  BY <1>1
<1>3. PICK m \in Int : m = a + 1
  OBVIOUS
<1>4. /\ part \in Seq(Blocks)
      /\ Len(part) = IF m <= b THEN b - m + 1 ELSE 0
      /\ \A i \in 1..(b - m + 1) : part[i] = doc[m + i - 1]
  BY <1>2, <1>3, SubSeqProperties
<1>5. b - m + 1 = b - a /\ (m <= b <=> a < b) /\ (~(m <= b) => b - a = 0)
  BY <1>3
<1>6. Len(part) = b - a
  BY <1>4, <1>5
<1>7. \A i \in 1..(b - a) : part[i] = doc[a + i]
  <2>1. \A i \in 1..(b - a) : part[i] = doc[m + i - 1]
    BY <1>4, <1>5
  <2>2. \A i \in 1..(b - a) : m + i - 1 = a + i
    BY <1>3
  <2>3. QED
    BY <2>1, <2>2
<1>8. QED
  BY <1>4, <1>6, <1>7

\* The link block: definitions, all of them visible.
LEMMA LinkBlockIs ==
  ASSUME NEW body \in Seq(Blocks), NEW c, c = Cut(body), NEW block, block = LinkBlock(body)
  PROVE  /\ c \in Nat /\ c <= Len(body)
         /\ block \in Seq(Blocks) /\ Len(block) = Len(body) - c
         /\ \A i \in 1..Len(body) : i > c => i \in Visible(body, "definition")
         /\ \A i \in 1..Len(block) : block[i] = body[c + i] /\ i \in Visible(block, "definition")
<1>1. /\ c \in Nat /\ c <= Len(body)
      /\ \A i \in 1..Len(body) : i > c => i \in Visible(body, "definition")
  BY CutIs DEF Cut
<1>2. PICK n \in Nat : n = Len(body) /\ DOMAIN body = 1..n
  BY LenProperties
<1>3. block = SubSeq(body, c + 1, n)
  BY <1>2 DEF LinkBlock
<1>4. /\ block \in Seq(Blocks) /\ Len(block) = n - c
      /\ \A j \in 1..Len(block) : block[j] = body[c + j]
  <2>1. n <= Len(body) /\ c \in Nat /\ c <= n
    BY <1>1, <1>2
  <2>2. \A part : part = SubSeq(body, c + 1, n) =>
          /\ part \in Seq(Blocks) /\ Len(part) = n - c
          /\ \A j \in 1..Len(part) : part[j] = body[c + j]
    BY <2>1, PartIs
  <2>3. QED
    BY <1>3, <2>2
<1>5. \A i \in 1..Len(block) : block[i].kind = "definition"
  <2>1. ASSUME NEW i \in 1..Len(block) PROVE block[i].kind = "definition"
    <3>1. c + i \in 1..n /\ c + i > c
      BY <1>1, <1>2, <1>4
    <3>2. c + i \in Visible(body, "definition")
      BY <1>1, <1>2, <3>1
    <3>3. body[c + i].kind = "definition"
      BY <3>2 DEF Visible
    <3>4. QED
      BY <1>4, <3>3
  <2>2. QED
    BY <2>1
<1>6. \A i \in 1..Len(block) : i \in Visible(block, "definition")
  <2>1. ASSUME NEW i \in 1..Len(block) PROVE i \in Visible(block, "definition")
    <3>1. i \in DOMAIN block /\ DOMAIN block = 1..Len(block) /\ Len(block) \in Nat
      BY <1>4, LenProperties
    <3>2. PICK p \in Int : p = i - 1
      BY <3>1
    <3>3. \A j \in 1..p : block[j].kind # "fence"
      BY <1>5, <3>1, <3>2
    <3>4. Cardinality(Fences(block, p)) = 0
      BY <3>3, NoFence
    <3>5. Shown(block, i)
      BY <3>2, <3>4 DEF Shown
    <3>6. QED
      BY <1>5, <3>1, <3>5, VisibleIs
  <2>2. QED
    BY <2>1
<1>7. QED
  BY <1>1, <1>2, <1>4, <1>6

\* What is kept of it is each time the first definition of a reference.
LEMMA KeptIs ==
  ASSUME NEW body \in Seq(Blocks), NEW block, block = LinkBlock(body)
  PROVE  /\ Kept(body) \subseteq 1..Len(block)
         /\ \A i \in Kept(body) : FirstOf(block, block[i].defines) = i
<1>1. block \in Seq(Blocks)
  BY LinkBlockIs
<1>2. DOMAIN block = 1..Len(block)
  BY <1>1, LenProperties
<1>3. ASSUME NEW i \in Kept(body) PROVE i \in 1..Len(block) /\ FirstOf(block, block[i].defines) = i
  <2>1. PICK r \in Defined(block) : i = FirstOf(block, r)
    BY <1>3 DEF Kept, Firsts
  <2>2. i \in Visible(block, "definition") /\ block[i].defines = r
    BY <1>1, <2>1, FirstIs
  <2>3. QED
    BY <1>2, <2>1, <2>2 DEF Visible
<1>4. QED
  BY <1>3

\* What is left of the last section: its blocks up to the cut, and then the kept
\* definitions.
Trims(notes, body, c) ==
  /\ c \in Nat /\ c <= Len(body) /\ c <= Len(notes)
  /\ \A j \in 1..c : notes[j] = body[j]
  /\ \A k \in 1..Len(notes) : k > c =>
       notes[k].kind = "definition" /\ \E i \in Kept(body) : notes[k] = body[c + i]
  /\ \A i \in Kept(body) : \E k \in 1..Len(notes) : k > c /\ notes[k] = body[c + i]
  /\ \A k, l \in 1..Len(notes) : k > c /\ l > c /\ k # l => notes[k].defines # notes[l].defines

LEMMA TrimsIs ==
  ASSUME NEW body \in Seq(Blocks), NEW notes, notes = without_the_link_block(body)
  PROVE  notes \in Seq(Blocks) /\ Trims(notes, body, Cut(body))
<1>1. PICK c, block : c = Cut(body) /\ block = LinkBlock(body)
  OBVIOUS
<1>2. /\ c \in Nat /\ c <= Len(body)
      /\ block \in Seq(Blocks) /\ Len(block) = Len(body) - c
      /\ \A i \in 1..Len(block) : block[i] = body[c + i] /\ i \in Visible(block, "definition")
  BY <1>1, LinkBlockIs
<1>3. PICK n \in Nat : n = Len(body)
  BY LenProperties
<1>4. PICK m \in Nat : m = Len(block) /\ block \in [1..m -> Blocks]
  BY <1>2, LenProperties
<1>5. PICK head : head = SubSeq(body, 1, c)
  OBVIOUS
<1>6. head \in Seq(Blocks) /\ Len(head) = c /\ \A j \in 1..c : head[j] = body[j]
  <2>1. head = SubSeq(body, 0 + 1, c)
    BY <1>5
  <2>2. head \in Seq(Blocks) /\ Len(head) = c - 0 /\ \A j \in 1..Len(head) : head[j] = body[0 + j]
    BY <1>2, <2>1, PartIs
  <2>3. c - 0 = c /\ \A j \in 1..c : 0 + j = j
    BY <1>2
  <2>4. QED
    BY <2>2, <2>3
<1>7. PICK kept : kept = Kept(body)
  OBVIOUS
<1>8. kept \in SUBSET (1..m)
  BY <1>1, <1>4, <1>7, KeptIs
<1>9. PICK tail : tail = Only(block, kept)
  OBVIOUS
<1>10. tail \in Seq(Blocks) /\ Collects(tail, block, kept)
  <2>1. \A i \in kept : block[i] \in Blocks
    BY <1>4, <1>8
  <2>2. IsFiniteSet(kept) /\ kept \in SUBSET Nat
    BY <1>4, <1>8, PositionsFinite
  <2>3. QED
    BY <1>9, <2>1, <2>2, OnlyIs
<1>11. notes = head \o tail
  BY <1>1, <1>5, <1>7, <1>9, TrimmedIs
<1>12. PICK t \in Nat : t = Len(tail) /\ DOMAIN tail = 1..t
  BY <1>10, LenProperties
<1>13. /\ notes \in Seq(Blocks) /\ Len(notes) = c + t
       /\ \A i \in 1..(c + t) : notes[i] = IF i <= c THEN head[i] ELSE tail[i - c]
  BY <1>6, <1>10, <1>11, <1>12, ConcatProperties
<1>14. \A i \in kept : block[i] = body[c + i] /\ block[i].kind = "definition"
  BY <1>2, <1>4, <1>8 DEF Visible
<1>15. \A j \in 1..c : notes[j] = body[j]
  <2>1. \A j \in 1..c : j \in 1..(c + t) /\ j <= c
    BY <1>2, <1>12
  <2>2. QED
    BY <1>6, <1>13, <2>1
<1>16. ASSUME NEW k \in 1..Len(notes), k > c
       PROVE  notes[k].kind = "definition" /\ \E i \in kept : notes[k] = body[c + i]
  <2>1. k \in 1..(c + t) /\ ~(k <= c) /\ k - c \in 1..t
    BY <1>2, <1>12, <1>13, <1>16
  <2>2. notes[k] = tail[k - c]
    BY <1>13, <2>1
  <2>3. QED
    BY <1>10, <1>12, <1>14, <2>1, <2>2 DEF Collects
<1>17. ASSUME NEW i \in kept PROVE \E k \in 1..Len(notes) : k > c /\ notes[k] = body[c + i]
  <2>1. PICK j \in 1..t : tail[j] = block[i]
    BY <1>10, <1>12 DEF Collects
  <2>2. PICK k \in 1..(c + t) : k = c + j /\ k > c /\ ~(k <= c) /\ k - c = j
    <3>1. c + j \in 1..(c + t) /\ c + j > c /\ ~(c + j <= c) /\ (c + j) - c = j
      BY <1>2, <1>12
    <3>2. QED
      BY <3>1
  <2>3. notes[k] = tail[j]
    BY <1>13, <2>2
  <2>4. QED
    BY <1>13, <1>14, <2>1, <2>2, <2>3
<1>18. ASSUME NEW k \in 1..Len(notes), NEW l \in 1..Len(notes), k > c, l > c, k # l
       PROVE  notes[k].defines # notes[l].defines
  <2>1. k - c \in 1..t /\ l - c \in 1..t /\ k - c # l - c
    BY <1>2, <1>12, <1>13, <1>18
  <2>2. notes[k] = tail[k - c] /\ notes[l] = tail[l - c]
    <3>1. k \in 1..(c + t) /\ l \in 1..(c + t) /\ ~(k <= c) /\ ~(l <= c)
      BY <1>2, <1>12, <1>13, <1>18
    <3>2. QED
      BY <1>13, <3>1
  <2>3. PICK i \in kept, j \in kept : i # j /\ notes[k] = block[i] /\ notes[l] = block[j]
    BY <1>10, <1>12, <2>1, <2>2 DEF Collects
  <2>4. \A a \in kept : FirstOf(block, block[a].defines) = a
    BY <1>1, <1>7, KeptIs
  <2>5. QED
    BY <2>3, <2>4
<1>19. c <= Len(notes)
  BY <1>2, <1>12, <1>13
<1>20. QED
  BY <1>1, <1>2, <1>7, <1>13, <1>15, <1>16, <1>17, <1>18, <1>19 DEF Trims

\* A document without an open code block.
Whole(doc) == Cardinality(Fences(doc, Len(doc))) % 2 = 0

\* A section that is not refused leaves no code block open.
LEMMA WholeIs ==
  ASSUME NEW doc \in Seq(Blocks), ~unclosed_fences(doc)
  PROVE  Whole(doc) /\ Visible(doc, "open item") = {}
<1>1. PICK n \in Nat : n = Len(doc) /\ DOMAIN doc = 1..n
  BY LenProperties
<1>2. {i \in DOMAIN doc : doc[i].kind = "fence"} = Fences(doc, n)
  BY <1>1 DEF Fences
<1>3. PICK a \in Nat : a = Cardinality(Fences(doc, n))
  BY <1>1, FencesCounted
<1>4. a % 2 # 1 /\ Visible(doc, "open item") = {}
  BY <1>2, <1>3 DEF unclosed_fences
<1>5. a % 2 = 0
  <2>1. a % 2 = 0 \/ a % 2 = 1
    BY <1>3
  <2>2. QED
    BY <1>4, <2>1
<1>6. QED
  BY <1>1, <1>3, <1>4, <1>5 DEF Whole

\* Behind the cut are definitions only, with every code block closed before them.
LEMMA WholeToCut ==
  ASSUME NEW doc \in Seq(Blocks), NEW c \in Nat, c <= Len(doc),
         \A i \in 1..Len(doc) : i > c => doc[i].kind = "definition"
  PROVE  \A k \in Int : k >= c /\ k <= Len(doc) => Fences(doc, k) = Fences(doc, c)
<1>1. PICK n \in Nat : n = Len(doc)
  BY LenProperties
<1>2. ASSUME NEW k \in Int, k >= c, k <= n PROVE Fences(doc, k) = Fences(doc, c)
  <2>1. \A j \in 1..k : j \in 1..n /\ (j \in 1..c \/ j > c)
    BY <1>1, <1>2
  <2>2. \A j \in 1..c : j \in 1..k
    BY <1>2
  <2>3. \A j \in 1..k : doc[j].kind = "fence" => j \in 1..c
    BY <1>1, <2>1
  <2>4. QED
    BY <2>2, <2>3 DEF Fences
<1>3. QED
  BY <1>1, <1>2

\* What the notes of the last section show.
LEMMA TrimsVisible ==
  ASSUME NEW body \in Seq(Blocks), NEW notes \in Seq(Blocks), NEW c, c = Cut(body),
         Trims(notes, body, c), Whole(body)
  PROVE  /\ Whole(notes)
         /\ \A k \in 1..Len(notes) : k > c => k \in Visible(notes, "definition")
         /\ \A kind : \A i \in 1..c : i \in Visible(notes, kind) <=> i \in Visible(body, kind)
         /\ \A kind : kind # "definition" => Visible(notes, kind) = Visible(body, kind)
<1>1. PICK n \in Nat, m \in Nat : /\ n = Len(body) /\ DOMAIN body = 1..n
                                  /\ m = Len(notes) /\ DOMAIN notes = 1..m
  BY LenProperties
<1>2. c \in Nat /\ c <= n /\ c <= m /\ \A j \in 1..c : notes[j] = body[j]
  BY <1>1 DEF Trims
<1>3. \A i \in 1..n : i > c => body[i].kind = "definition"
  <2>1. \A i \in 1..n : i > c => i \in Visible(body, "definition")
    BY <1>1, LinkBlockIs
  <2>2. QED
    BY <2>1 DEF Visible
<1>4. \A i \in 1..m : i > c => notes[i].kind = "definition"
  BY <1>1 DEF Trims
<1>5. Fences(body, n) = Fences(body, c)
  BY <1>1, <1>2, <1>3, WholeToCut
<1>6. \A k \in Int : k >= c /\ k <= m => Fences(notes, k) = Fences(notes, c)
  BY <1>1, <1>2, <1>4, WholeToCut
<1>7. Fences(notes, c) = Fences(body, c)
  BY <1>2 DEF Fences
<1>8. \A k \in Int : k >= c /\ k <= m => Cardinality(Fences(notes, k)) % 2 = 0
  BY <1>1, <1>5, <1>6, <1>7 DEF Whole
<1>9. Whole(notes)
  BY <1>1, <1>2, <1>8 DEF Whole
<1>10. ASSUME NEW k \in 1..m, k > c PROVE k \in Visible(notes, "definition")
  <2>1. PICK p \in Int : p = k - 1 /\ p >= c /\ p <= m
    <3>1. k - 1 \in Int /\ k - 1 >= c /\ k - 1 <= m
      BY <1>1, <1>2, <1>10
    <3>2. QED
      BY <3>1
  <2>2. Shown(notes, k)
    BY <1>8, <2>1 DEF Shown
  <2>3. QED
    BY <1>1, <1>4, <1>10, <2>2, VisibleIs
<1>11. ASSUME NEW kind, NEW i \in 1..c
       PROVE  i \in Visible(notes, kind) <=> i \in Visible(body, kind)
  BY <1>1, <1>2, VisiblePrefix
<1>12. ASSUME NEW kind, kind # "definition" PROVE Visible(notes, kind) = Visible(body, kind)
  <2>1. Visible(notes, kind) \subseteq 1..c
    <3>1. \A i \in 1..m : ~(i > c) => i \in 1..c
      BY <1>2
    <3>2. QED
      BY <1>1, <1>4, <1>12, <3>1 DEF Visible
  <2>2. Visible(body, kind) \subseteq 1..c
    <3>1. \A i \in 1..n : ~(i > c) => i \in 1..c
      BY <1>2
    <3>2. QED
      BY <1>1, <1>3, <1>12, <3>1 DEF Visible
  <2>3. \A i \in 1..c : i \in Visible(notes, kind) <=> i \in Visible(body, kind)
    BY <1>11
  <2>4. QED
    BY <2>1, <2>2, <2>3
<1>13. QED
  BY <1>1, <1>9, <1>10, <1>11, <1>12

\* Nothing but definitions is lost from view.
LEMMA TrimsShows ==
  ASSUME NEW body \in Seq(Blocks), NEW notes \in Seq(Blocks), NEW c, c = Cut(body),
         Trims(notes, body, c), Whole(body), NEW kind, kind # "definition"
  PROVE  Visible(notes, kind) = Visible(body, kind)
BY TrimsVisible

\* They use what the section uses.
LEMMA TrimsUsed ==
  ASSUME NEW body \in Seq(Blocks), NEW notes \in Seq(Blocks), NEW c, c = Cut(body),
         Trims(notes, body, c), Whole(body)
  PROVE  Used(notes) = Used(body)
<1>1. Visible(notes, "text") = Visible(body, "text")
  BY TrimsVisible
<1>2. \A i \in Visible(notes, "text") : notes[i] = body[i]
  <2>1. PICK m \in Nat : m = Len(notes) /\ DOMAIN notes = 1..m
    BY LenProperties
  <2>2. ASSUME NEW i \in Visible(notes, "text") PROVE i \in 1..c
    <3>1. i \in 1..m /\ notes[i].kind = "text"
      BY <2>1 DEF Visible
    <3>2. ~(i > c)
      BY <2>1, <3>1 DEF Trims
    <3>3. c \in Nat
      BY DEF Trims
    <3>4. QED
      BY <3>1, <3>2, <3>3
  <2>3. QED
    BY <2>2 DEF Trims
<1>3. QED
  BY <1>1, <1>2 DEF Used

\* The notes define what the section does, though not all of it, and to the same
\* targets.
LEMMA TrimsDefined ==
  ASSUME NEW body \in Seq(Blocks), NEW notes \in Seq(Blocks), NEW c, c = Cut(body),
         Trims(notes, body, c), Whole(body), NEW r \in Defined(notes)
  PROVE  r \in Defined(body) /\ Target(notes, r) = Target(body, r)
<1>1. PICK n \in Nat, m \in Nat : /\ n = Len(body) /\ DOMAIN body = 1..n
                                  /\ m = Len(notes) /\ DOMAIN notes = 1..m
  BY LenProperties
<1>2. c \in Nat /\ c <= n /\ c <= m /\ \A j \in 1..c : notes[j] = body[j]
  BY <1>1 DEF Trims
<1>3. PICK f : f = FirstOf(notes, r)
  OBVIOUS
<1>4. /\ f \in Visible(notes, "definition") /\ notes[f].defines = r /\ f \in 1..m
      /\ \A i \in Visible(notes, "definition") : notes[i].defines = r => f <= i
  <2>1. /\ f \in Visible(notes, "definition") /\ notes[f].defines = r
        /\ \A i \in Visible(notes, "definition") : notes[i].defines = r => f <= i
    BY <1>3, FirstIs
  <2>2. QED
    BY <1>1, <2>1 DEF Visible
<1>5. \A i \in 1..c : i \in Visible(notes, "definition") <=> i \in Visible(body, "definition")
  BY TrimsVisible
<1>6. SUFFICES \E g \in Visible(body, "definition") :
                 /\ body[g] = notes[f]
                 /\ \A j \in Visible(body, "definition") : body[j].defines = r => g <= j
  <2>1. PICK g \in Visible(body, "definition") :
          /\ body[g] = notes[f]
          /\ \A j \in Visible(body, "definition") : body[j].defines = r => g <= j
    BY <1>6
  <2>2. body[g].defines = r
    BY <1>4, <2>1
  <2>3. r \in Defined(body) /\ FirstOf(body, r) = g
    BY <2>1, <2>2, FirstUnique
  <2>4. QED
    BY <1>3, <2>1, <2>3 DEF Target
<1>7. CASE f <= c
  <2>1. f \in 1..c
    BY <1>2, <1>4, <1>7
  <2>2. f \in Visible(body, "definition") /\ body[f] = notes[f]
    BY <1>2, <1>4, <1>5, <2>1
  <2>3. ASSUME NEW j \in Visible(body, "definition"), body[j].defines = r PROVE f <= j
    <3>1. j \in 1..n
      BY <1>1, <2>3 DEF Visible
    <3>2. CASE j <= c
      <4>1. j \in 1..c
        BY <1>2, <3>1, <3>2
      <4>2. j \in Visible(notes, "definition") /\ notes[j].defines = r
        BY <1>2, <1>5, <2>3, <4>1
      <4>3. QED
        BY <1>4, <4>2
    <3>3. CASE ~(j <= c)
      BY <1>2, <1>4, <1>7, <3>1, <3>3
    <3>4. QED
      BY <3>2, <3>3
  <2>4. QED
    BY <2>2, <2>3
<1>8. CASE f > c
  <2>1. PICK block : block = LinkBlock(body)
    OBVIOUS
  <2>2. /\ block \in Seq(Blocks) /\ Len(block) = n - c
        /\ \A i \in 1..n : i > c => i \in Visible(body, "definition")
        /\ \A i \in 1..Len(block) : block[i] = body[c + i] /\ i \in Visible(block, "definition")
    BY <1>1, <2>1, LinkBlockIs
  <2>3. PICK i \in Kept(body) : notes[f] = body[c + i]
    BY <1>1, <1>4, <1>8 DEF Trims
  <2>4. i \in 1..Len(block) /\ FirstOf(block, block[i].defines) = i
    BY <2>1, KeptIs
  <2>5. block[i] = notes[f] /\ block[i].defines = r /\ i \in 1..(n - c)
    BY <1>4, <2>2, <2>3, <2>4
  <2>6. PICK g \in 1..n : g = c + i /\ g > c
    <3>1. c + i \in 1..n /\ c + i > c
      BY <1>1, <1>2, <2>5
    <3>2. QED
      BY <3>1
  <2>7. g \in Visible(body, "definition") /\ body[g] = notes[f]
    BY <2>2, <2>3, <2>6
  <2>8. ASSUME NEW j \in Visible(body, "definition"), body[j].defines = r PROVE g <= j
    <3>1. j \in 1..n
      BY <1>1, <2>8 DEF Visible
    <3>2. CASE j <= c
      <4>1. j \in 1..c
        BY <1>2, <3>1, <3>2
      <4>2. j \in Visible(notes, "definition") /\ notes[j].defines = r
        BY <1>2, <1>5, <2>8, <4>1
      <4>3. f <= j
        BY <1>4, <4>2
      <4>4. QED
        BY <1>2, <1>4, <1>8, <3>1, <3>2, <4>3
    <3>3. CASE ~(j <= c)
      <4>1. PICK k \in 1..(n - c) : k = j - c /\ j = c + k
        <5>1. j - c \in 1..(n - c) /\ j = c + (j - c)
          BY <1>1, <1>2, <3>1, <3>3
        <5>2. QED
          BY <5>1
      <4>2. k \in 1..Len(block)
        BY <2>2, <4>1
      <4>3. k \in Visible(block, "definition") /\ block[k].defines = r
        BY <2>2, <2>8, <4>1, <4>2
      <4>4. r \in Defined(block) /\ FirstOf(block, r) = i
        BY <2>4, <2>5, <4>3 DEF Defined
      <4>5. i <= k
        BY <2>2, <4>3, <4>4, FirstIs
      <4>6. QED
        BY <1>2, <2>5, <2>6, <4>1, <4>5
    <3>4. QED
      BY <3>2, <3>3
  <2>9. QED
    BY <2>7, <2>8
<1>9. QED
  BY <1>2, <1>4, <1>7, <1>8

-----------------------------------------------------------------------------
(* The section of a version, and the notes made of it.                        *)

\* The section of a version, before the link block is taken off.
Body(doc, v) ==
  SubSeq(doc, Start(doc, v) + 1,
         IF Later(doc, v) = {} THEN Len(doc) ELSE Min(Later(doc, v)) - 1)

\* section answers for a version that has a heading.
Headed(doc, v) == \E i \in Visible(doc, "heading") : doc[i].version = v

LEMMA SectionIs ==
  ASSUME NEW doc, NEW v
  PROVE  section(doc, v) =
           IF ~Headed(doc, v) THEN Refused("no section")
           ELSE IF unclosed_fences(Body(doc, v)) THEN Refused("never closed")
           ELSE Taken(IF Later(doc, v) = {} THEN without_the_link_block(Body(doc, v))
                      ELSE Body(doc, v))
<1>1. Headed(doc, v) <=> ~(\A i \in Visible(doc, "heading") : doc[i].version # v)
  BY DEF Headed
<1>2. QED
  BY <1>1 DEF section, Body

\* What accepted notes are.
LEMMA TakenIs ==
  ASSUME NEW doc, NEW v, release_notes(doc, v).status = "taken"
  PROVE  /\ Headed(doc, v) /\ ~unclosed_fences(Body(doc, v))
         /\ release_notes(doc, v).notes =
              IF Later(doc, v) = {} THEN without_the_link_block(Body(doc, v)) ELSE Body(doc, v)
         /\ broken_links(release_notes(doc, v).notes, doc) = {}
<1>1. PICK taken : taken = section(doc, v)
  OBVIOUS
<1>2. /\ taken.status = "taken" /\ release_notes(doc, v) = taken
      /\ broken_links(taken.notes, doc) = {}
  BY <1>1 DEF release_notes, Refused
<1>3. Headed(doc, v) /\ ~unclosed_fences(Body(doc, v))
  <2>1. SUFFICES ASSUME ~(Headed(doc, v) /\ ~unclosed_fences(Body(doc, v))) PROVE FALSE
    OBVIOUS
  <2>2. taken = Refused("no section") \/ taken = Refused("never closed")
    BY <1>1, <2>1, SectionIs
  <2>3. \A why : Refused(why).status = "refused"
    BY DEF Refused
  <2>4. taken.status = "refused"
    BY <2>2, <2>3
  <2>5. QED
    BY <1>2, <2>4
<1>4. PICK notes : notes = IF Later(doc, v) = {} THEN without_the_link_block(Body(doc, v))
                           ELSE Body(doc, v)
  OBVIOUS
<1>5. taken = Taken(notes)
  BY <1>1, <1>3, <1>4, SectionIs
<1>6. taken.notes = notes
  BY <1>5 DEF Taken
<1>7. QED
  BY <1>2, <1>3, <1>4, <1>6

\* A section stands behind its heading, where no code block is open.
LEMMA BodyIs ==
  ASSUME NEW doc \in Seq(Blocks), NEW v, Headed(doc, v),
         NEW s, s = Start(doc, v), NEW body, body = Body(doc, v)
  PROVE  /\ body \in Seq(Blocks) /\ Within(body, doc, s)
         /\ Cardinality(Fences(doc, s)) % 2 = 0
         /\ body = SubSeq(doc, s + 1, Min(Later(doc, v) \cup {Len(doc) + 1}) - 1)
<1>1. PICK n \in Nat : n = Len(doc) /\ DOMAIN doc = 1..n
  BY LenProperties
<1> DEFINE S == {i \in Visible(doc, "heading") : doc[i].version = v}
<1>2. S \subseteq Nat /\ S # {} /\ s = Min(S)
  BY <1>1 DEF Headed, Visible, Start
<1>3. s \in S
  <2> HIDE DEF S
  <2>1. QED
    BY <1>2, LeastOf
<1>4. s \in 1..n /\ doc[s].kind = "heading" /\ Shown(doc, s)
  BY <1>1, <1>3, VisibleIs
<1>5. Cardinality(Fences(doc, s)) % 2 = 0
  <2>1. Fences(doc, s) = Fences(doc, s - 1)
    <3>1. \A j \in 1..s : j = s \/ j \in 1..(s - 1)
      BY <1>4
    <3>2. \A j \in 1..(s - 1) : j \in 1..s
      BY <1>4
    <3>3. QED
      BY <1>4, <3>1, <3>2 DEF Fences
  <2>2. QED
    BY <1>4, <2>1 DEF Shown
<1>6. PICK later : later = Later(doc, v)
  OBVIOUS
<1>7. later \subseteq 1..n /\ \A i \in later : i > s
  BY <1>1, <1>6 DEF Later, Visible
<1>8. PICK e : e = IF later = {} THEN n ELSE Min(later) - 1
  OBVIOUS
<1>9. e \in Nat /\ s <= e /\ e <= n /\ e = Min(later \cup {n + 1}) - 1
  <2>1. PICK all : all = later \cup {n + 1}
    OBVIOUS
  <2>2. all \subseteq Nat /\ all # {} /\ later \subseteq Nat
    <3>1. 1..n \subseteq Nat /\ n + 1 \in Nat
      BY <1>1
    <3>2. later \subseteq Nat
      BY <1>7, <3>1
    <3>3. QED
      BY <2>1, <3>1, <3>2
  <2>3. Min(all) \in all /\ \A i \in all : Min(all) <= i
    BY <2>2, LeastOf
  <2>4. CASE later = {}
    <3>1. Min(all) = n + 1
      BY <2>1, <2>3, <2>4
    <3>2. QED
      BY <1>1, <1>4, <1>8, <2>1, <2>4, <3>1
  <2>5. CASE later # {}
    <3>1. Min(later) \in later /\ \A i \in later : Min(later) <= i
      BY <2>2, <2>5, LeastOf
    <3>2. PICK a \in 1..n : a = Min(later) /\ a \in later /\ a > s /\ \A i \in later : a <= i
      BY <1>7, <3>1
    <3>3. PICK b \in Nat : b = Min(all) /\ b \in all /\ \A i \in all : b <= i
      BY <2>2, <2>3
    <3>4. b <= a /\ (b \in later \/ b = n + 1)
      BY <2>1, <3>2, <3>3
    <3>5. a <= b
      BY <1>1, <3>2, <3>3, <3>4
    <3>6. a = b
      BY <3>2, <3>3, <3>4, <3>5
    <3>7. e = a - 1
      BY <1>8, <2>5, <3>2
    <3>8. QED
      BY <1>1, <1>4, <2>1, <3>2, <3>3, <3>6, <3>7
  <2>6. QED
    BY <2>4, <2>5
<1>10. body = SubSeq(doc, s + 1, e)
  BY <1>1, <1>6, <1>8 DEF Body
<1>11. s \in Nat
  BY <1>4
<1>12. body \in Seq(Blocks) /\ Len(body) = e - s /\ \A j \in 1..Len(body) : body[j] = doc[s + j]
  <2>1. e \in Nat /\ s <= e /\ e <= Len(doc) /\ body = SubSeq(doc, s + 1, e)
    BY <1>1, <1>9, <1>10
  <2>2. /\ body \in Seq(Blocks) /\ Len(body) = e - s
        /\ \A j \in 1..Len(body) : body[j] = doc[s + j]
    BY <1>11, <2>1, PartIs, SMTT(40)
  <2>3. QED
    BY <2>2
<1>13. Within(body, doc, s)
  <2>1. s + Len(body) <= Len(doc)
    BY <1>1, <1>9, <1>11, <1>12
  <2>2. QED
    BY <1>11, <1>12, <2>1 DEF Within
<1>14. body = SubSeq(doc, s + 1, Min(Later(doc, v) \cup {Len(doc) + 1}) - 1)
  BY <1>1, <1>6, <1>9, <1>10
<1>15. QED
  BY <1>5, <1>12, <1>13, <1>14

\* What a section defines, the changelog does.
LEMMA BodyDefined ==
  ASSUME NEW doc \in Seq(Blocks), NEW v, Headed(doc, v)
  PROVE  Defined(Body(doc, v)) \subseteq Defined(doc)
<1>1. PICK s, body : s = Start(doc, v) /\ body = Body(doc, v)
  OBVIOUS
<1>2. body \in Seq(Blocks) /\ Within(body, doc, s) /\ Cardinality(Fences(doc, s)) % 2 = 0
  BY <1>1, BodyIs
<1>3. DOMAIN body = 1..Len(body)
  BY <1>2, LenProperties
<1>4. ASSUME NEW i \in Visible(body, "definition") PROVE body[i].defines \in Defined(doc)
  <2>1. i \in 1..Len(body)
    BY <1>3 DEF Visible
  <2>2. PICK k : k = s + i
    OBVIOUS
  <2>3. k \in Visible(doc, "definition")
    BY <1>2, <1>4, <2>1, <2>2, VisibleShift
  <2>4. body[i] = doc[k]
    BY <1>2, <2>1, <2>2 DEF Within
  <2>5. QED
    BY <2>3, <2>4 DEF Defined
<1>5. QED
  BY <1>1, <1>4 DEF Defined

LEMMA StartIs ==
  ASSUME NEW doc \in Seq(Blocks), NEW v, Headed(doc, v)
  PROVE  Start(doc, v) \in Nat /\ doc[Start(doc, v)].kind = "heading"
<1>1. PICK n \in Nat : n = Len(doc) /\ DOMAIN doc = 1..n
  BY LenProperties
<1> DEFINE S == {i \in Visible(doc, "heading") : doc[i].version = v}
<1>2. S \subseteq Nat /\ S # {} /\ Start(doc, v) = Min(S)
  <2>1. DOMAIN doc \subseteq Nat
    BY <1>1
  <2>2. S \subseteq Nat
    BY <2>1 DEF Visible
  <2>3. S # {}
    BY DEF Headed
  <2>4. QED
    BY <2>2, <2>3 DEF Start
<1>3. Start(doc, v) \in S
  <2> HIDE DEF S
  <2>1. QED
    BY <1>2, LeastOf
<1>4. QED
  BY <1>2, <1>3 DEF Visible

\* Unless an earlier section defines a reference too, the definition in effect in
\* the changelog is the one in effect in the section.
LEMMA FirstInSection ==
  ASSUME NEW doc \in Seq(Blocks), NEW v, Headed(doc, v),
         NEW body, body = Body(doc, v), NEW r \in Defined(body),
         ~(FirstOf(doc, r) < Start(doc, v))
  PROVE  Target(doc, r) = Target(body, r)
<1>1. PICK s : s = Start(doc, v)
  OBVIOUS
<1>2. /\ body \in Seq(Blocks) /\ Within(body, doc, s)
      /\ Cardinality(Fences(doc, s)) % 2 = 0
  BY <1>1, BodyIs
<1>3. PICK n \in Nat, m \in Nat : /\ n = Len(doc) /\ DOMAIN doc = 1..n
                                  /\ m = Len(body) /\ DOMAIN body = 1..m
  BY <1>2, LenProperties
<1>4. s \in Nat /\ s + m <= n /\ \A j \in 1..m : body[j] = doc[s + j]
  BY <1>2, <1>3 DEF Within
<1>5. r \in Defined(doc)
  BY BodyDefined
<1>6. PICK f : /\ f = FirstOf(doc, r) /\ f \in Visible(doc, "definition")
               /\ doc[f].defines = r
               /\ \A i \in Visible(doc, "definition") : doc[i].defines = r => f <= i
  BY <1>5, FirstIs
<1>7. PICK b : /\ b = FirstOf(body, r) /\ b \in Visible(body, "definition")
               /\ body[b].defines = r
               /\ \A i \in Visible(body, "definition") : body[i].defines = r => b <= i
  BY <1>2, FirstIs
<1>8. b \in 1..m /\ f \in 1..n /\ doc[f].kind = "definition"
  BY <1>3, <1>6, <1>7 DEF Visible
<1>9. PICK k : k = s + b
  OBVIOUS
<1>10. k \in Visible(doc, "definition")
  BY <1>2, <1>3, <1>7, <1>8, <1>9, VisibleShift
<1>11. body[b] = doc[k]
  BY <1>4, <1>8, <1>9
<1>12. f <= k
  BY <1>6, <1>7, <1>10, <1>11
<1>13. f # s
  <2>1. doc[s].kind = "heading"
    BY <1>1, StartIs
  <2>2. "heading" # "definition"
    OBVIOUS
  <2>3. QED
    BY <1>8, <2>1, <2>2
<1>14. f > s
  BY <1>1, <1>4, <1>6, <1>8, <1>13
<1>15. PICK j \in 1..m : f = s + j /\ j <= b
  <2>1. f - s \in 1..m /\ f = s + (f - s) /\ f - s <= b
    BY <1>4, <1>8, <1>9, <1>12, <1>14
  <2>2. QED
    BY <2>1
<1>16. j \in Visible(body, "definition")
  BY <1>2, <1>3, <1>6, <1>15, VisibleShift
<1>17. body[j] = doc[f]
  BY <1>4, <1>15
<1>18. b <= j
  BY <1>6, <1>7, <1>16, <1>17
<1>19. j = b
  BY <1>8, <1>15, <1>18
<1>20. QED
  BY <1>6, <1>7, <1>17, <1>19 DEF Target

ChangelogType == changelog \in Seq(Blocks)

\* The changelog is a sequence of blocks, at the start and after every step.
LEMMA ChangelogInit == Init => ChangelogType
<1>1. <<>> \in Seq(Blocks)
  BY EmptySeq
<1>2. QED
  BY <1>1 DEF Init, ChangelogType

LEMMA ChangelogNext == ChangelogType /\ [Next]_vars => ChangelogType'
<1> SUFFICES ASSUME ChangelogType, [Next]_vars PROVE ChangelogType'
  OBVIOUS
<1>1. CASE Write
  <2>1. PICK block \in Blocks : changelog' = Append(changelog, block)
    BY <1>1 DEF Write
  <2>2. Append(changelog, block) \in Seq(Blocks)
    BY AppendProperties DEF ChangelogType
  <2>3. QED
    BY <2>1, <2>2 DEF ChangelogType
<1>2. CASE Merge
  BY <1>2, EmptySeq DEF Merge, ChangelogType
<1>3. ASSUME NEW t \in Tags,
             \/ PushTag(t) \/ Validate(t) \/ TakeNotes(t) \/ Push(t) \/ Attest(t)
             \/ CreateRelease(t) \/ Breaks(t) \/ Rerun(t) \/ FinishByHand(t)
      PROVE  UNCHANGED changelog
  BY <1>3 DEF PushTag, Validate, TakeNotes, Push, Attest, CreateRelease, Breaks, Rerun,
     FinishByHand, Goto
<1>4. UNCHANGED vars => UNCHANGED changelog
  BY DEF vars
<1>5. QED
  BY <1>1, <1>2, <1>3, <1>4 DEF Next, ChangelogType

\* The section as the changelog shows it is the section that is cut out.
LEMMA SectionShown ==
  ASSUME ChangelogType, NEW v, Headed(changelog, v) PROVE Section(v) = Body(changelog, v)
<1>1. PICK s, body : s = Start(changelog, v) /\ body = Body(changelog, v)
  OBVIOUS
<1>2. body = SubSeq(changelog, s + 1, Min(Later(changelog, v) \cup {Len(changelog) + 1}) - 1)
  BY <1>1, BodyIs DEF ChangelogType
<1>3. QED
  BY <1>1, <1>2 DEF Section

\* A section that needs no definition from elsewhere links to its destinations.
LEMMA OwnDestinations ==
  ASSUME ChangelogType, NEW v, Headed(changelog, v), NEW body, body = Section(v),
         Used(body) \cap Defined(changelog) \subseteq Defined(body),
         Defined(body) \subseteq Defined(changelog)
  PROVE  Own(body) =
           LET used == {Section(v)[i].uses : i \in Visible(Section(v), "text")}
           IN {<<r, Destination(v, r)>> : r \in used \cap Defined(changelog)}
<1>1. body = Body(changelog, v)
  BY SectionShown
<1>2. ASSUME NEW r \in Defined(body) PROVE Destination(v, r) = Target(body, r)
  <2>1. CASE r \in Shadowed(v)
    BY <2>1 DEF Destination, Target
  <2>2. CASE r \notin Shadowed(v)
    <3>1. ~(FirstOf(changelog, r) < Start(changelog, v))
      BY <1>2, <2>2 DEF Shadowed
    <3>2. Target(changelog, r) = Target(body, r)
      BY <1>1, <1>2, <3>1, FirstInSection DEF ChangelogType
    <3>3. Destination(v, r) = Target(changelog, r)
      BY <2>2 DEF Destination, Target
    <3>4. QED
      BY <3>2, <3>3
  <2>3. QED
    BY <2>1, <2>2
<1>3. Used(body) \cap Defined(changelog) = Used(body) \cap Defined(body)
  OBVIOUS
<1>4. Used(body) = {Section(v)[i].uses : i \in Visible(Section(v), "text")}
  BY DEF Used
<1>5. QED
  BY <1>2, <1>3, <1>4 DEF Own

\* A document without an open code block shows a fence behind it.
LEMMA WholeShows ==
  ASSUME NEW notes \in Seq(Blocks), Whole(notes)
  PROVE  Len(notes) + 1 \in Visible(Append(notes, Fence), "fence")
<1>1. PICK n \in Nat : n = Len(notes) /\ DOMAIN notes = 1..n
  BY LenProperties
<1>2. Fence \in Blocks
  BY DEF Blocks
<1>3. PICK more : more = Append(notes, Fence)
  OBVIOUS
<1>4. /\ more \in Seq(Blocks) /\ Len(more) = n + 1
      /\ \A i \in 1..n : more[i] = notes[i] /\ more[n + 1] = Fence
  BY <1>1, <1>2, <1>3, AppendProperties
<1>5. more[n + 1] = Fence /\ n + 1 \in DOMAIN more
  <2>1. more[n + 1] = Fence
    BY <1>1, <1>2, <1>3, AppendProperties
  <2>2. DOMAIN more = 1..(n + 1)
    BY <1>4, LenProperties
  <2>3. QED
    BY <1>1, <2>1, <2>2
<1>6. Fences(more, n) = Fences(notes, n)
  BY <1>4 DEF Fences
<1>7. Shown(more, n + 1)
  <2>1. (n + 1) - 1 = n
    BY <1>1
  <2>2. QED
    BY <1>1, <1>6, <2>1 DEF Shown, Whole
<1>8. more[n + 1].kind = "fence"
  BY <1>5 DEF Fence
<1>9. n + 1 \in Visible(more, "fence")
  BY <1>5, <1>7, <1>8, VisibleIs
<1>10. QED
  BY <1>1, <1>3, <1>9

\* A section that is followed by another is its own notes.
LEMMA InnerStandalone ==
  ASSUME ChangelogType, NEW v, Headed(changelog, v), NEW body, body = Section(v),
         body \in Seq(Blocks), Defined(body) \subseteq Defined(changelog),
         ~unclosed_fences(body), broken_links(body, changelog) = {}
  PROVE  Standalone(v, body)
<1>1. Whole(body) /\ Visible(body, "open item") = {}
  BY WholeIs
<1>2. Len(body) + 1 \in Visible(Append(body, Fence), "fence")
  BY <1>1, WholeShows
<1>3. Used(body) \cap Defined(changelog) \subseteq Defined(body)
  BY NothingBroken
<1>4. links(body, <<>>) = Own(body)
  BY LinksAlone
<1>5. Own(body) =
        LET used == {Section(v)[i].uses : i \in Visible(Section(v), "text")}
        IN {<<r, Destination(v, r)>> : r \in used \cap Defined(changelog)}
  BY <1>3, OwnDestinations
<1>6. QED
  BY <1>1, <1>2, <1>4, <1>5 DEF Standalone

\* Nothing but definitions is dropped.
LEMMA TrimsParagraphs ==
  ASSUME NEW body \in Seq(Blocks), NEW notes \in Seq(Blocks), NEW c, c = Cut(body),
         Trims(notes, body, c), Whole(body)
  PROVE  Paragraphs(notes) = Paragraphs(body)
<1>1. PICK n \in Nat, m \in Nat : /\ n = Len(body) /\ DOMAIN body = 1..n
                                  /\ m = Len(notes) /\ DOMAIN notes = 1..m
  BY LenProperties
<1>2. c \in Nat /\ c <= n /\ c <= m /\ \A j \in 1..c : notes[j] = body[j]
  BY <1>1 DEF Trims
<1>3. PICK places : places = DOMAIN body \ Visible(body, "definition")
  OBVIOUS
<1>4. ASSUME NEW i \in 1..n, i \notin 1..c PROVE i \in Visible(body, "definition")
  <2>1. i > c
    BY <1>2, <1>4
  <2>2. QED
    BY <1>1, <2>1, LinkBlockIs
<1>5. ASSUME NEW i \in 1..m, i \notin 1..c PROVE i \in Visible(notes, "definition")
  <2>1. i > c
    BY <1>2, <1>5
  <2>2. QED
    BY <1>1, <2>1, TrimsVisible
<1>6. \A i \in 1..c : i \in Visible(notes, "definition") <=> i \in Visible(body, "definition")
  BY TrimsVisible
<1>7. 1..c \subseteq 1..n /\ 1..c \subseteq 1..m
  BY <1>2
<1>8. places \subseteq 1..c
  BY <1>1, <1>3, <1>4
<1>9. DOMAIN notes \ Visible(notes, "definition") = places
  BY <1>1, <1>3, <1>5, <1>6, <1>7, <1>8
<1>10. \A i \in places : notes[i] = body[i]
  BY <1>2, <1>8
<1>11. IsFiniteSet(places) /\ places \in SUBSET Nat
  BY <1>2, <1>8, PositionsFinite
<1>12. Only(notes, places) = Only(body, places)
  BY <1>10, <1>11, OnlyAgrees
<1>13. QED
  BY <1>3, <1>9, <1>12 DEF Paragraphs

\* The last section without the changelog's link block: what it kept is enough.
LEMMA LastStandalone ==
  ASSUME ChangelogType, NEW v, Headed(changelog, v), NEW body, body = Section(v),
         body \in Seq(Blocks),
         Defined(body) \subseteq Defined(changelog), ~unclosed_fences(body),
         NEW notes, notes = without_the_link_block(body), broken_links(notes, changelog) = {}
  PROVE  Standalone(v, notes)
<1>1. Whole(body) /\ Visible(body, "open item") = {}
  BY WholeIs
<1>2. PICK c : c = Cut(body)
  OBVIOUS
<1>3. notes \in Seq(Blocks) /\ Trims(notes, body, c)
  BY <1>2, TrimsIs
<1>4. Whole(notes) /\ Visible(notes, "open item") = Visible(body, "open item")
  <2>1. Whole(notes)
    BY <1>1, <1>2, <1>3, TrimsVisible
  <2>2. Visible(notes, "open item") = Visible(body, "open item")
    <3>1. "open item" # "definition"
      OBVIOUS
    <3>2. QED
      BY <1>1, <1>2, <1>3, <3>1, TrimsShows
  <2>3. QED
    BY <2>1, <2>2
<1>5. Visible(notes, "open item") = {}
  BY <1>1, <1>4
<1>6. Len(notes) + 1 \in Visible(Append(notes, Fence), "fence")
  BY <1>3, <1>4, WholeShows
<1>7. Paragraphs(notes) = Paragraphs(body)
  BY <1>1, <1>2, <1>3, TrimsParagraphs
<1>8. Used(notes) = Used(body)
  BY <1>1, <1>2, <1>3, TrimsUsed
<1>9. \A r \in Defined(notes) : r \in Defined(body) /\ Target(notes, r) = Target(body, r)
  BY <1>1, <1>2, <1>3, TrimsDefined
<1>10. Used(notes) \cap Defined(changelog) \subseteq Defined(notes)
  BY NothingBroken
<1>11. Used(notes) \cap Defined(notes) = Used(notes) \cap Defined(body)
  BY <1>9, <1>10
<1>12. Own(notes) = Own(body)
  BY <1>8, <1>9, <1>11, SameLinks
<1>13. Used(body) \cap Defined(changelog) \subseteq Defined(body)
  BY <1>8, <1>9, <1>10
<1>14. Own(body) =
         LET used == {Section(v)[i].uses : i \in Visible(Section(v), "text")}
         IN {<<r, Destination(v, r)>> : r \in used \cap Defined(changelog)}
  BY <1>13, OwnDestinations
<1>15. links(notes, <<>>) = Own(notes)
  BY LinksAlone
<1>16. QED
  BY <1>5, <1>6, <1>7, <1>12, <1>14, <1>15 DEF Standalone

LEMMA StandaloneType == ChangelogType => NotesStandalone
<1> SUFFICES ASSUME ChangelogType, NEW v \in Versions,
                    release_notes(changelog, v).status = "taken"
             PROVE  Standalone(v, release_notes(changelog, v).notes)
  BY DEF NotesStandalone
<1>1. PICK notes : notes = release_notes(changelog, v).notes
  OBVIOUS
<1>2. PICK body : body = Body(changelog, v)
  OBVIOUS
<1>3. /\ Headed(changelog, v) /\ ~unclosed_fences(body)
      /\ notes = IF Later(changelog, v) = {} THEN without_the_link_block(body) ELSE body
      /\ broken_links(notes, changelog) = {}
  BY <1>1, <1>2, TakenIs
<1>4. body = Section(v)
  BY <1>2, <1>3, SectionShown
<1>5. body \in Seq(Blocks) /\ Defined(body) \subseteq Defined(changelog)
  <2>1. PICK s : s = Start(changelog, v)
    OBVIOUS
  <2>2. body \in Seq(Blocks)
    BY <1>2, <1>3, <2>1, BodyIs DEF ChangelogType
  <2>3. QED
    BY <1>2, <1>3, <2>2, BodyDefined DEF ChangelogType
<1>6. CASE Later(changelog, v) = {}
  BY <1>1, <1>3, <1>4, <1>5, <1>6, LastStandalone
<1>7. CASE Later(changelog, v) # {}
  BY <1>1, <1>3, <1>4, <1>5, <1>7, InnerStandalone
<1>8. QED
  BY <1>6, <1>7

\* For changelogs of any length, with any references and targets: notes that
\* release_notes (changelog_section.py:185-196) accepts are a document of their own.
\* They show the paragraphs of the section, leave no code block open, and have the
\* links the changelog shows there, to the same targets -- but for a reference that
\* an earlier section defines too, which goes where its own section says.
THEOREM NotesAlone == Spec => []NotesStandalone
BY ChangelogInit, ChangelogNext, StandaloneType, PTL DEF Spec

\* When release_notes refuses a section for its links.
LEMMA RefusedIs ==
  ASSUME NEW doc, NEW v, release_notes(doc, v) = Refused("broken links")
  PROVE  /\ Headed(doc, v) /\ ~unclosed_fences(Body(doc, v))
         /\ \E notes :
              /\ notes = IF Later(doc, v) = {} THEN without_the_link_block(Body(doc, v))
                         ELSE Body(doc, v)
              /\ broken_links(notes, doc) # {}
<1>1. PICK taken : taken = section(doc, v)
  OBVIOUS
<1>2. \A why : Refused(why).status = "refused" /\ Refused(why).reason = why
  BY DEF Refused
<1>3. SUFFICES ASSUME ~(Headed(doc, v) /\ ~unclosed_fences(Body(doc, v)))
               PROVE  FALSE
  <2>1. ASSUME Headed(doc, v), ~unclosed_fences(Body(doc, v)), NEW notes,
               notes = IF Later(doc, v) = {} THEN without_the_link_block(Body(doc, v))
                       ELSE Body(doc, v)
        PROVE  broken_links(notes, doc) # {}
    <3>1. taken = Taken(notes)
      BY <1>1, <2>1, SectionIs
    <3>2. taken.status = "taken" /\ taken.notes = notes
      BY <3>1 DEF Taken
    <3>3. taken.status # "refused" /\ Refused("empty") # Refused("broken links")
      <4>1. "empty" # "broken links"
        OBVIOUS
      <4>2. QED
        BY <1>2, <3>2, <4>1
    <3>4. taken # Refused("broken links")
      BY <1>2, <3>3
    <3>5. QED
      BY <1>1, <3>2, <3>3, <3>4 DEF release_notes
  <2>2. QED
    BY <1>3, <2>1
<1>4. taken = Refused("no section") \/ taken = Refused("never closed")
  BY <1>1, <1>3, SectionIs
<1>5. taken.status = "refused" /\ taken.reason # "broken links"
  BY <1>2, <1>4
<1>6. release_notes(doc, v) = taken
  BY <1>1, <1>5 DEF release_notes
<1>7. QED
  BY <1>2, <1>5, <1>6

\* Where a block of the document without the one at place p stands in the document.
Place(i, p) == IF i < p THEN i ELSE i + 1

\* A document without one block.
Lacks(less, body, p) ==
  \A i \in 1..(Len(body) - 1) : less[i] = body[Place(i, p)]

LEMMA RemovedIs ==
  ASSUME NEW body \in Seq(Blocks), NEW n, n = Len(body), NEW p \in 1..n,
         NEW less, less = RemoveAt(body, p)
  PROVE  less \in Seq(Blocks) /\ Len(less) = n - 1 /\ Lacks(less, body, p)
<1>1. n \in Nat
  BY LenProperties
<1>2. PICK a \in Nat : a = p - 1 /\ a < n
  <2>1. p - 1 \in Nat /\ p - 1 < n
    BY <1>1
  <2>2. QED
    BY <2>1
<1>3. PICK head, tail : head = SubSeq(body, 0 + 1, a) /\ tail = SubSeq(body, p + 1, n)
  OBVIOUS
<1>4. less = head \o tail
  BY <1>2, <1>3 DEF RemoveAt
<1>5. head \in Seq(Blocks) /\ Len(head) = a - 0 /\ \A j \in 1..Len(head) : head[j] = body[0 + j]
  BY <1>1, <1>2, <1>3, PartIs
<1>6. tail \in Seq(Blocks) /\ Len(tail) = n - p /\ \A j \in 1..Len(tail) : tail[j] = body[p + j]
  BY <1>1, <1>3, PartIs
<1>7. PICK b \in Nat : b = n - p /\ a + b = n - 1
  <2>1. n - p \in Nat /\ a + (n - p) = n - 1
    BY <1>1, <1>2
  <2>2. QED
    BY <2>1
<1>8. head \in Seq(Blocks) /\ Len(head) = a /\ tail \in Seq(Blocks) /\ Len(tail) = b
  BY <1>2, <1>5, <1>6, <1>7
<1>9. /\ less \in Seq(Blocks) /\ Len(less) = a + b
      /\ \A i \in 1..(a + b) : less[i] = IF i <= a THEN head[i] ELSE tail[i - a]
  <2>1. /\ head \o tail \in Seq(Blocks) /\ Len(head \o tail) = Len(head) + Len(tail)
        /\ \A i \in 1..(Len(head) + Len(tail)) :
             (head \o tail)[i] = IF i <= Len(head) THEN head[i] ELSE tail[i - Len(head)]
    BY <1>8, ConcatProperties
  <2>2. QED
    BY <1>4, <1>8, <2>1
<1>10. ASSUME NEW i \in 1..(a + b)
      PROVE  less[i] = IF i < p THEN body[i] ELSE body[i + 1]
  <2>1. CASE i <= a
    <3>1. i \in 1..a /\ i < p /\ 0 + i = i
      BY <1>2, <2>1
    <3>2. QED
      BY <1>5, <1>8, <1>9, <2>1, <3>1
  <2>2. CASE ~(i <= a)
    <3>1. i - a \in 1..b /\ ~(i < p) /\ p + (i - a) = i + 1
      BY <1>2, <1>7, <2>2
    <3>2. less[i] = tail[i - a]
      BY <1>9, <2>2
    <3>3. tail[i - a] = body[p + (i - a)]
      BY <1>6, <1>8, <3>1
    <3>4. QED
      BY <3>1, <3>2, <3>3
  <2>3. QED
    BY <2>1, <2>2
<1>11. QED
  BY <1>1, <1>7, <1>9, <1>10 DEF Lacks, Place

\* Behind place c a document has definitions only, and no code block is open there.
Tailed(doc, c) ==
  /\ c \in Nat /\ c <= Len(doc) /\ Whole(doc)
  /\ \A i \in 1..Len(doc) : i > c => doc[i].kind = "definition"

\* Those are visible.
LEMMA TailShown ==
  ASSUME NEW doc \in Seq(Blocks), NEW c, Tailed(doc, c), NEW i \in 1..Len(doc), i > c
  PROVE  i \in Visible(doc, "definition")
<1>1. PICK n \in Nat : n = Len(doc) /\ DOMAIN doc = 1..n
  BY LenProperties
<1>2. /\ c \in Nat /\ c <= n /\ Whole(doc)
      /\ \A j \in 1..n : j > c => doc[j].kind = "definition"
  BY <1>1 DEF Tailed
<1>3. \A k \in Int : k >= c /\ k <= n => Fences(doc, k) = Fences(doc, c)
  BY <1>1, <1>2, WholeToCut
<1>4. PICK p \in Int : p = i - 1 /\ p >= c /\ p <= n
  <2>1. i - 1 \in Int /\ i - 1 >= c /\ i - 1 <= n
    BY <1>1, <1>2
  <2>2. QED
    BY <2>1
<1>5. n >= c /\ n <= n /\ n \in Int
  BY <1>2
<1>6. Fences(doc, p) = Fences(doc, n)
  BY <1>3, <1>4, <1>5
<1>7. Shown(doc, i)
  BY <1>1, <1>2, <1>4, <1>6 DEF Shown, Whole
<1>8. QED
  BY <1>1, <1>2, <1>7, VisibleIs

\* Without one of them, the rest is such a document too.
LEMMA RemovedTail ==
  ASSUME NEW doc \in Seq(Blocks), NEW n, n = Len(doc), NEW c, Tailed(doc, c),
         NEW p \in 1..n, p > c, NEW less, less = RemoveAt(doc, p)
  PROVE  /\ less \in Seq(Blocks) /\ Len(less) = n - 1 /\ Tailed(less, c)
         /\ Lacks(less, doc, p)
<1>1. n \in Nat /\ DOMAIN doc = 1..n
  BY LenProperties
<1>2. /\ c \in Nat /\ c <= n /\ Whole(doc)
      /\ \A j \in 1..n : j > c => doc[j].kind = "definition"
  BY DEF Tailed
<1>3. less \in Seq(Blocks) /\ Len(less) = n - 1 /\ Lacks(less, doc, p)
  BY RemovedIs
<1>4. \A i \in 1..(n - 1) : less[i] = doc[Place(i, p)]
  BY <1>3 DEF Lacks
<1>5. c <= n - 1 /\ n - 1 \in Nat /\ n - 1 >= c /\ n - 1 <= n - 1
  BY <1>1, <1>2
<1>6. \A i \in 1..(n - 1) : i > c => less[i].kind = "definition"
  <2>1. ASSUME NEW i \in 1..(n - 1), i > c PROVE Place(i, p) \in 1..n /\ Place(i, p) > c
    BY <1>1, <1>2, <2>1 DEF Place
  <2>2. QED
    BY <1>2, <1>4, <2>1
<1>7. \A i \in 1..c : less[i] = doc[i]
  <2>1. ASSUME NEW i \in 1..c PROVE i \in 1..(n - 1) /\ Place(i, p) = i
    BY <1>1, <1>2 DEF Place
  <2>2. QED
    BY <1>4, <2>1
<1>8. Fences(less, c) = Fences(doc, c)
  BY <1>7 DEF Fences
<1>9. \A k \in Int : k >= c /\ k <= n => Fences(doc, k) = Fences(doc, c)
  BY <1>2, WholeToCut
<1>10. \A k \in Int : k >= c /\ k <= n - 1 => Fences(less, k) = Fences(less, c)
  <2>1. c <= Len(less) /\ \A i \in 1..Len(less) : i > c => less[i].kind = "definition"
    BY <1>3, <1>5, <1>6
  <2>2. \A k \in Int : k >= c /\ k <= Len(less) => Fences(less, k) = Fences(less, c)
    BY <1>2, <1>3, <2>1, WholeToCut
  <2>3. QED
    BY <1>3, <2>2
<1>11. Fences(less, n - 1) = Fences(doc, n)
  <2>1. n >= c /\ n <= n /\ n \in Int
    BY <1>1, <1>2
  <2>2. Fences(doc, n) = Fences(doc, c)
    BY <1>9, <2>1
  <2>3. PICK k \in Int : k = n - 1
    BY <1>1
  <2>4. Fences(less, k) = Fences(less, c)
    BY <1>5, <1>10, <2>3
  <2>5. QED
    BY <1>8, <2>2, <2>3, <2>4
<1>12. Whole(less)
  BY <1>2, <1>3, <1>11 DEF Whole
<1>13. Tailed(less, c)
  BY <1>2, <1>3, <1>5, <1>6, <1>12 DEF Tailed
<1>14. QED
  BY <1>3, <1>13

\* The other blocks show as before.
LEMMA RemovedShown ==
  ASSUME NEW doc \in Seq(Blocks), NEW n, n = Len(doc), NEW c, Tailed(doc, c),
         NEW p \in 1..n, p > c, NEW less, less = RemoveAt(doc, p), NEW kind,
         NEW i \in 1..(n - 1), NEW k, k = Place(i, p)
  PROVE  /\ k \in 1..n /\ k # p /\ less[i] = doc[k]
         /\ i \in Visible(less, kind) <=> k \in Visible(doc, kind)
<1>1. /\ less \in Seq(Blocks) /\ Len(less) = n - 1 /\ Tailed(less, c)
      /\ \A j \in 1..(n - 1) : less[j] = doc[Place(j, p)]
  <2>1. less \in Seq(Blocks) /\ Len(less) = n - 1 /\ Tailed(less, c) /\ Lacks(less, doc, p)
    BY RemovedTail, SMTT(40)
  <2>2. QED
    BY <2>1 DEF Lacks
<1>2. n \in Nat /\ c \in Nat /\ c <= n /\ c <= n - 1
  <2>1. n \in Nat
    BY LenProperties
  <2>2. QED
    BY <2>1 DEF Tailed
<1>3. k \in 1..n /\ k # p /\ less[i] = doc[k]
  <2>1. k \in 1..n /\ k # p
    BY <1>2 DEF Place
  <2>2. QED
    BY <1>1, <2>1
<1>4. CASE i <= c
  <2>1. i \in 1..c /\ k = i
    BY <1>2, <1>4 DEF Place
  <2>2. \A j \in 1..c : less[j] = doc[j]
    <3>1. ASSUME NEW j \in 1..c PROVE j \in 1..(n - 1) /\ Place(j, p) = j
      BY <1>2 DEF Place
    <3>2. QED
      BY <1>1, <3>1
  <2>3. i \in Visible(less, kind) <=> i \in Visible(doc, kind)
    BY <1>1, <1>2, <2>1, <2>2, VisiblePrefix, SMTT(40)
  <2>4. QED
    BY <1>3, <2>1, <2>3
<1>5. CASE ~(i <= c)
  <2>1. i > c /\ k > c /\ i \in 1..Len(less)
    BY <1>1, <1>2, <1>5 DEF Place
  <2>2. i \in Visible(less, "definition")
    BY <1>1, <2>1, TailShown
  <2>3. k \in Visible(doc, "definition")
    BY <1>3, <2>1, TailShown
  <2>4. less[i].kind = "definition" /\ doc[k].kind = "definition"
    BY <2>2, <2>3 DEF Visible
  <2>5. kind # "definition" => i \notin Visible(less, kind) /\ k \notin Visible(doc, kind)
    BY <2>4 DEF Visible
  <2>6. QED
    BY <1>3, <2>2, <2>3, <2>5
<1>6. QED
  BY <1>4, <1>5

\* The last section behind its cut, and what is left of it.
LEMMA LastTailed ==
  ASSUME NEW body \in Seq(Blocks), NEW notes \in Seq(Blocks), NEW c, c = Cut(body),
         Trims(notes, body, c), Whole(body)
  PROVE  Tailed(body, c) /\ Tailed(notes, c)
<1>1. Whole(notes) /\ c \in Nat /\ c <= Len(body) /\ c <= Len(notes)
  <2>1. Whole(notes)
    BY TrimsVisible
  <2>2. QED
    BY <2>1 DEF Trims
<1>2. \A i \in 1..Len(body) : i > c => body[i].kind = "definition"
  <2>1. \A i \in 1..Len(body) : i > c => i \in Visible(body, "definition")
    BY LinkBlockIs
  <2>2. QED
    BY <2>1 DEF Visible
<1>3. \A i \in 1..Len(notes) : i > c => notes[i].kind = "definition"
  BY DEF Trims
<1>4. QED
  BY <1>1, <1>2, <1>3 DEF Tailed

\* A reference that the last section uses and defines, and whose definition was
\* taken off its end, is defined there more than once.
LEMMA DefinedTwice ==
  ASSUME NEW body \in Seq(Blocks), NEW notes \in Seq(Blocks), NEW c, c = Cut(body),
         Trims(notes, body, c), Whole(body),
         NEW r \in Used(body) \cap Defined(body), r \notin Defined(notes)
  PROVE  \E i \in Visible(body, "definition") : i # FirstOf(body, body[i].defines)
<1>1. PICK n \in Nat, m \in Nat : /\ n = Len(body) /\ DOMAIN body = 1..n
                                  /\ m = Len(notes) /\ DOMAIN notes = 1..m
  BY LenProperties
<1>2. c \in Nat /\ c <= n /\ c <= m /\ \A j \in 1..c : notes[j] = body[j]
  BY <1>1 DEF Trims
<1>3. PICK block : block = LinkBlock(body)
  OBVIOUS
<1>4. /\ block \in Seq(Blocks) /\ Len(block) = n - c
      /\ \A i \in 1..n : i > c => i \in Visible(body, "definition")
      /\ \A i \in 1..Len(block) : block[i] = body[c + i] /\ i \in Visible(block, "definition")
  BY <1>1, <1>3, LinkBlockIs
<1>5. ASSUME NEW i \in Visible(body, "definition"), body[i].defines = r PROVE i \in 1..n /\ i > c
  <2>1. i \in 1..n
    BY <1>1 DEF Visible
  <2>2. SUFFICES ASSUME ~(i > c) PROVE FALSE
    BY <2>1
  <2>3. i \in 1..c
    BY <1>2, <2>1, <2>2
  <2>4. i \in Visible(notes, "definition")
    BY <2>3, TrimsVisible
  <2>5. notes[i].defines = r
    BY <1>2, <1>5, <2>3
  <2>6. QED
    BY <2>4, <2>5 DEF Defined
<1>6. PICK g \in Visible(body, "definition") : body[g].defines = r
  BY DEF Defined
<1>7. PICK k \in 1..(n - c) : g = c + k
  <2>1. g - c \in 1..(n - c) /\ g = c + (g - c)
    BY <1>2, <1>5, <1>6
  <2>2. QED
    BY <2>1
<1>8. r \in Defined(block)
  BY <1>4, <1>6, <1>7 DEF Defined
<1>9. PICK f : f = FirstOf(block, r)
  OBVIOUS
<1>10. f \in Visible(block, "definition") /\ block[f].defines = r
  BY <1>4, <1>8, <1>9, FirstIs
<1>11. f \in 1..(n - c) /\ block[f] = body[c + f]
  <2>1. DOMAIN block = 1..Len(block)
    BY <1>4, LenProperties
  <2>2. f \in 1..Len(block)
    BY <1>10, <2>1 DEF Visible
  <2>3. QED
    BY <1>4, <2>2
<1>12. PICK p \in 1..n : p = c + f /\ p > c
  <2>1. c + f \in 1..n /\ c + f > c
    BY <1>2, <1>11
  <2>2. QED
    BY <2>1
<1>13. p \in Visible(body, "definition") /\ body[p].defines = r
  BY <1>4, <1>10, <1>11, <1>12
<1>14. f \notin Kept(body)
  <2>1. SUFFICES ASSUME f \in Kept(body) PROVE FALSE
    OBVIOUS
  <2>2. PICK j \in 1..m : j > c /\ notes[j] = body[c + f]
    BY <1>1, <2>1 DEF Trims
  <2>3. j \in Visible(notes, "definition")
    BY <1>1, <2>2, TrimsVisible
  <2>4. notes[j].defines = r
    BY <1>12, <1>13, <2>2
  <2>5. QED
    BY <2>3, <2>4 DEF Defined
<1>15. PICK less : less = RemoveAt(body, p)
  OBVIOUS
<1>16. links(less, <<>>) = links(body, <<>>)
  BY <1>3, <1>8, <1>9, <1>12, <1>14, <1>15 DEF Kept, Firsts
<1>17. r \in Defined(less)
  <2>1. Own(less) = Own(body)
    BY <1>16, LinksAlone
  <2>2. \E href : <<r, href>> \in Own(body)
    BY OwnLinks
  <2>3. QED
    BY <2>1, <2>2, OwnLinks
<1>18. Tailed(body, c)
  BY LastTailed
<1>19. PICK i \in Visible(less, "definition") : less[i].defines = r
  BY <1>17 DEF Defined
<1>20. i \in 1..(n - 1)
  <2>1. less \in Seq(Blocks) /\ Len(less) = n - 1
    BY <1>1, <1>15, RemovedIs
  <2>2. DOMAIN less = 1..Len(less)
    BY <2>1, LenProperties
  <2>3. QED
    BY <2>1, <2>2 DEF Visible
<1>21. PICK q : q = Place(i, p)
  OBVIOUS
<1>22. q \in Visible(body, "definition") /\ q # p /\ body[q].defines = r
  <2>1. q # p /\ less[i] = body[q]
    BY <1>1, <1>12, <1>15, <1>18, <1>20, <1>21, RemovedShown
  <2>2. i \in Visible(less, "definition") <=> q \in Visible(body, "definition")
    BY <1>1, <1>12, <1>15, <1>18, <1>20, <1>21, RemovedShown
  <2>3. QED
    BY <1>19, <2>1, <2>2
<1>23. q # FirstOf(body, r) \/ p # FirstOf(body, r)
  BY <1>22
<1>24. QED
  BY <1>13, <1>22, <1>23

\* What RefusalsJustified says, of any changelog that is a sequence of blocks.
LEMMA CauseType == ChangelogType => RefusedForCause
<1> SUFFICES ASSUME ChangelogType, NEW v \in Versions,
                    release_notes(changelog, v) = Refused("broken links"),
                    NEW body, body = Section(v),
                    \A i \in Visible(body, "text") :
                      body[i].uses \notin Defined(changelog) \ Defined(body)
             PROVE  \E i \in Visible(body, "definition") : i # FirstOf(body, body[i].defines)
  BY DEF RefusedForCause
<1>1. Headed(changelog, v) /\ ~unclosed_fences(Body(changelog, v))
  BY RefusedIs
<1>2. PICK notes :
        /\ notes = IF Later(changelog, v) = {} THEN without_the_link_block(Body(changelog, v))
                   ELSE Body(changelog, v)
        /\ broken_links(notes, changelog) # {}
  BY RefusedIs
<1>3. body = Body(changelog, v)
  BY <1>1, SectionShown
<1>4. body \in Seq(Blocks)
  <2>1. PICK s : s = Start(changelog, v)
    OBVIOUS
  <2>2. QED
    BY <1>1, <1>3, <2>1, BodyIs DEF ChangelogType
<1>5. PICK r \in Used(notes) \cap Defined(changelog) : r \notin Defined(notes)
  BY <1>2, NothingBroken
<1>6. \A q \in Used(body) : q \notin Defined(changelog) \ Defined(body)
  BY DEF Used
<1>7. CASE Later(changelog, v) # {}
  BY <1>2, <1>3, <1>5, <1>6, <1>7
<1>8. CASE Later(changelog, v) = {}
  <2>1. PICK c : c = Cut(body)
    OBVIOUS
  <2>2. notes = without_the_link_block(body) /\ Whole(body)
    BY <1>1, <1>2, <1>3, <1>4, <1>8, WholeIs
  <2>3. notes \in Seq(Blocks) /\ Trims(notes, body, c)
    BY <1>4, <2>1, <2>2, TrimsIs
  <2>4. Used(notes) = Used(body)
    BY <1>4, <2>1, <2>2, <2>3, TrimsUsed
  <2>5. r \in Used(body) \cap Defined(body)
    BY <1>5, <1>6, <2>4
  <2>6. QED
    BY <1>4, <1>5, <2>1, <2>2, <2>3, <2>5, DefinedTwice
<1>9. QED
  BY <1>7, <1>8

\* For changelogs of any length: broken_links (changelog_section.py:163-182) refuses a
\* section only if it uses a definition that is not in it, or defines a reference
\* twice -- the one case in which without_the_link_block drops what is needed.
THEOREM RefusalsJustified == Spec => []RefusedForCause
BY ChangelogInit, ChangelogNext, CauseType, PTL DEF Spec

-----------------------------------------------------------------------------
(* Nothing of the link block stays without need.                             *)

\* Of a document without its block p: each other block still has a place.
LEMMA Placed ==
  ASSUME NEW n \in Nat, NEW p \in 1..n, NEW k \in 1..n, k # p
  PROVE  \E i \in 1..(n - 1) : k = Place(i, p)
<1>1. CASE k < p
  <2>1. k \in 1..(n - 1) /\ k = Place(k, p)
    BY <1>1 DEF Place
  <2>2. QED
    BY <2>1
<1>2. CASE ~(k < p)
  <2>1. k - 1 \in 1..(n - 1) /\ k = Place(k - 1, p)
    BY <1>2 DEF Place
  <2>2. QED
    BY <2>1
<1>3. QED
  BY <1>1, <1>2

\* Taking a definition off the end of a document changes nothing that it uses.
LEMMA RemovedUsed ==
  ASSUME NEW doc \in Seq(Blocks), NEW n, n = Len(doc), NEW c, Tailed(doc, c),
         NEW p \in 1..n, p > c, NEW less, less = RemoveAt(doc, p)
  PROVE  Used(less) = Used(doc)
<1>1. n \in Nat /\ DOMAIN doc = 1..n
  BY LenProperties
<1>2. less \in Seq(Blocks) /\ Len(less) = n - 1
  BY RemovedIs
<1>3. DOMAIN less = 1..(n - 1)
  BY <1>2, LenProperties
<1>4. ASSUME NEW i \in Visible(less, "text")
      PROVE  \E k \in Visible(doc, "text") : doc[k].uses = less[i].uses
  <2>1. i \in 1..(n - 1)
    BY <1>3 DEF Visible
  <2>2. PICK k : k = Place(i, p)
    OBVIOUS
  <2>3. less[i] = doc[k]
    BY <2>1, <2>2, RemovedShown
  <2>4. i \in Visible(less, "text") <=> k \in Visible(doc, "text")
    BY <2>1, <2>2, RemovedShown
  <2>5. QED
    BY <2>3, <2>4
<1>5. ASSUME NEW k \in Visible(doc, "text")
      PROVE  \E i \in Visible(less, "text") : doc[k].uses = less[i].uses
  <2>1. k \in 1..n /\ doc[k].kind = "text"
    BY <1>1 DEF Visible
  <2>2. doc[p].kind = "definition"
    BY DEF Tailed
  <2>3. PICK i \in 1..(n - 1) : k = Place(i, p)
    BY <1>1, <2>1, <2>2, Placed
  <2>4. less[i] = doc[k]
    BY <2>3, RemovedShown
  <2>5. i \in Visible(less, "text") <=> k \in Visible(doc, "text")
    BY <2>3, RemovedShown
  <2>6. QED
    BY <2>4, <2>5
<1>6. QED
  BY <1>4, <1>5 DEF Used

\* What is defined without it is defined elsewhere.
LEMMA RemovedDefined ==
  ASSUME NEW doc \in Seq(Blocks), NEW n, n = Len(doc), NEW c, Tailed(doc, c),
         NEW p \in 1..n, p > c, NEW less, less = RemoveAt(doc, p), NEW q \in Defined(less)
  PROVE  \E k \in Visible(doc, "definition") : k # p /\ doc[k].defines = q
<1>1. less \in Seq(Blocks) /\ Len(less) = n - 1
  BY RemovedIs
<1>2. DOMAIN less = 1..(n - 1)
  BY <1>1, LenProperties
<1>3. PICK i \in Visible(less, "definition") : less[i].defines = q
  BY DEF Defined
<1>4. i \in 1..(n - 1)
  BY <1>2 DEF Visible
<1>5. PICK k : k = Place(i, p)
  OBVIOUS
<1>6. k # p /\ less[i] = doc[k]
  BY <1>4, <1>5, RemovedShown
<1>7. i \in Visible(less, "definition") <=> k \in Visible(doc, "definition")
  BY <1>4, <1>5, RemovedShown
<1>8. QED
  BY <1>3, <1>6, <1>7

\* And any other definition in effect stays in effect.
LEMMA RemovedFirst ==
  ASSUME NEW doc \in Seq(Blocks), NEW n, n = Len(doc), NEW c, Tailed(doc, c),
         NEW p \in 1..n, p > c, NEW less, less = RemoveAt(doc, p),
         NEW q \in Defined(doc), FirstOf(doc, q) # p
  PROVE  q \in Defined(less) /\ Target(less, q) = Target(doc, q)
<1>1. n \in Nat /\ DOMAIN doc = 1..n
  BY LenProperties
<1>2. less \in Seq(Blocks) /\ Len(less) = n - 1
  BY RemovedIs
<1>3. DOMAIN less = 1..(n - 1)
  BY <1>2, LenProperties
<1>4. PICK f : f = FirstOf(doc, q)
  OBVIOUS
<1>5. /\ f \in Visible(doc, "definition") /\ doc[f].defines = q
      /\ \A j \in Visible(doc, "definition") : doc[j].defines = q => f <= j
  BY <1>4, FirstIs
<1>6. f \in 1..n
  BY <1>1, <1>5 DEF Visible
<1>7. PICK i \in 1..(n - 1) : f = Place(i, p)
  BY <1>1, <1>4, <1>6, Placed
<1>8. less[i] = doc[f]
  BY <1>7, RemovedShown, SMTT(40)
<1>9. i \in Visible(less, "definition")
  <2>1. i \in Visible(less, "definition") <=> f \in Visible(doc, "definition")
    BY <1>7, RemovedShown
  <2>2. QED
    BY <1>5, <2>1
<1>10. ASSUME NEW j \in Visible(less, "definition"), less[j].defines = less[i].defines
       PROVE  i <= j
  <2>1. j \in 1..(n - 1)
    BY <1>3 DEF Visible
  <2>2. PICK k : k = Place(j, p)
    OBVIOUS
  <2>3. k \in 1..n /\ less[j] = doc[k]
    BY <2>1, <2>2, RemovedShown
  <2>4. j \in Visible(less, "definition") <=> k \in Visible(doc, "definition")
    BY <2>1, <2>2, RemovedShown
  <2>5. f <= k
    BY <1>5, <1>8, <1>10, <2>3, <2>4
  <2>6. QED
    BY <1>1, <1>7, <2>1, <2>2, <2>5 DEF Place
<1>11. less[i].defines \in Defined(less) /\ FirstOf(less, less[i].defines) = i
  BY <1>2, <1>9, <1>10, FirstUnique
<1>12. QED
  BY <1>4, <1>5, <1>8, <1>11 DEF Target

\* A definition that nothing uses, or that is not in effect, changes no link.
LEMMA Needless ==
  ASSUME NEW doc \in Seq(Blocks), NEW n, n = Len(doc), NEW c, Tailed(doc, c),
         NEW p \in 1..n, p > c, NEW less, less = RemoveAt(doc, p),
         NEW r, r = doc[p].defines, r \notin Used(doc) \/ FirstOf(doc, r) # p
  PROVE  links(less, <<>>) = links(doc, <<>>)
<1>1. Used(less) = Used(doc)
  BY RemovedUsed
<1>2. ASSUME NEW q \in Used(doc) \cap Defined(doc)
      PROVE  q \in Defined(less) /\ Target(less, q) = Target(doc, q)
  <2>1. doc[FirstOf(doc, q)].defines = q
    BY FirstIs
  <2>2. FirstOf(doc, q) # p
    BY <2>1
  <2>3. QED
    BY <2>2, RemovedFirst
<1>3. ASSUME NEW q \in Defined(less) PROVE q \in Defined(doc)
  <2>1. \E k \in Visible(doc, "definition") : k # p /\ doc[k].defines = q
    BY RemovedDefined
  <2>2. QED
    BY <2>1 DEF Defined
<1>4. Used(doc) \cap Defined(doc) = Used(doc) \cap Defined(less)
  BY <1>2, <1>3
<1>5. \A q \in Used(doc) \cap Defined(doc) : Target(doc, q) = Target(less, q)
  BY <1>2
<1>6. Own(doc) = Own(less)
  BY <1>1, <1>4, <1>5, SameLinks
<1>7. QED
  BY <1>6, LinksAlone

\* The only definition of a reference that is used does.
LEMMA Needed ==
  ASSUME NEW doc \in Seq(Blocks), NEW n, n = Len(doc), NEW c, Tailed(doc, c),
         NEW p \in 1..n, p > c, NEW less, less = RemoveAt(doc, p),
         NEW r, r = doc[p].defines, r \in Used(doc),
         \A k \in Visible(doc, "definition") : doc[k].defines = r => k = p
  PROVE  links(less, <<>>) # links(doc, <<>>)
<1>1. p \in Visible(doc, "definition")
  BY TailShown
<1>2. r \in Used(doc) \cap Defined(doc)
  BY <1>1 DEF Defined
<1>3. r \notin Defined(less)
  <2>1. SUFFICES ASSUME r \in Defined(less) PROVE FALSE
    OBVIOUS
  <2>2. \E k \in Visible(doc, "definition") : k # p /\ doc[k].defines = r
    BY <2>1, RemovedDefined
  <2>3. QED
    BY <2>2
<1>4. \E href : <<r, href>> \in Own(doc)
  BY <1>2, OwnLinks
<1>5. ~\E href : <<r, href>> \in Own(less)
  BY <1>3, OwnLinks
<1>6. Own(less) # Own(doc)
  BY <1>4, <1>5
<1>7. QED
  BY <1>6, LinksAlone

\* Every definition that is kept of the link block is needed in the notes.
LEMMA KeptNeeded ==
  ASSUME NEW body \in Seq(Blocks), NEW notes \in Seq(Blocks), NEW c, c = Cut(body),
         Trims(notes, body, c), Whole(body), NEW i \in 1..Len(notes), i > c
  PROVE  links(RemoveAt(notes, i), <<>>) # links(notes, <<>>)
<1>1. PICK n \in Nat, m \in Nat : /\ n = Len(body) /\ DOMAIN body = 1..n
                                  /\ m = Len(notes) /\ DOMAIN notes = 1..m
  BY LenProperties
<1>2. Tailed(body, c) /\ Tailed(notes, c)
  BY LastTailed
<1>3. /\ c \in Nat /\ c <= n /\ c <= m
      /\ \A j \in 1..c : notes[j] = body[j]
      /\ \A k, l \in 1..m : k > c /\ l > c /\ k # l => notes[k].defines # notes[l].defines
  BY <1>1 DEF Trims
<1>4. PICK k \in Kept(body) : notes[i] = body[c + k]
  BY DEF Trims
<1>5. k \in 1..(n - c)
  <2>1. PICK block : block = LinkBlock(body)
    OBVIOUS
  <2>2. Len(block) = n - c
    BY <1>1, <2>1, LinkBlockIs
  <2>3. Kept(body) \subseteq 1..Len(block)
    BY <2>1, KeptIs
  <2>4. QED
    BY <2>2, <2>3
<1>6. PICK p \in 1..n : p = c + k /\ p > c
  <2>1. c + k \in 1..n /\ c + k > c
    BY <1>1, <1>3, <1>5
  <2>2. QED
    BY <2>1
<1>7. PICK r : r = body[p].defines /\ r = notes[i].defines
  BY <1>4, <1>6
<1>8. links(RemoveAt(body, p), <<>>) # links(body, <<>>)
  BY <1>6 DEF Kept
<1>9. r \in Used(body) /\ FirstOf(body, r) = p
  <2>1. SUFFICES ASSUME r \notin Used(body) \/ FirstOf(body, r) # p PROVE FALSE
    OBVIOUS
  <2>2. r = body[p].defines /\ p > c
    BY <1>6, <1>7
  <2>3. PICK less : less = RemoveAt(body, p)
    OBVIOUS
  <2>4. links(less, <<>>) = links(body, <<>>)
    BY <1>1, <1>2, <2>1, <2>2, <2>3, Needless
  <2>5. QED
    BY <1>8, <2>3, <2>4
<1>10. r \in Used(notes)
  BY <1>9, TrimsUsed
<1>11. ASSUME NEW j \in Visible(notes, "definition"), notes[j].defines = r PROVE j = i
  <2>1. j \in 1..m
    BY <1>1 DEF Visible
  <2>2. CASE j <= c
    <3>1. j \in 1..c
      BY <1>3, <2>1, <2>2
    <3>2. j \in Visible(body, "definition") <=> j \in Visible(notes, "definition")
      BY <3>1, TrimsVisible
    <3>3. j \in Visible(body, "definition") /\ body[j].defines = r
      BY <1>3, <1>11, <3>1, <3>2
    <3>4. r \in Defined(body)
      BY <3>3 DEF Defined
    <3>5. FirstOf(body, r) <= j
      BY <3>3, <3>4, FirstIs
    <3>6. QED
      BY <1>3, <1>6, <1>9, <2>1, <2>2, <3>5
  <2>3. CASE ~(j <= c)
    BY <1>1, <1>3, <1>7, <1>11, <2>1, <2>3
  <2>4. QED
    BY <2>2, <2>3
<1>12. QED
  BY <1>1, <1>2, <1>7, <1>10, <1>11, Needed

\* The cut is behind the last block that is no definition.
LEMMA CutShown ==
  ASSUME NEW body \in Seq(Blocks), NEW c, c = Cut(body)
  PROVE  c = 0 \/ c \notin Visible(body, "definition")
<1>1. PICK n \in Nat : n = Len(body) /\ DOMAIN body = 1..n
  BY LenProperties
<1> DEFINE S == {0} \cup {i \in DOMAIN body : i \notin Visible(body, "definition")}
<1>2. S \subseteq 0..n /\ S # {}
  BY <1>1
<1>3. Max(S) \in S
  BY <1>1, <1>2, GreatestOf
<1>4. QED
  BY <1>3 DEF Cut

\* What LinkBlockTrimmed says, of any changelog that is a sequence of blocks.
LEMMA DroppedType == ChangelogType => LinkBlockDropped
<1> SUFFICES ASSUME ChangelogType, NEW v \in Versions,
                    release_notes(changelog, v).status = "taken",
                    Later(changelog, v) = {}, NEW notes,
                    notes = release_notes(changelog, v).notes,
                    NEW i \in Visible(notes, "definition"),
                    i..Len(notes) \subseteq Visible(notes, "definition")
             PROVE  links(RemoveAt(notes, i), <<>>) # links(notes, <<>>)
  BY DEF LinkBlockDropped
<1>1. PICK body : body = Body(changelog, v)
  OBVIOUS
<1>2. /\ Headed(changelog, v) /\ ~unclosed_fences(body)
      /\ notes = without_the_link_block(body)
  BY <1>1, TakenIs
<1>3. body \in Seq(Blocks)
  <2>1. PICK s : s = Start(changelog, v)
    OBVIOUS
  <2>2. QED
    BY <1>1, <1>2, <2>1, BodyIs DEF ChangelogType
<1>4. PICK c : c = Cut(body)
  OBVIOUS
<1>5. Whole(body)
  BY <1>2, <1>3, WholeIs
<1>6. notes \in Seq(Blocks) /\ Trims(notes, body, c)
  BY <1>2, <1>3, <1>4, TrimsIs
<1>7. PICK m \in Nat : m = Len(notes) /\ DOMAIN notes = 1..m
  BY <1>6, LenProperties
<1>8. i \in 1..m
  BY <1>7 DEF Visible
<1>9. c \in Nat /\ c <= m
  BY <1>6, <1>7 DEF Trims
<1>10. i > c
  <2>1. SUFFICES ASSUME ~(i > c) PROVE FALSE
    OBVIOUS
  <2>2. c \in i..m /\ c \in 1..c /\ c # 0
    BY <1>7, <1>8, <1>9, <2>1
  <2>3. c \in Visible(notes, "definition")
    BY <1>7, <2>2
  <2>4. c \in Visible(notes, "definition") <=> c \in Visible(body, "definition")
    BY <1>3, <1>4, <1>5, <1>6, <2>2, TrimsVisible
  <2>5. QED
    BY <1>3, <1>4, <2>2, <2>3, <2>4, CutShown
<1>11. QED
  BY <1>3, <1>4, <1>5, <1>6, <1>7, <1>8, <1>10, KeptNeeded

\* For changelogs of any length: of the definitions at the end of the last section's
\* notes, each is the only one of a reference that the notes use, so that without it a
\* link is lost -- what without_the_link_block (changelog_section.py:116-141) promises,
\* though it decides on the section as it was, with all of the link block in it.
THEOREM LinkBlockTrimmed == Spec => []LinkBlockDropped
BY ChangelogInit, ChangelogNext, DroppedType, PTL DEF Spec

-----------------------------------------------------------------------------
(* What is published was validated, whatever broke on the way.             *)

Enabled(t) == {r \in Registries : r = "docker.io" => docker[t]}

RecordType ==
  /\ code \in [Tags -> Versions \cup {None}] /\ docker \in [Tags -> BOOLEAN]
  /\ releases \in [Tags -> {None, "standalone"}]

\* Notes that a run can take are good ones, which is where NotesAlone enters.
MergedInv ==
  /\ merged # None => \A v \in Versions : merged[v].notes \in {"refused", "standalone"}
  /\ \A t \in Tags : step[t] # "none" => merged # None

Sound(t) == t \in Versions /\ code[t] = t /\ merged[t].notes = "standalone"

\* What a run has behind it.
StageInv ==
  \A t \in Tags :
    /\ step[t] = "notes" => t \in Versions /\ code[t] = t
    /\ step[t] \in {"push", "attest", "release", "done"} => Sound(t)
    /\ step[t] \in {"attest", "release", "done"} =>
         \A r \in Enabled(t) : images[r][t] = Image(t)
    /\ step[t] \in {"release", "done"} => Image(t) \in attested

\* What any reference shows, also one that moves, and a run that broke later.
ShownInv ==
  \A r \in Registries, n \in Names : images[r][n] # None =>
    LET t == images[r][n][1] IN
    t \in Tags /\ n \in {t, "latest"} /\ Sound(t) /\ step[t] # "none"

ReleasedInv == \A t \in Tags : releases[t] # None => step[t] = "done"

ReleaseInv == ImageInv /\ RecordType /\ MergedInv /\ StageInv /\ ShownInv /\ ReleasedInv

LEMMA ReleaseInit == Init => ReleaseInv
<1> SUFFICES ASSUME Init PROVE ReleaseInv
  OBVIOUS
<1>1. \A r \in Registries, n \in Names : images[r][n] = None
  <2>1. images = [r \in Registries |-> [n \in Names |-> None]]
    BY DEF Init
  <2>2. \A r \in Registries : images[r] = [n \in Names |-> None]
    BY <2>1
  <2>3. QED
    BY <2>2
<1>2. RecordType /\ ReleasedInv
  BY DEF Init, RecordType, ReleasedInv
<1>3. \A t \in Tags : step[t] = "none"
  BY DEF Init
<1>4. QED
  BY <1>1, <1>2, <1>3, ImageInit DEF Init, ReleaseInv, MergedInv, StageInv, ShownInv

\* release_notes answers with a refusal or with notes.
LEMMA NotesOrRefusal ==
  ASSUME NEW v PROVE release_notes(changelog, v).status \in {"refused", "taken"}
<1>1. section(changelog, v).status \in {"refused", "taken"}
  BY DEF section, Refused, Taken
<1>2. QED
  BY <1>1 DEF release_notes, Refused

LEMMA MergeStep ==
  ASSUME ReleaseInv, NotesStandalone, Merge PROVE MergedInv'
<1>1. \A t \in Tags : step[t] = "none" /\ step' = step
  BY DEF Merge, runVars, ReleaseInv, MergedInv
<1>2. ASSUME NEW v \in Versions PROVE Finds(v).notes \in {"refused", "standalone"}
  <2>1. CASE release_notes(changelog, v).status = "refused"
    BY <2>1 DEF Finds
  <2>2. CASE release_notes(changelog, v).status = "taken"
    <3>1. Standalone(v, release_notes(changelog, v).notes)
      BY <2>2 DEF NotesStandalone
    <3>2. QED
      BY <2>2, <3>1 DEF Finds
  <2>3. QED
    BY <2>1, <2>2, NotesOrRefusal
<1>3. merged' = [t \in Tags |-> Finds(t)]
  BY DEF Merge
<1>4. \A v \in Versions : merged'[v] = Finds(v)
  BY <1>3, TagNames
<1>5. QED
  BY <1>1, <1>2, <1>4 DEF MergedInv

\* A new run of t finds nothing of t, and changes nothing of the others.
LEMMA NewRun ==
  ASSUME ReleaseInv, NEW t \in Tags, PushTag(t) \/ Rerun(t)
  PROVE  ReleaseInv'
<1>1. /\ step' = [step EXCEPT ![t] = "validate"] /\ attempt' = [attempt EXCEPT ![t] = attempt[t] + 1]
      /\ \E enabled \in BOOLEAN : docker' = [docker EXCEPT ![t] = enabled]
      /\ \E v \in Versions \cup {None} : code' = [code EXCEPT ![t] = v]
      /\ UNCHANGED <<merged, images, attested, releases>>
      /\ merged # None /\ step[t] \in {"none", "failed"}
  <2>1. CASE PushTag(t)
    BY <2>1 DEF PushTag, Begin
  <2>2. CASE Rerun(t)
    <3>1. code' = [code EXCEPT ![t] = code[t]] /\ code[t] \in Versions \cup {None}
      BY <2>2 DEF Rerun, ReleaseInv, RecordType
    <3>2. QED
      BY <2>2, <3>1 DEF Rerun, MayRerun, Begin, ReleaseInv, MergedInv
  <2>3. QED
    BY <2>1, <2>2
<1>2. \A r \in Registries, n \in Names : images[r][n] # None => images[r][n][1] # t
  <2>1. CASE PushTag(t)
    BY <2>1 DEF PushTag, ReleaseInv, ShownInv
  <2>2. CASE Rerun(t)
    BY <2>2 DEF Rerun, MayRerun, Published
  <2>3. QED
    BY <2>1, <2>2
<1>3. /\ step'[t] = "validate"
      /\ \A u \in Tags \ {t} : /\ step'[u] = step[u] /\ attempt'[u] = attempt[u]
                               /\ docker'[u] = docker[u] /\ code'[u] = code[u]
  BY <1>1 DEF ReleaseInv, ImageInv, RunType, RecordType
<1>4. \A u \in Tags \ {t} : /\ Image(u)' = Image(u) /\ Enabled(u)' = Enabled(u)
                            /\ Sound(u)' = Sound(u)
  BY <1>1, <1>3 DEF Image, Enabled, Sound
<1>5. RecordType'
  BY <1>1 DEF ReleaseInv, RecordType
<1>6. MergedInv'
  BY <1>1, <1>3 DEF ReleaseInv, MergedInv
<1>7. StageInv'
  BY <1>1, <1>3, <1>4 DEF ReleaseInv, StageInv
<1>8. ShownInv'
  BY <1>1, <1>2, <1>3, <1>4 DEF ReleaseInv, ShownInv
<1>9. ReleasedInv'
  BY <1>1, <1>3 DEF ReleaseInv, ReleasedInv
<1>10. QED
  BY <1>5, <1>6, <1>7, <1>8, <1>9, BeginStep DEF ReleaseInv

\* A step of the run of t leaves the other runs and what they are about.
LEMMA OtherRuns ==
  ASSUME ReleaseInv, NEW t \in Tags, NEW next \in Steps \ {"none"}, Goto(t, next)
  PROVE  /\ step'[t] = next
         /\ \A u \in Tags \ {t} : step'[u] = step[u]
         /\ UNCHANGED <<merged, code, docker>>
         /\ \A u \in Tags : /\ Image(u)' = Image(u) /\ Enabled(u)' = Enabled(u)
                            /\ Sound(u)' = Sound(u)
         /\ step[t] # "none" => MergedInv'
<1>1. step' = [step EXCEPT ![t] = next] /\ UNCHANGED <<merged, code, attempt, docker>>
  BY DEF Goto
<1>2. step'[t] = next /\ \A u \in Tags \ {t} : step'[u] = step[u]
  BY <1>1 DEF ReleaseInv, ImageInv, RunType
<1>3. \A u \in Tags : Image(u)' = Image(u) /\ Enabled(u)' = Enabled(u) /\ Sound(u)' = Sound(u)
  BY <1>1 DEF Image, Enabled, Sound
<1>4. step[t] # "none" => MergedInv'
  BY <1>1, <1>2 DEF ReleaseInv, MergedInv
<1>5. QED
  BY <1>1, <1>2, <1>3, <1>4

\* With the images as they are, the invariant asks only about the run itself.
LEMMA KeepsRest ==
  ASSUME ReleaseInv, NEW t \in Tags, NEW next \in Steps \ {"none"}, Goto(t, next),
         step[t] # "none", UNCHANGED images, attested \subseteq attested'
  PROVE  /\ MergedInv' /\ ShownInv'
         /\ (/\ next = "notes" => t \in Versions /\ code[t] = t
             /\ next \in {"push", "attest", "release", "done"} => Sound(t)
             /\ next \in {"attest", "release", "done"} =>
                  \A r \in Enabled(t) : images[r][t] = Image(t)
             /\ next \in {"release", "done"} => Image(t) \in attested') => StageInv'
<1>1. /\ step'[t] = next /\ \A u \in Tags \ {t} : step'[u] = step[u]
      /\ UNCHANGED <<merged, code, docker>> /\ MergedInv'
      /\ \A u \in Tags : Image(u)' = Image(u) /\ Enabled(u)' = Enabled(u) /\ Sound(u)' = Sound(u)
  BY OtherRuns
<1>2. ShownInv'
  BY <1>1 DEF ReleaseInv, ShownInv
<1>3. QED
  BY <1>1, <1>2 DEF ReleaseInv, StageInv

LEMMA RunStep ==
  ASSUME ReleaseInv, NEW t \in Tags,
         Validate(t) \/ TakeNotes(t) \/ Attest(t) \/ CreateRelease(t) \/ Breaks(t)
  PROVE  MergedInv' /\ ShownInv' /\ StageInv' /\ RecordType' /\ ReleasedInv'
<1> USE DEF Steps
<1>1. CASE Validate(t)
  <2>1. PICK next \in {"notes", "failed"} :
          Goto(t, next) /\ (next = "notes" => Valid(t))
    BY <1>1 DEF Validate
  <2>2. step[t] = "validate" /\ UNCHANGED <<images, attested, releases>>
    BY <1>1 DEF Validate
  <2>3. MergedInv' /\ ShownInv' /\ StageInv'
    BY <2>1, <2>2, KeepsRest DEF Valid
  <2>4. RecordType' /\ ReleasedInv'
    BY <2>1, <2>2, OtherRuns DEF ReleaseInv, RecordType, ReleasedInv
  <2>5. QED
    BY <2>3, <2>4
<1>2. CASE TakeNotes(t)
  <2>1. PICK next \in {"push", "failed"} :
          Goto(t, next) /\ (next = "push" => merged[t].notes # "refused")
    BY <1>2 DEF TakeNotes
  <2>2. step[t] = "notes" /\ UNCHANGED <<images, attested, releases>>
    BY <1>2 DEF TakeNotes
  <2>3. next = "push" => Sound(t)
    BY <2>1, <2>2 DEF ReleaseInv, StageInv, MergedInv, Sound
  <2>4. MergedInv' /\ ShownInv' /\ StageInv'
    BY <2>1, <2>2, <2>3, KeepsRest
  <2>5. RecordType' /\ ReleasedInv'
    BY <2>1, <2>2, OtherRuns DEF ReleaseInv, RecordType, ReleasedInv
  <2>6. QED
    BY <2>4, <2>5
<1>3. CASE Attest(t)
  <2>1. /\ step[t] = "attest" /\ Goto(t, "release") /\ attested' = attested \cup {Image(t)}
        /\ UNCHANGED <<images, releases>>
    BY <1>3 DEF Attest
  <2>2. Sound(t) /\ \A r \in Enabled(t) : images[r][t] = Image(t)
    BY <2>1 DEF ReleaseInv, StageInv
  <2>3. MergedInv' /\ ShownInv' /\ StageInv'
    BY <2>1, <2>2, KeepsRest
  <2>4. RecordType' /\ ReleasedInv'
    BY <2>1, OtherRuns DEF ReleaseInv, RecordType, ReleasedInv
  <2>5. QED
    BY <2>3, <2>4
<1>4. CASE CreateRelease(t)
  <2>1. /\ step[t] = "release" /\ Goto(t, "done")
        /\ releases' = [releases EXCEPT ![t] = merged[t].notes]
        /\ UNCHANGED <<images, attested>>
    BY <1>4 DEF CreateRelease
  <2>2. /\ Sound(t) /\ Image(t) \in attested
        /\ \A r \in Enabled(t) : images[r][t] = Image(t)
    BY <2>1 DEF ReleaseInv, StageInv
  <2>3. MergedInv' /\ ShownInv' /\ StageInv'
    BY <2>1, <2>2, KeepsRest
  <2>4. RecordType' /\ ReleasedInv'
    BY <2>1, <2>2, OtherRuns DEF ReleaseInv, RecordType, ReleasedInv, Sound
  <2>5. QED
    BY <2>3, <2>4
<1>5. CASE Breaks(t)
  <2>1. /\ step[t] \in {"validate", "notes", "push", "attest", "release"}
        /\ Goto(t, "failed") /\ UNCHANGED <<images, attested, releases>>
    BY <1>5 DEF Breaks
  <2>2. MergedInv' /\ ShownInv' /\ StageInv'
    BY <2>1, KeepsRest
  <2>3. RecordType' /\ ReleasedInv'
    BY <2>1, OtherRuns DEF ReleaseInv, RecordType, ReleasedInv
  <2>4. QED
    BY <2>2, <2>3
<1>6. QED
  BY <1>1, <1>2, <1>3, <1>4, <1>5

\* References of t, or those that move, show a sound image afterwards.
LEMMA MarkedShown ==
  ASSUME ReleaseInv, NEW t \in Tags, NEW next \in Steps \ {"none"}, Goto(t, next),
         Marks(t), Sound(t)
  PROVE  ShownInv'
<1>1. /\ step'[t] = next /\ \A u \in Tags \ {t} : step'[u] = step[u]
      /\ \A u \in Tags : Image(u)' = Image(u) /\ Sound(u)' = Sound(u)
  BY OtherRuns
<1>2. ASSUME NEW r \in Registries, NEW n \in Names, images'[r][n] # None
      PROVE  \E u \in Tags : /\ images'[r][n][1] = u /\ n \in {u, "latest"}
                             /\ Sound(u)' /\ step'[u] # "none"
  <2>1. CASE images'[r][n] = images[r][n]
    <3>1. PICK u \in Tags : /\ images[r][n][1] = u /\ n \in {u, "latest"}
                            /\ Sound(u) /\ step[u] # "none"
      BY <1>2, <2>1 DEF ReleaseInv, ShownInv
    <3>2. Sound(u)' /\ step'[u] # "none"
      BY <1>1, <3>1
    <3>3. QED
      BY <2>1, <3>1, <3>2
  <2>2. CASE n \in {t, "latest"} /\ images'[r][n] = Image(t)
    <3>1. images'[r][n][1] = t
      BY <2>2 DEF Image
    <3>2. Sound(t)' /\ step'[t] # "none"
      BY <1>1
    <3>3. QED
      BY <2>2, <3>1, <3>2
  <2>3. QED
    BY <2>1, <2>2 DEF Marks
<1>3. QED
  BY <1>2 DEF ShownInv

\* What other tags' runs have behind them is not touched.
LEMMA MarkedStages ==
  ASSUME ReleaseInv, NEW t \in Tags, NEW next \in {"push", "attest", "done"}, Goto(t, next),
         Marks(t), Sound(t), attested \subseteq attested',
         next # "push" => \A r \in Enabled(t) : images'[r][t] = Image(t),
         next = "done" => Image(t) \in attested'
  PROVE  StageInv'
<1>1. next \in Steps \ {"none"}
  BY DEF Steps
<1>2. /\ step'[t] = next /\ \A u \in Tags \ {t} : step'[u] = step[u]
      /\ code' = code
      /\ \A u \in Tags : Image(u)' = Image(u) /\ Enabled(u)' = Enabled(u) /\ Sound(u)' = Sound(u)
  BY <1>1, OtherRuns
<1>3. \A r \in Registries, u \in Tags \ {t} : images'[r][u] = images[r][u]
  BY TagNames DEF Marks
<1>4. \A u \in Tags : Enabled(u) \subseteq Registries
  BY DEF Enabled
<1>5. QED
  BY <1>2, <1>3, <1>4 DEF ReleaseInv, StageInv

LEMMA ImageStep ==
  ASSUME ReleaseInv, NEW t \in Tags, Push(t) \/ FinishByHand(t)
  PROVE  MergedInv' /\ ShownInv' /\ StageInv' /\ RecordType' /\ ReleasedInv'
<1>1. Marks(t)
  BY MarkStep DEF ReleaseInv
<1>2. CASE Push(t)
  <2>1. step[t] = "push" /\ UNCHANGED <<attested, releases>>
    BY <1>2 DEF Push
  <2>2. Sound(t)
    BY <2>1 DEF ReleaseInv, StageInv
  <2>3. PICK p \in Unpushed(t) :
          /\ images' = [images EXCEPT ![p[1]][p[2]] = Image(t)]
          /\ Goto(t, IF Unpushed(t) = {p} THEN "attest" ELSE "push")
    BY <1>2 DEF Push
  <2>4. PICK next \in {"push", "attest"} :
          Goto(t, next) /\ (next = "attest" => Unpushed(t) = {p})
    BY <2>3
  <2>5. next \in Steps \ {"none"}
    BY DEF Steps
  <2>6. ASSUME next = "attest", NEW r \in Enabled(t) PROVE images'[r][t] = Image(t)
    <3>1. <<r, t>> \in Pushes(t) /\ r \in Registries /\ t \in Names
      BY TagNames DEF Pushes, Enabled
    <3>2. CASE images[r][t] = Image(t)
      BY <1>1, <3>1, <3>2 DEF Marks
    <3>3. CASE images[r][t] # Image(t)
      <4>1. <<r, t>> \in Unpushed(t)
        BY <3>1, <3>3 DEF Unpushed
      <4>2. p = <<r, t>>
        BY <2>4, <2>6, <4>1
      <4>3. QED
        BY <2>3, <3>1, <4>2 DEF ReleaseInv, ImageInv, ImageType
    <3>4. QED
      BY <3>2, <3>3
  <2>7. StageInv'
    BY <1>1, <2>1, <2>2, <2>4, <2>6, MarkedStages
  <2>8. ShownInv'
    BY <1>1, <2>2, <2>4, <2>5, MarkedShown
  <2>9. MergedInv' /\ RecordType' /\ ReleasedInv'
    BY <2>1, <2>4, <2>5, OtherRuns DEF ReleaseInv, RecordType, ReleasedInv
  <2>10. QED
    BY <2>7, <2>8, <2>9
<1>3. CASE FinishByHand(t)
  <2>1. /\ step[t] = "failed" /\ images["ghcr.io"][t] # None /\ Goto(t, "done")
        /\ attested' = attested \cup {Image(t)}
        /\ images' = [r \in Registries |-> [images[r] EXCEPT ![t] =
                        IF <<r, t>> \in Pushes(t) THEN Image(t) ELSE images[r][t]]]
        /\ releases' = [releases EXCEPT ![t] = merged[t].notes]
    BY <1>3 DEF FinishByHand
  <2>2. Sound(t)
    <3>1. images["ghcr.io"][t] = Image(t)
      BY <2>1 DEF ReleaseInv, ImageInv, ShowsRun, Registries
    <3>2. images["ghcr.io"][t][1] = t
      BY <3>1 DEF Image
    <3>3. QED
      BY <2>1, <3>2, TagNames DEF ReleaseInv, ShownInv, Registries
  <2>3. ASSUME NEW r \in Enabled(t) PROVE images'[r][t] = Image(t)
    <3>1. <<r, t>> \in Pushes(t) /\ r \in Registries /\ t \in Names
      BY TagNames DEF Pushes, Enabled
    <3>2. QED
      BY <2>1, <3>1 DEF ReleaseInv, ImageInv, ImageType
  <2>4. StageInv'
    BY <1>1, <2>1, <2>2, <2>3, MarkedStages
  <2>5. "done" \in Steps \ {"none"}
    BY DEF Steps
  <2>6. ShownInv'
    BY <1>1, <2>1, <2>2, <2>5, MarkedShown
  <2>7. MergedInv' /\ RecordType' /\ ReleasedInv'
    BY <2>1, <2>2, <2>5, OtherRuns DEF ReleaseInv, RecordType, ReleasedInv, Sound
  <2>8. QED
    BY <2>4, <2>6, <2>7
<1>4. QED
  BY <1>2, <1>3

LEMMA ReleaseNext ==
  ASSUME ReleaseInv, NotesStandalone, [Next]_vars PROVE ReleaseInv'
<1>1. ImageInv'
  BY ImageNext DEF ReleaseInv
<1>2. CASE Write \/ UNCHANGED vars
  <2>1. UNCHANGED <<merged, code, runVars, images, attested, releases>>
    BY <1>2 DEF Write, vars
  <2>2. QED
    BY <1>1, <2>1 DEF runVars, ReleaseInv, RecordType, MergedInv, StageInv, ShownInv,
       ReleasedInv, Sound, Image, Enabled
<1>3. CASE Merge
  <2>1. UNCHANGED <<code, runVars, images, attested, releases>> /\ merged = None
    BY <1>3 DEF Merge
  <2>2. \A t \in Tags : step[t] = "none" /\ step'[t] = "none"
    BY <2>1 DEF runVars, ReleaseInv, MergedInv
  <2>3. \A r \in Registries, n \in Names : images'[r][n] = None
    BY <2>1, <2>2 DEF ReleaseInv, ShownInv
  <2>4. RecordType' /\ StageInv' /\ ShownInv' /\ ReleasedInv'
    BY <2>1, <2>2, <2>3 DEF runVars, ReleaseInv, RecordType, StageInv, ShownInv, ReleasedInv
  <2>5. QED
    BY <1>1, <1>3, <2>4, MergeStep DEF ReleaseInv
<1>4. ASSUME NEW t \in Tags, PushTag(t) \/ Rerun(t) PROVE ReleaseInv'
  BY <1>4, NewRun
<1>5. ASSUME NEW t \in Tags,
             Validate(t) \/ TakeNotes(t) \/ Attest(t) \/ CreateRelease(t) \/ Breaks(t)
               \/ Push(t) \/ FinishByHand(t)
      PROVE  ReleaseInv'
  BY <1>1, <1>5, RunStep, ImageStep DEF ReleaseInv
<1>6. QED
  BY <1>2, <1>3, <1>4, <1>5 DEF Next

\* Nothing is published that was not validated, and what is released has its attested
\* image, the same in both registries (release.yml, docs/releasing.md), for any number
\* of versions, overlapping runs, failures anywhere and re-runs.  That the notes of a
\* release are good ones is NotesAlone.
THEOREM PublishedCorrect == Spec => []PublishedHonest
<1>1. ReleaseInv => PublishedHonest
  <2> SUFFICES ASSUME ReleaseInv PROVE PublishedHonest
    OBVIOUS
  <2>1. \A r \in Registries, n \in Names : images[r][n] # None =>
          LET t == images[r][n][1] IN
          n \in {t, "latest"} /\ t \in Versions /\ code[t] = t /\ merged[t].notes = "standalone"
    BY DEF ReleaseInv, ShownInv, Sound
  <2>2. ASSUME NEW t \in Tags, releases[t] # None
        PROVE  /\ releases[t] = "standalone" /\ images["ghcr.io"][t] \in attested
               /\ docker[t] => images["docker.io"][t] = images["ghcr.io"][t]
    <3>1. step[t] = "done" /\ releases[t] = "standalone"
      BY <2>2 DEF ReleaseInv, ReleasedInv, RecordType
    <3>2. Image(t) \in attested /\ \A r \in Enabled(t) : images[r][t] = Image(t)
      BY <3>1 DEF ReleaseInv, StageInv
    <3>3. "ghcr.io" \in Enabled(t) /\ (docker[t] => "docker.io" \in Enabled(t))
      BY DEF Enabled, Registries
    <3>4. QED
      BY <3>1, <3>2, <3>3
  <2>3. QED
    BY <2>1, <2>2 DEF PublishedHonest
<1>2. QED
  BY ReleaseInit, ReleaseNext, NotesAlone, <1>1, PTL DEF Spec
===============================================================================
