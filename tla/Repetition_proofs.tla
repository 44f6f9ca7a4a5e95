------------------------- MODULE Repetition_proofs -------------------------
(***************************************************************************)
(* The generation is bounded, loops are cut off, and the detector finds    *)
(* just what is excessive of the whole text: proved for all limits, every  *)
(* text and every way of cutting it into deltas.                           *)
(*                                                                         *)
(* A delta is consumed page by page and a page line by line: both are      *)
(* recursive functions along a sequence, and the same two lemmas are used  *)
(* for both: such a function exists, and what each of its steps keeps it   *)
(* keeps.                                                                  *)
(*                                                                         *)
(* That the cuts do not matter needs more: where the lines and the pages   *)
(* of a text go on when the text does (Join), and that what the detector   *)
(* keeps, the last line and a count, says of the pages so far what counts  *)
(* (Corr, Sums).                                                           *)
(***************************************************************************)
EXTENDS Repetition, FiniteSetTheorems, SequenceTheorems, WellFoundedInduction, TLAPS

Letters == Symbols \ {"\n"}

Detectors == [detected : BOOLEAN,
              reason : {"none", "line_repeat", "rolling_repeat", "page_flood",
                        "page_char_limit", "page_token_limit"},
              page : Nat, sawMarker : BOOLEAN, chars : Nat, tokens : Nat, line : Seq(Letters),
              held : BOOLEAN, template : Words \cup {"none"}, repeats : Nat, since : Nat]

\* The markers that were counted.
Markers(det) == IF det.sawMarker THEN det.page + 1 ELSE 0

\* Each marker starts a new budget: with t tokens generated, that many budgets are used up
\* at most, and the tokens of this page.
InBudget(det, t) ==
  /\ det.page = 0 \/ det.sawMarker
  /\ Markers(det) <= MaxMarkers
  /\ det.tokens <= MaxPageTokens
  /\ t <= Markers(det) * MaxPageTokens + det.tokens

\* What there was of the line at the last look does not repeat itself, and the look was not
\* long ago.
LookedAt(det) == SubSeq(det.line, 1, Len(det.line) - det.since)
LineIsChecked(det) == det.since < CheckInterval /\ ~Tandem(LookedAt(det))

\* The detectors that have stopped the generation, or had no reason to.
Sound(t) == {det \in Detectors : det.detected \/ (InBudget(det, t) /\ LineIsChecked(det))}

Limit == (MaxMarkers + 1) * MaxPageTokens

Inv == /\ total \in Nat
       /\ d \in Sound(total)
       /\ total <= Limit + (IF d.detected THEN Block ELSE 0)

-----------------------------------------------------------------------------
\* Numbers.

\* A set of numbers has a least one.
LEMMA LeastIsThere ==
  ASSUME NEW S \in SUBSET Nat, S # {}
  PROVE  \E k \in S : \A y \in S : k <= y
<1>1. PICK m \in S : TRUE
  OBVIOUS
<1> DEFINE R == StrictSubsetOrdering(Nat)
           T == {0..k : k \in {k \in S : k <= m}}
<1>2. IsWellFoundedOn(R, FiniteSubsetsOf(Nat))
  BY FS_StrictSubsetOrderingWellFounded
<1>3. T \subseteq FiniteSubsetsOf(Nat)
  <2>1. \A k \in Nat : 0..k \subseteq Nat /\ IsFiniteSet(0..k)
    BY FS_Interval
  <2> QED
    BY <2>1 DEF FiniteSubsetsOf
<1>4. 0..m \in T
  BY <1>1
<1>5. \E x \in T : \A y \in T : <<y, x>> \notin R
  BY <1>2, <1>3, <1>4, WFMin
<1>6. PICK k \in S : k <= m /\ \A y \in T : <<y, 0..k>> \notin R
  BY <1>5
<1>7. ASSUME NEW y \in S, y < k PROVE FALSE
  <2>1. 0..y \in T
    BY <1>6, <1>7, <1>1
  <2>2. 0..y \subseteq 0..k /\ k \in 0..k /\ k \notin 0..y
    BY <1>7
  <2>3. <<0..y, 0..k>> \in R
    BY <2>1, <2>2 DEF StrictSubsetOrdering
  <2> QED
    BY <1>6, <2>1, <2>3
<1>8. \A y \in S : k <= y
  BY <1>7
<1> QED BY <1>8

\* Some of the numbers up to n have a greatest, and Max is it.
LEMMA MaxIsGreatest ==
  ASSUME NEW n \in Nat, NEW S \in SUBSET (0..n), S # {}
  PROVE  Max(S) \in S /\ \A y \in S : y <= Max(S)
<1> DEFINE T == {n - k : k \in S}
<1>1. T \in SUBSET Nat /\ T # {}
  <2>1. \A k \in 0..n : n - k \in Nat
    OBVIOUS
  <2> QED BY <2>1
<1>2. PICK e \in T : \A f \in T : e <= f
  BY <1>1, LeastIsThere
<1>3. PICK k \in S : e = n - k
  OBVIOUS
<1>4. ASSUME NEW y \in S PROVE k >= y
  <2>1. n - y \in T
    OBVIOUS
  <2>2. e <= n - y
    BY <1>2, <2>1
  <2>3. k \in Nat /\ y \in Nat
    OBVIOUS
  <2> QED BY <1>3, <2>2, <2>3
<1>5. \E x \in S : \A y \in S : x >= y
  BY <1>4
<1>6. Max(S) \in S /\ \A y \in S : Max(S) >= y
  BY <1>5, Zenon DEF Max
<1>7. \A y \in S : y \in Int
  OBVIOUS
<1> QED BY <1>6, <1>7

\* Products are monotone.
LEMMA ProductsGrow ==
  ASSUME NEW a \in Nat, NEW b \in Nat, NEW u \in Nat, a <= b
  PROVE  a * u \in Nat /\ b * u \in Nat /\ a * u <= b * u
<1>1. PICK c \in Nat : b = a + c
  <2>1. b - a \in Nat /\ b = a + (b - a)
    OBVIOUS
  <2> QED BY <2>1
<1>2. c * u \in Nat /\ a * u \in Nat /\ b * u \in Nat
  OBVIOUS
<1>3. b * u = a * u + c * u
  BY <1>1
<1> QED BY <1>2, <1>3

-----------------------------------------------------------------------------
\* Iterations.

\* What every step of an iteration keeps, it keeps.
LEMMA StepByStep ==
  ASSUME NEW S, NEW n \in Nat, NEW f, f[0] \in S,
         \A i \in 1..n : f[i - 1] \in S => f[i] \in S
  PROVE  \A i \in 0..n : f[i] \in S
<1> DEFINE Bad == {i \in 0..n : f[i] \notin S}
<1>1. SUFFICES ASSUME Bad # {} PROVE FALSE
  OBVIOUS
<1>2. Bad \in SUBSET Nat
  OBVIOUS
<1>3. PICK m \in Bad : \A y \in Bad : m <= y
  BY <1>1, <1>2, LeastIsThere
<1>4. m \in 0..n /\ f[m] \notin S /\ m # 0
  OBVIOUS
<1>5. m \in 1..n /\ m - 1 \in 0..n
  BY <1>4
<1>6. m - 1 \notin Bad
  BY <1>3, <1>5
<1>7. f[m - 1] \in S
  BY <1>5, <1>6
<1> QED BY <1>4, <1>5, <1>7

\* A function that iterates some operations.
Iterates(f, n, first, step) == f[0] = first /\ \A i \in 1..n : f[i] = step[i][f[i - 1]]

\* An iteration of operations on a set is there.
LEMMA IterationIsThere ==
  ASSUME NEW S, NEW n \in Nat, NEW first \in S, NEW step \in [1..n -> [S -> S]]
  PROVE  \E f \in [0..n -> S] : Iterates(f, n, first, step)
<1> USE DEF Iterates
<1> DEFINE Is(f, k) == f[0] = first /\ \A i \in 1..k : f[i] = step[i][f[i - 1]]
           Bad == {k \in 0..n : ~ \E f \in [0..k -> S] : Is(f, k)}
<1>1. SUFFICES ASSUME Bad # {} PROVE FALSE
  <2>1. n \in 0..n
    OBVIOUS
  <2> QED BY <2>1
<1>2. Bad \in SUBSET Nat
  OBVIOUS
<1>3. PICK m \in Bad : \A y \in Bad : m <= y
  BY <1>1, <1>2, LeastIsThere
<1>4. m \in 0..n /\ m \in Nat /\ ~ \E f \in [0..m -> S] : Is(f, m)
  BY <1>2
<1>5. CASE m = 0
  <2> DEFINE g == [i \in 0..m |-> first]
  <2>1. g \in [0..m -> S] /\ g[0] = first
    BY <1>5
  <2>2. 1..m = {}
    BY <1>5
  <2> HIDE DEF g
  <2> QED BY <1>4, <2>1, <2>2
<1>6. CASE m # 0
  <2>1. m - 1 \in 0..n /\ m \in 1..n /\ ~(m <= m - 1)
    BY <1>4, <1>6
  <2>2. m - 1 \notin Bad
    <3> HIDE DEF Bad
    <3> QED BY <1>3, <2>1
  <2>3. PICK f \in [0..(m - 1) -> S] : Is(f, m - 1)
    BY <2>1, <2>2
  <2> DEFINE g == [i \in 0..m |-> IF i = m THEN step[m][f[m - 1]] ELSE f[i]]
  <2>4. f[m - 1] \in S /\ step[m] \in [S -> S]
    BY <1>4, <2>1
  <2>5. step[m][f[m - 1]] \in S
    BY <2>4
  <2>6. \A i \in 0..m : i # m => i \in 0..(m - 1)
    BY <1>4
  <2>7. g \in [0..m -> S]
    BY <2>5, <2>6
  <2>8. g[m] = step[m][f[m - 1]] /\ \A i \in 0..(m - 1) : g[i] = f[i]
    <3>1. m \in 0..m /\ \A i \in 0..(m - 1) : i \in 0..m /\ i # m
      BY <1>4
    <3> QED BY <3>1
  <2> HIDE DEF g
  <2>9. g[0] = first
    <3>1. 0 \in 0..(m - 1)
      BY <1>4, <1>6
    <3> QED BY <2>3, <2>8, <3>1
  <2>10. ASSUME NEW i \in 1..m PROVE g[i] = step[i][g[i - 1]]
    <3>1. m - 1 \in 0..(m - 1) /\ i - 1 \in 0..(m - 1)
      BY <1>4, <1>6
    <3>2. CASE i = m
      BY <2>8, <3>1, <3>2
    <3>3. CASE i # m
      <4>1. i \in 1..(m - 1) /\ i \in 0..(m - 1)
        BY <1>4, <3>3
      <4> QED BY <2>3, <2>8, <3>1, <4>1
    <3> QED BY <3>2, <3>3
  <2> QED BY <1>4, <2>7, <2>9, <2>10
<1> QED BY <1>5, <1>6

-----------------------------------------------------------------------------
\* Texts.

\* The ranks of some places are the numbers from one to how many they are, and no two have
\* the same.
LEMMA RanksAreNumbers ==
  ASSUME NEW at \in SUBSET Nat, IsFiniteSet(at)
  PROVE  /\ \A e \in at : Rank(at, e) \in 1..Cardinality(at)
         /\ \A e, f \in at : Rank(at, e) = Rank(at, f) => e = f
         /\ \A i \in 1..Cardinality(at) : Nth(at, i) \in at /\ Rank(at, Nth(at, i)) = i
<1> DEFINE upTo(i) == {j \in at : j <= i}
           n == Cardinality(at)
<1>1. \A i \in at : IsFiniteSet(upTo(i)) /\ Rank(at, i) = Cardinality(upTo(i))
  BY FS_Subset DEF Rank
<1>2. ASSUME NEW i \in at PROVE Rank(at, i) \in 1..n
  <2>1. upTo(i) # {} /\ upTo(i) \subseteq at
    BY <1>2
  <2>2. Cardinality(upTo(i)) \in Nat /\ Cardinality(upTo(i)) # 0 /\ n \in Nat
    BY <1>1, <2>1, FS_EmptySet, FS_CardinalityType
  <2>3. Cardinality(upTo(i)) <= n
    BY <2>1, FS_Subset
  <2> QED BY <1>1, <2>2, <2>3
<1>3. ASSUME NEW i \in at, NEW j \in at, i < j
      PROVE  Rank(at, i) < Rank(at, j)
  <2>1. upTo(i) \subseteq upTo(j) /\ j \in upTo(j) /\ j \notin upTo(i)
    <3>1. i \in Nat /\ j \in Nat
      OBVIOUS
    <3>2. ASSUME NEW k \in at, k <= i PROVE k <= j
      <4>1. k \in Nat
        OBVIOUS
      <4> QED BY <1>3, <3>1, <3>2, <4>1
    <3>3. j <= j /\ ~(j <= i)
      BY <1>3, <3>1
    <3> QED BY <3>2, <3>3, Zenon
  <2>2. Cardinality(upTo(i)) <= Cardinality(upTo(j))
        /\ Cardinality(upTo(i)) # Cardinality(upTo(j))
    BY <1>1, <2>1, FS_Subset
  <2>3. Rank(at, i) \in Nat /\ Rank(at, j) \in Nat
    BY <1>2
  <2> QED BY <1>1, <2>2, <2>3
<1>4. ASSUME NEW i \in at, NEW j \in at, Rank(at, i) = Rank(at, j) PROVE i = j
  <2>1. Rank(at, i) \in Nat
    BY <1>2
  <2>2. ~(i < j) /\ ~(j < i)
    BY <1>3, <1>4, <2>1
  <2> QED BY <2>2
<1>5. \A k \in 1..n : \E i \in at : Rank(at, i) = k
  <2> DEFINE f == [i \in at |-> Rank(at, i)]
  <2>1. f \in [at -> 1..n]
    BY <1>2
  <2>2. ASSUME NEW i \in at, NEW j \in at, f[i] = f[j] PROVE i = j
    BY <1>4, <2>2
  <2>3. f \in Injection(at, 1..n)
    BY <2>1, <2>2 DEF Injection, IsInjective
  <2>4. n \in Nat
    BY FS_CardinalityType
  <2>5. IsFiniteSet(1..n) /\ Cardinality(1..n) = n
    BY <2>4, FS_Interval
  <2>6. f \in Surjection(at, 1..n)
    BY <2>3, <2>5, FS_Injection
  <2> QED BY <2>6 DEF Surjection
<1> QED BY <1>2, <1>4, <1>5, Zenon DEF Nth

\* The last of some places is the one whose rank is how many they are.
LEMMA LastPlace ==
  ASSUME NEW at \in SUBSET Nat, IsFiniteSet(at), NEW m \in at, Rank(at, m) = Cardinality(at)
  PROVE  \A e \in at : e <= m
<1> DEFINE upTo == {e \in at : e <= m}
<1>1. upTo \subseteq at /\ IsFiniteSet(upTo) /\ Cardinality(upTo) = Cardinality(at)
  BY FS_Subset DEF Rank
<1>2. upTo = at
  BY <1>1, FS_Subset
<1> QED BY <1>2

\* A piece of a text.
LEMMA PieceIsText ==
  ASSUME NEW S, NEW s \in Seq(S), NEW a \in Nat \ {0}, NEW b \in Int, b <= Len(s)
  PROVE  SubSeq(s, a, b) \in Seq(S)
<1>1. \A i \in a..b : i \in 1..Len(s)
  BY LenProperties
<1>2. \A i \in a..b : s[i] \in S
  BY <1>1, LenProperties
<1>3. a \in Int
  OBVIOUS
<1> QED BY <1>2, <1>3, SubSeqProperties

\* The beginning of a text.
LEMMA PieceIs ==
  ASSUME NEW S, NEW s \in Seq(S), NEW e \in Nat, e <= Len(s)
  PROVE  /\ SubSeq(s, 1, e) \in Seq(S) /\ Len(SubSeq(s, 1, e)) = e
         /\ \A i \in 1..e : SubSeq(s, 1, e)[i] = s[i]
<1>1. \A i \in 1..e : i \in 1..Len(s) /\ 1 + i - 1 = i /\ i \in 1..(e - 1 + 1)
  BY LenProperties
<1>2. \A i \in 1..e : s[i] \in S
  BY <1>1, LenProperties
<1>3. e \in Int /\ (IF 1 <= e THEN e - 1 + 1 ELSE 0) = e
  OBVIOUS
<1>4. /\ SubSeq(s, 1, e) \in Seq(S)
      /\ Len(SubSeq(s, 1, e)) = IF 1 <= e THEN e - 1 + 1 ELSE 0
      /\ \A i \in 1..(e - 1 + 1) : SubSeq(s, 1, e)[i] = s[1 + i - 1]
  BY <1>2, <1>3, SubSeqProperties
<1> QED BY <1>1, <1>3, <1>4

\* A piece of a text that is what follows the last of some places.
FollowsLast(piece, s, at, n) ==
  \E m \in at : (\A e \in at : e <= m) /\ piece = SubSeq(s, m + n, Len(s))

\* Cutting a text gives texts, one more than there are places to cut; the last is what
\* follows the last place.
LEMMA PiecesAreTexts ==
  ASSUME NEW S, NEW s \in Seq(S), NEW at \in SUBSET (1..Len(s)), NEW n \in Nat
  PROVE  /\ CutAt(s, at, n) \in Seq(Seq(S)) /\ Len(CutAt(s, at, n)) \in Nat \ {0}
         /\ at = {} => Last(CutAt(s, at, n)) = s
         /\ at # {} => FollowsLast(Last(CutAt(s, at, n)), s, at, n)
<1> DEFINE c == Cardinality(at)
           piece(i) == SubSeq(s, IF i = 1 THEN 1 ELSE Nth(at, i - 1) + n,
                                 IF i = c + 1 THEN Len(s) ELSE Nth(at, i) - 1)
<1>1. Len(s) \in Nat
  BY LenProperties
<1>2. at \in SUBSET Nat /\ IsFiniteSet(at) /\ c \in Nat
  <2>1. IsFiniteSet(1..Len(s))
    BY <1>1, FS_Interval
  <2>2. IsFiniteSet(at)
    BY <2>1, FS_Subset
  <2> QED BY <2>2, FS_CardinalityType
<1>3. \A i \in 1..c : /\ Nth(at, i) \in at /\ Rank(at, Nth(at, i)) = i
                     /\ Nth(at, i) \in 1..Len(s)
  BY <1>2, RanksAreNumbers
<1>4. CutAt(s, at, n) = [i \in 1..(c + 1) |-> piece(i)]
  BY DEF CutAt
<1>5. ASSUME NEW i \in 1..(c + 1) PROVE piece(i) \in Seq(S)
  <2> DEFINE a == IF i = 1 THEN 1 ELSE Nth(at, i - 1) + n
             b == IF i = c + 1 THEN Len(s) ELSE Nth(at, i) - 1
  <2>1. a \in Nat \ {0}
    <3>1. CASE i = 1
      BY <3>1
    <3>2. CASE i # 1
      <4>1. i - 1 \in 1..c
        BY <1>2, <3>2
      <4>2. Nth(at, i - 1) \in Nat \ {0}
        BY <1>1, <1>3, <4>1
      <4>3. a = Nth(at, i - 1) + n
        BY <3>2
      <4> HIDE DEF a
      <4> QED BY <4>2, <4>3
    <3> QED BY <3>1, <3>2
  <2>2. b \in Int /\ b <= Len(s)
    <3>1. CASE i = c + 1
      BY <1>1, <3>1
    <3>2. CASE i # c + 1
      <4>1. i \in 1..c
        BY <1>2, <3>2
      <4>2. Nth(at, i) \in 1..Len(s)
        BY <1>3, <4>1
      <4>3. b = Nth(at, i) - 1
        BY <3>2
      <4> HIDE DEF b
      <4> QED BY <1>1, <4>2, <4>3
    <3> QED BY <3>1, <3>2
  <2>3. piece(i) = SubSeq(s, a, b)
    OBVIOUS
  <2> HIDE DEF a, b, piece
  <2> QED BY <2>1, <2>2, <2>3, PieceIsText
<1>6. /\ CutAt(s, at, n) \in Seq(Seq(S)) /\ Len(CutAt(s, at, n)) = c + 1
      /\ Last(CutAt(s, at, n)) = piece(c + 1)
  <2> DEFINE q == [i \in 1..(c + 1) |-> piece(i)]
  <2>1. c + 1 \in Nat /\ c + 1 \in 1..(c + 1)
    BY <1>2
  <2>2. q[c + 1] = piece(c + 1)
    BY <2>1
  <2>3. q \in Seq(Seq(S)) /\ Len(q) = c + 1
    <3> HIDE DEF piece, c
    <3> QED BY <1>5, <2>1
  <2>4. Last(q) = q[c + 1]
    <3> HIDE DEF q, c
    <3> QED BY <2>3 DEF Last
  <2> HIDE DEF q
  <2>5. CutAt(s, at, n) = q
    BY <1>4 DEF q
  <2> QED BY <2>2, <2>3, <2>4, <2>5
<1>7. ASSUME at = {} PROVE Last(CutAt(s, at, n)) = s
  <2>1. c = 0
    BY <1>7, FS_EmptySet
  <2>2. piece(c + 1) = SubSeq(s, 1, Len(s))
    BY <2>1
  <2> HIDE DEF piece
  <2> QED BY <1>6, <2>2, SubSeqFull
<1>8. ASSUME at # {} PROVE FollowsLast(Last(CutAt(s, at, n)), s, at, n)
  <2>1. c # 0
    BY <1>2, <1>8, FS_EmptySet
  <2>2. c \in 1..c
    BY <1>2, <2>1
  <2>3. Nth(at, c) \in at /\ \A e \in at : e <= Nth(at, c)
    BY <1>2, <1>3, <2>2, LastPlace
  <2>4. c + 1 # 1 /\ (c + 1) - 1 = c
    BY <1>2, <2>1
  <2>5. piece(c + 1) = SubSeq(s, Nth(at, c) + n, Len(s))
    BY <2>4
  <2> HIDE DEF piece
  <2> QED BY <1>6, <2>3, <2>5 DEF FollowsLast
<1>9. c + 1 \in Nat \ {0}
  BY <1>2
<1> QED BY <1>6, <1>7, <1>8, <1>9

\* The repetitions found at the end of a line are some, and the most there are.
LEMMA RepetitionsAreMost ==
  ASSUME NEW s \in Seq(Letters), NEW u \in Nat \ {0}
  PROVE  LET good == {k \in 1..Len(s) :
                        /\ k * u <= Len(s)
                        /\ \A i \in (Len(s) - k * u + 1)..(Len(s) - u) : s[i] = s[i + u]}
         IN /\ Repetitions(s, u) \in {0} \cup good
            /\ \A k \in good : k <= Repetitions(s, u)
<1> DEFINE good == {k \in 1..Len(s) :
                      /\ k * u <= Len(s)
                      /\ \A i \in (Len(s) - k * u + 1)..(Len(s) - u) : s[i] = s[i + u]}
           all == {0} \cup good
<1>1. Len(s) \in Nat
  BY LenProperties
<1>2. all \in SUBSET (0..Len(s)) /\ all # {}
  BY <1>1
<1>3. Repetitions(s, u) = Max(all)
  BY DEF Repetitions
<1>4. Max(all) \in all /\ \A y \in all : y <= Max(all)
  <2> HIDE DEF all
  <2> QED BY <1>1, <1>2, MaxIsGreatest
<1> QED BY <1>3, <1>4

\* An empty line does not repeat itself.
LEMMA EmptyIsQuiet == ~Tandem(<<>>)
<1> SUFFICES ASSUME NEW u \in 1..MaxUnit, Repetitions(<<>>, u) >= MinRepeats PROVE FALSE
  BY Zenon DEF Tandem
<1>1. u \in Nat \ {0}
  BY RepetitionAssumption
<1>2. <<>> \in Seq(Letters) /\ Len(<<>>) = 0
  BY EmptySeq
<1>3. Repetitions(<<>>, u) \in {0} \cup (1..0)
  BY <1>1, <1>2, RepetitionsAreMost
<1>4. Repetitions(<<>>, u) = 0
  BY <1>3
<1> QED BY <1>4, RepetitionAssumption

\* A line whose beginning does not repeat itself, up to m symbols from its end, does not
\* have many more repetitions than that beginning could have.
LEMMA LoopIsShort ==
  ASSUME NEW s \in Seq(Letters), NEW m \in Nat, ~Tandem(SubSeq(s, 1, Len(s) - m)),
         NEW u \in 1..MaxUnit, NEW bound \in Nat, MinRepeats * u <= bound, MinSpan <= bound
  PROVE  Repetitions(s, u) * u < bound + m + u
<1> DEFINE k == Repetitions(s, u)
           p == SubSeq(s, 1, Len(s) - m)
           K == Repetitions(p, u)
<1>1. /\ u \in Nat \ {0} /\ MinRepeats \in Nat \ {0, 1} /\ MinSpan \in Nat
      /\ Len(s) \in Nat
  BY RepetitionAssumption, LenProperties
<1>2. CASE k = 0
  <2>1. k * u = 0
    BY <1>1, <1>2
  <2> HIDE DEF k
  <2> QED BY <1>1, <2>1 DEF k
<1>3. CASE k # 0
  <2>1. /\ k \in 1..Len(s) /\ k * u <= Len(s)
        /\ \A i \in (Len(s) - k * u + 1)..(Len(s) - u) : s[i] = s[i + u]
    BY <1>1, <1>3, RepetitionsAreMost
  <2>2. k * u \in Nat /\ k \in Nat
    BY <1>1, <2>1
  <2> HIDE DEF k
  <2>3. PICK q \in Nat : q * u >= m /\ \A r \in Nat : r * u >= m => q <= r
    <3> DEFINE enough == {r \in Nat : r * u >= m}
    <3>1. 1 * m <= u * m
      BY <1>1, ProductsGrow
    <3>2. m \in enough
      BY <1>1, <3>1
    <3>3. PICK r \in enough : \A y \in enough : r <= y
      BY <3>2, LeastIsThere
    <3> QED BY <3>3
  <2>4. q = 0 \/ (q \in Nat \ {0} /\ (q - 1) * u < m)
    <3>1. CASE q = 0
      BY <3>1
    <3>2. CASE q # 0
      <4>1. q - 1 \in Nat /\ ~(q <= q - 1)
        BY <3>2
      <4>2. ~((q - 1) * u >= m)
        BY <2>3, <4>1
      <4>3. (q - 1) * u \in Int
        BY <1>1, <4>1
      <4> QED BY <3>2, <4>2, <4>3
    <3> QED BY <3>1, <3>2
  <2>5. q * u \in Nat /\ q * u < m + u
    <3>1. CASE q = 0
      <4>1. q * u = 0
        BY <1>1, <3>1
      <4> QED BY <1>1, <4>1
    <3>2. CASE q # 0
      <4>1. q \in Nat /\ (q - 1) * u < m
        BY <2>4, <3>2
      <4>2. q * u = (q - 1) * u + u /\ q * u \in Nat /\ (q - 1) * u \in Int
        BY <1>1, <4>1
      <4> QED BY <1>1, <4>1, <4>2
    <3> QED BY <3>1, <3>2
  <2>6. CASE k <= q
    <3>1. k * u <= q * u
      BY <1>1, <2>2, <2>6, ProductsGrow
    <3> QED BY <1>1, <2>2, <2>5, <3>1 DEF k
  <2>7. CASE ~(k <= q)
    <3> DEFINE k2 == k - q
    <3>1. k2 \in Nat \ {0} /\ k = k2 + q
      BY <2>2, <2>7
    <3> HIDE DEF k2
    <3>2. k * u = k2 * u + q * u /\ k2 * u \in Nat
      BY <1>1, <3>1
    <3>3. k2 * u <= Len(s) - m
      BY <1>1, <2>1, <2>2, <2>3, <2>5, <3>2
    <3>4. Len(s) - m \in Nat /\ Len(s) - m <= Len(s)
      BY <1>1, <3>2, <3>3
    <3>5. /\ p \in Seq(Letters) /\ Len(p) = Len(s) - m
          /\ \A i \in 1..(Len(s) - m) : p[i] = s[i]
      <4>1. \A i \in 1..(Len(s) - m) : s[i] \in Letters
        BY <3>4, LenProperties
      <4>2. /\ 1 \in Int /\ Len(s) - m \in Int
            /\ 1 <= Len(s) - m => Len(s) - m - 1 + 1 = Len(s) - m
            /\ ~(1 <= Len(s) - m) => Len(s) - m = 0
            /\ \A i \in 1..(Len(s) - m) : 1 + i - 1 = i /\ i \in 1..((Len(s) - m) - 1 + 1)
        BY <3>4
      <4> DEFINE e == Len(s) - m
      <4>3. e \in Int /\ p = SubSeq(s, 1, e) /\ \A i \in 1..e : s[i] \in Letters
        BY <4>1, <4>2
      <4> HIDE DEF e, p
      <4>4. /\ p \in Seq(Letters)
            /\ Len(p) = IF 1 <= e THEN e - 1 + 1 ELSE 0
            /\ \A i \in 1..(e - 1 + 1) : p[i] = s[1 + i - 1]
        BY <4>3, SubSeqProperties
      <4> QED BY <4>2, <4>4 DEF e
    <3>6. 1 * k2 <= u * k2
      BY <1>1, <3>1, ProductsGrow
    <3>7. k2 \in 1..Len(p) /\ k2 * u <= Len(p)
      <4>1. u * k2 = k2 * u /\ 1 * k2 = k2
        BY <1>1, <3>1
      <4>2. k2 <= k2 * u
        BY <3>6, <4>1
      <4>3. k2 <= Len(s) - m
        BY <3>1, <3>2, <3>3, <3>4, <4>2
      <4> QED BY <3>1, <3>3, <3>4, <3>5, <4>3
    <3>8. ASSUME NEW i \in (Len(p) - k2 * u + 1)..(Len(p) - u) PROVE p[i] = p[i + u]
      <4>1. i \in Int /\ i >= Len(s) - m - k2 * u + 1 /\ i <= Len(s) - m - u
        BY <1>1, <3>2, <3>4, <3>5, <3>8
      <4>2. i \in (Len(s) - k * u + 1)..(Len(s) - u)
        BY <1>1, <2>2, <2>3, <2>5, <3>2, <4>1
      <4>3. s[i] = s[i + u]
        BY <2>1, <4>2
      <4>4. i \in 1..(Len(s) - m) /\ i + u \in 1..(Len(s) - m)
        BY <1>1, <3>2, <3>3, <3>4, <4>1
      <4> QED BY <3>5, <4>3, <4>4
    <3>9. k2 <= K /\ K \in Nat
      <4> DEFINE good == {j \in 1..Len(p) :
                     /\ j * u <= Len(p)
                     /\ \A i \in (Len(p) - j * u + 1)..(Len(p) - u) : p[i] = p[i + u]}
      <4>1. k2 \in good
        BY <3>7, <3>8
      <4>2. K \in {0} \cup good /\ \A j \in good : j <= K
        <5> HIDE DEF p
        <5> QED BY <1>1, <3>5, RepetitionsAreMost
      <4>3. good \subseteq Nat
        BY <1>1, <3>5
      <4> HIDE DEF good, K
      <4> QED BY <4>1, <4>2, <4>3
    <3>10. ~(K >= MinRepeats /\ K * u >= MinSpan)
      BY Zenon DEF Tandem
    <3> HIDE DEF K
    <3>11. k2 * u < bound
      <4>1. K * u \in Nat /\ k2 * u <= K * u
        BY <1>1, <3>1, <3>9, ProductsGrow
      <4>2. CASE ~(K >= MinRepeats)
        <5>1. k2 + 1 \in Nat /\ k2 + 1 <= MinRepeats
          BY <1>1, <3>1, <3>9, <4>2
        <5>2. (k2 + 1) * u <= MinRepeats * u /\ MinRepeats * u \in Nat
          BY <1>1, <5>1, ProductsGrow
        <5>3. (k2 + 1) * u = k2 * u + u
          BY <1>1, <3>1
        <5> QED BY <1>1, <3>2, <5>2, <5>3
      <4>3. CASE ~(K * u >= MinSpan)
        BY <1>1, <3>2, <4>1, <4>3
      <4> QED BY <3>10, <4>2, <4>3
    <3> QED BY <1>1, <2>5, <3>2, <3>11 DEF k
  <2> QED BY <2>6, <2>7
<1> QED BY <1>2, <1>3

-----------------------------------------------------------------------------
\* The operations of the detector.

Reasons == {"none", "line_repeat", "rolling_repeat", "page_flood", "page_char_limit",
            "page_token_limit"}

\* What the budget and the rolling check depend on.
Same(x, y) == /\ x.page = y.page /\ x.sawMarker = y.sawMarker /\ x.tokens = y.tokens
              /\ x.line = y.line /\ x.since = y.since /\ x.chars = y.chars
Alike(det) == {x \in Detectors : x.detected \/ Same(x, det)}

\* A detector that has detected something is sound.
LEMMA TripIsSound ==
  ASSUME NEW det \in Detectors, NEW reason \in Reasons
  PROVE  /\ Trip(det, reason) \in Detectors /\ Trip(det, reason).detected
         /\ \A t : Trip(det, reason) \in Sound(t)
<1>1. Trip(det, reason) \in Detectors /\ Trip(det, reason).detected
  BY DEF Detectors, Trip, Reasons
<1> HIDE DEF Detectors, Trip
<1> QED BY <1>1 DEF Sound

\* What is like a sound detector is sound.
LEMMA AlikeIsSound ==
  ASSUME NEW t, NEW x \in Sound(t), ~x.detected, NEW y \in Alike(x)
  PROVE  y \in Sound(t)
<1>1. y \in Detectors /\ (y.detected \/ Same(y, x))
  BY DEF Alike
<1>2. CASE y.detected
  BY <1>1, <1>2 DEF Sound
<1>3. CASE Same(y, x)
  <2>1. InBudget(x, t) /\ LineIsChecked(x)
    BY DEF Sound
  <2>2. InBudget(y, t)
    BY <1>3, <2>1 DEF InBudget, Markers, Same
  <2>3. LineIsChecked(y)
    BY <1>3, <2>1 DEF LineIsChecked, LookedAt, Same
  <2> QED BY <1>1, <2>2, <2>3 DEF Sound
<1> QED BY <1>1, <1>2, <1>3

\* A line counts for the run of rows only, or ends the generation.
LEMMA ObserveIsAlike ==
  ASSUME NEW det \in Detectors, NEW line
  PROVE  Observe(det, line) \in Alike(det)
<1>1. CASE line = <<>>
  BY <1>1 DEF Observe, Alike, Same
<1>2. CASE line # <<>> /\ (Len(line) # 1 \/ line[1] \notin Words)
  <2>1. Observe(det, line) = [det EXCEPT !.template = "none", !.repeats = 0]
    BY <1>2 DEF Observe, Observe_Strict
  <2>2. [det EXCEPT !.template = "none", !.repeats = 0] \in Detectors
    BY DEF Detectors
  <2>3. Same([det EXCEPT !.template = "none", !.repeats = 0], det)
    BY DEF Detectors, Same
  <2> QED BY <2>1, <2>2, <2>3 DEF Alike
<1>3. CASE line # <<>> /\ ~(Len(line) # 1 \/ line[1] \notin Words)
  <2> DEFINE n == IF det.template = line[1] THEN det.repeats + 1 ELSE 1
             seen == [det EXCEPT !.template = line[1], !.repeats = n]
  <2>1. Observe(det, line) = IF n >= Threshold THEN Trip(seen, "line_repeat") ELSE seen
    BY <1>3 DEF Observe, Observe_Strict
  <2>2. n \in Nat
    BY DEF Detectors
  <2>3. line[1] \in Words
    BY <1>3
  <2> HIDE DEF n
  <2>4. seen \in Detectors /\ Same(seen, det)
    BY <2>2, <2>3 DEF Detectors, Same
  <2> HIDE DEF seen
  <2>5. Trip(seen, "line_repeat") \in Alike(det)
    BY <2>4, TripIsSound DEF Alike, Reasons
  <2>6. seen \in Alike(det)
    BY <2>4 DEF Alike
  <2> QED BY <2>1, <2>5, <2>6
<1> QED BY <1>1, <1>2, <1>3

\* The lines that are complete are observed one by one.
LEMMA LinesAreObserved ==
  ASSUME NEW det \in Detectors, NEW lines, Len(lines) \in Nat
  PROVE  \E h : /\ h[0] = det /\ ObserveLines(det, lines) = h[Len(lines)]
                /\ \A i \in 1..Len(lines) :
                     h[i] = IF h[i - 1].detected THEN h[i - 1] ELSE Observe(h[i - 1], lines[i])
<1> DEFINE n == Len(lines)
           S == Alike(det)
           next(x, i) == IF x.detected THEN x ELSE Observe(x, lines[i])
           Is(f) == f = [i \in 0..n |-> IF i = 0 THEN det ELSE next(f[i - 1], i)]
           step == [i \in 1..n |-> [x \in S |-> next(x, i)]]
<1>1. det \in S
  BY DEF Alike, Same
<1>2. \A x \in S, i \in 1..n : next(x, i) \in S
  <2> TAKE x \in S, i \in 1..n
  <2>1. x \in Detectors /\ (x.detected \/ Same(x, det))
    BY DEF Alike
  <2>2. Observe(x, lines[i]) \in Alike(x)
    BY <2>1, ObserveIsAlike
  <2>3. CASE ~x.detected
    BY <2>1, <2>2, <2>3 DEF Alike, Same
  <2> QED BY <2>1, <2>3
<1> HIDE DEF S, next
<1>3. step \in [1..n -> [S -> S]]
  BY <1>2
<1>4. PICK g \in [0..n -> S] : Iterates(g, n, det, step)
  <2>1. n \in Nat
    OBVIOUS
  <2> HIDE DEF step, n
  <2> QED BY <1>1, <1>3, <2>1, IterationIsThere
<1>5. Is(g)
  <2>1. \A i \in 1..n : g[i] = next(g[i - 1], i)
    <3> TAKE i \in 1..n
    <3>1. i - 1 \in 0..n
      OBVIOUS
    <3>2. g[i - 1] \in S
      BY <3>1
    <3>3. step[i][g[i - 1]] = next(g[i - 1], i)
      BY <3>2
    <3> HIDE DEF step
    <3> QED BY <1>4, <3>3 DEF Iterates
  <2>2. \A i \in 0..n : i # 0 => i \in 1..n
    OBVIOUS
  <2>3. \A i \in 0..n : g[i] = IF i = 0 THEN det ELSE next(g[i - 1], i)
    <3> HIDE DEF step
    <3> QED BY <1>4, <2>1, <2>2 DEF Iterates
  <2>4. g = [i \in 0..n |-> g[i]]
    OBVIOUS
  <2> QED BY <2>3, <2>4
<1> DEFINE h == CHOOSE f : Is(f)
<1>6. Is(h)
  <2> HIDE DEF Is
  <2> QED BY <1>5, Zenon
<1>7. ObserveLines(det, lines) = h[n]
  BY Zenon DEF ObserveLines, next
<1> HIDE DEF h
<1>8. h[0] = det
  BY <1>6
<1>9. \A i \in 1..n : h[i] = next(h[i - 1], i)
  <2>1. \A i \in 1..n : i \in 0..n /\ i # 0
    OBVIOUS
  <2> QED BY <1>6, <2>1
<1> QED BY <1>7, <1>8, <1>9 DEF next

\* So they count for the run of rows only, or end the generation.
LEMMA LinesAreAlike ==
  ASSUME NEW det \in Detectors, NEW lines, Len(lines) \in Nat
  PROVE  ObserveLines(det, lines) \in Alike(det)
<1> DEFINE n == Len(lines)
           S == Alike(det)
<1>1. PICK h : /\ h[0] = det /\ ObserveLines(det, lines) = h[n]
               /\ \A i \in 1..n :
                    h[i] = IF h[i - 1].detected THEN h[i - 1] ELSE Observe(h[i - 1], lines[i])
  BY LinesAreObserved
<1>2. det \in S
  BY DEF Alike, Same
<1>3. \A x \in S, i \in 1..n : (IF x.detected THEN x ELSE Observe(x, lines[i])) \in S
  <2> TAKE x \in S, i \in 1..n
  <2>1. x \in Detectors /\ (x.detected \/ Same(x, det))
    BY DEF Alike
  <2>2. Observe(x, lines[i]) \in Alike(x)
    BY <2>1, ObserveIsAlike
  <2>3. CASE ~x.detected
    BY <2>1, <2>2, <2>3 DEF Alike, Same
  <2> QED BY <2>1, <2>3
<1> HIDE DEF S
<1>4. \A i \in 1..n : h[i - 1] \in S => h[i] \in S
  BY <1>1, <1>3
<1>5. n \in Nat /\ n \in 0..n
  OBVIOUS
<1> HIDE DEF n
<1>6. \A i \in 0..n : h[i] \in S
  BY <1>1, <1>2, <1>4, <1>5, StepByStep
<1> QED BY <1>1, <1>5, <1>6 DEF S

\* The lines of a text: the last is what follows the last line break.
LEMMA LinesOfText ==
  ASSUME NEW s \in Seq(Symbols)
  PROVE  /\ Lines(s) \in Seq(Seq(Symbols)) /\ Len(Lines(s)) \in Nat \ {0}
         /\ \/ Last(Lines(s)) = s /\ s \in Seq(Letters)
            \/ \E m \in 1..Len(s) : /\ s[m] = "\n"
                                    /\ Last(Lines(s)) \in Seq(Letters)
                                    /\ Len(Last(Lines(s))) = Len(s) - m
<1> DEFINE at == {i \in DOMAIN s : s[i] = "\n"}
<1>1. Len(s) \in Nat /\ DOMAIN s = 1..Len(s) /\ \A i \in 1..Len(s) : s[i] \in Symbols
  BY LenProperties
<1>2. at \in SUBSET (1..Len(s)) /\ Lines(s) = CutAt(s, at, 1)
  BY <1>1 DEF Lines
<1>3. /\ Lines(s) \in Seq(Seq(Symbols)) /\ Len(Lines(s)) \in Nat \ {0}
      /\ at = {} => Last(Lines(s)) = s
      /\ at # {} => FollowsLast(Last(Lines(s)), s, at, 1)
  <2> HIDE DEF at
  <2>1. 1 \in Nat
    OBVIOUS
  <2> QED BY <1>2, <2>1, PiecesAreTexts
<1>4. CASE at = {}
  <2>1. \A i \in 1..Len(s) : s[i] \in Letters
    BY <1>1, <1>4 DEF Letters
  <2>2. s = [i \in 1..Len(s) |-> s[i]]
    BY <1>1, LenProperties
  <2>3. s \in Seq(Letters)
    <3>1. \A i \in 1..Len(s) : 1 + i - 1 = i /\ i \in 1..(Len(s) - 1 + 1)
      BY <1>1
    <3>2. SubSeq(s, 1, Len(s)) \in Seq(Letters)
      BY <1>1, <2>1, SubSeqProperties
    <3> QED BY <3>2, SubSeqFull
  <2> QED BY <1>3, <1>4, <2>3
<1>5. CASE at # {}
  <2>1. PICK m \in at : (\A e \in at : e <= m) /\ Last(Lines(s)) = SubSeq(s, m + 1, Len(s))
    BY <1>3, <1>5, Zenon DEF FollowsLast
  <2>2. m \in 1..Len(s) /\ s[m] = "\n" /\ m + 1 \in Int /\ Len(s) \in Int
    BY <1>1
  <2>3. \A i \in (m + 1)..Len(s) : s[i] \in Letters
    <3> TAKE i \in (m + 1)..Len(s)
    <3>1. i \in 1..Len(s) /\ ~(i <= m)
      BY <1>1, <2>2
    <3>2. i \notin at
      BY <2>1, <3>1
    <3> QED BY <1>1, <3>1, <3>2 DEF Letters
  <2>4. /\ SubSeq(s, m + 1, Len(s)) \in Seq(Letters)
        /\ Len(SubSeq(s, m + 1, Len(s))) = IF m + 1 <= Len(s) THEN Len(s) - (m + 1) + 1 ELSE 0
    BY <2>2, <2>3, SubSeqProperties
  <2>5. (IF m + 1 <= Len(s) THEN Len(s) - (m + 1) + 1 ELSE 0) = Len(s) - m
    BY <1>1, <2>2
  <2> QED BY <1>3, <2>1, <2>2, <2>4, <2>5
<1> QED BY <1>4, <1>5

\* A look at the line: it repeats itself, or it is checked to its end.
LEMMA CheckIsSound ==
  ASSUME NEW t, NEW det \in Detectors, NEW force \in BOOLEAN, InBudget(det, t),
         ~det.detected, ~Tandem(LookedAt(det))
  PROVE  CheckRolling(det, force) \in Sound(t)
<1>1. CASE ~force /\ det.since < CheckInterval
  <2>1. CheckRolling(det, force) = det
    BY <1>1 DEF CheckRolling
  <2> QED BY <1>1, <2>1 DEF Sound, LineIsChecked
<1> DEFINE checked == [det EXCEPT !.since = 0]
<1>2. checked \in Detectors /\ Same([checked EXCEPT !.since = det.since], det)
  BY DEF Detectors, Same
<1>3. CASE ~(~force /\ det.since < CheckInterval)
  <2>1. CheckRolling(det, force) = IF Tandem(det.line) THEN Trip(checked, "rolling_repeat")
                                   ELSE checked
    BY <1>3 DEF CheckRolling
  <2>2. CASE Tandem(det.line)
    <3> HIDE DEF checked
    <3> QED BY <1>2, <2>1, <2>2, TripIsSound DEF Reasons
  <2>3. CASE ~Tandem(det.line)
    <3>1. /\ checked.page = det.page /\ checked.sawMarker = det.sawMarker
          /\ checked.tokens = det.tokens /\ checked.line = det.line /\ checked.since = 0
      BY DEF Detectors
    <3> HIDE DEF checked
    <3>2. InBudget(checked, t)
      BY <3>1 DEF InBudget, Markers
    <3>3. LookedAt(checked) = det.line
      <4>1. det.line \in Seq(Letters)
        BY DEF Detectors
      <4>2. Len(det.line) - 0 = Len(det.line)
        BY <4>1, LenProperties
      <4> QED BY <3>1, <4>1, <4>2, SubSeqFull DEF LookedAt
    <3>4. LineIsChecked(checked)
      BY <2>3, <3>1, <3>3, RepetitionAssumption DEF LineIsChecked
    <3> QED BY <1>2, <2>1, <2>3, <3>2, <3>4 DEF Sound
  <2> QED BY <2>2, <2>3
<1> QED BY <1>1, <1>3

\* A text that is consumed: what is appended to a line may wait for the next look, and a
\* line that has just begun is shorter than what was not looked at.
LEMMA ConsumeIsSound ==
  ASSUME NEW t, NEW det \in Sound(t), NEW content \in Seq(Symbols)
  PROVE  Consume(det, content) \in Sound(t)
<1>1. CASE content = <<>> \/ det.detected
  BY <1>1 DEF Consume
<1>2. CASE content # <<>> /\ ~det.detected
  <2> DEFINE all == det.line \o content
             lines == Lines(all)
             counted == [det EXCEPT !.chars = @ + Len(content), !.since = @ + Len(content),
                                    !.line = Last(lines)]
             observed == ObserveLines(counted, Front(lines))
             checked == IF observed.detected THEN observed ELSE CheckRolling(observed, FALSE)
  <2>1. Consume(det, content) = IF ~checked.detected /\ checked.chars > MaxPageChars
                                THEN Trip(checked, "page_char_limit") ELSE checked
    BY <1>2, Zenon DEF Consume
  <2>2. /\ det \in Detectors /\ InBudget(det, t) /\ LineIsChecked(det)
        /\ det.line \in Seq(Letters) /\ det.since \in Nat /\ Len(content) \in Nat
    BY <1>2, LenProperties DEF Sound, Detectors
  <2>3. /\ det.line \in Seq(Symbols) /\ Len(det.line) \in Nat
        /\ \A i \in 1..Len(det.line) : det.line[i] # "\n"
    <3>1. Len(det.line) \in Nat /\ \A i \in 1..Len(det.line) : det.line[i] \in Letters
      BY <2>2, LenProperties
    <3>2. \A i \in 1..Len(det.line) : det.line[i] \in Symbols
      BY <3>1 DEF Letters
    <3>3. SubSeq(det.line, 1, Len(det.line)) \in Seq(Symbols)
      BY <3>1, <3>2, SubSeqProperties
    <3>4. det.line \in Seq(Symbols)
      BY <2>2, <3>3, SubSeqFull
    <3> QED BY <3>1, <3>4 DEF Letters
  <2>4. /\ all \in Seq(Symbols) /\ Len(all) = Len(det.line) + Len(content)
        /\ \A i \in 1..Len(det.line) : all[i] = det.line[i]
    BY <2>3, LenProperties
  <2> HIDE DEF all
  <2>5. /\ lines \in Seq(Seq(Symbols)) /\ Len(lines) \in Nat \ {0}
        /\ Last(lines) \in Seq(Letters)
    BY <2>4, LinesOfText
  <2> HIDE DEF lines
  <2>6. /\ counted \in Detectors /\ ~counted.detected /\ counted.line = Last(lines)
        /\ counted.since = det.since + Len(content) /\ counted.page = det.page
        /\ counted.sawMarker = det.sawMarker /\ counted.tokens = det.tokens
    <3>1. det.since + Len(content) \in Nat /\ det.chars + Len(content) \in Nat
      BY <2>2 DEF Detectors
    <3>2. counted \in Detectors
      BY <2>2, <2>5, <3>1 DEF Detectors
    <3>3. /\ counted.line = Last(lines) /\ counted.since = det.since + Len(content)
          /\ ~counted.detected /\ counted.page = det.page
      BY <1>2, <2>2 DEF Detectors
    <3>4. counted.sawMarker = det.sawMarker /\ counted.tokens = det.tokens
      BY <2>2 DEF Detectors
    <3> QED BY <3>2, <3>3, <3>4
  <2> HIDE DEF counted
  <2>7. ~Tandem(LookedAt(counted))
    <3>1. CASE Last(lines) = all
      <4> DEFINE e == Len(det.line) - det.since
      <4>1. Len(all) - counted.since = e /\ e \in Int /\ e <= Len(det.line)
        BY <2>2, <2>3, <2>4, <2>6
      <4>2. \A i \in 1..e : i \in 1..Len(det.line)
        BY <2>3, <4>1
      <4> HIDE DEF e
      <4>3. SubSeq(all, 1, e) = SubSeq(det.line, 1, e)
        <5>1. CASE e < 1
          BY <4>1, <5>1, SubSeqEmpty
        <5>2. CASE ~(e < 1)
          <6>1. /\ SubSeq(all, 1, e) \in Seq(Symbols) /\ Len(SubSeq(all, 1, e)) = e
                /\ \A i \in 1..e : SubSeq(all, 1, e)[i] = all[i]
            BY <2>3, <2>4, <4>1, <4>2, <5>2, PieceIs
          <6>2. /\ SubSeq(det.line, 1, e) \in Seq(Symbols) /\ Len(SubSeq(det.line, 1, e)) = e
                /\ \A i \in 1..e : SubSeq(det.line, 1, e)[i] = det.line[i]
            BY <2>3, <4>1, <5>2, PieceIs
          <6>3. \A i \in 1..e : SubSeq(all, 1, e)[i] = SubSeq(det.line, 1, e)[i]
            BY <2>4, <4>2, <6>1, <6>2
          <6> QED BY <6>1, <6>2, <6>3, SeqEqual
        <5> QED BY <5>1, <5>2
      <4>4. LookedAt(counted) = SubSeq(det.line, 1, e)
        BY <2>6, <3>1, <4>1, <4>3 DEF LookedAt
      <4> QED BY <2>2, <4>4 DEF LineIsChecked, LookedAt, e
    <3>2. CASE Last(lines) # all
      <4>1. PICK m \in 1..Len(all) : all[m] = "\n" /\ Len(Last(lines)) = Len(all) - m
        BY <2>4, <3>2, LinesOfText DEF lines
      <4>2. m > Len(det.line)
        <5>1. m \notin 1..Len(det.line)
          BY <2>3, <2>4, <4>1
        <5> QED BY <2>3, <2>4, <5>1
      <4>3. Len(counted.line) - counted.since < 1 /\ Len(counted.line) - counted.since \in Int
        BY <2>2, <2>3, <2>4, <2>6, <4>1, <4>2
      <4>4. LookedAt(counted) = <<>>
        BY <4>3, SubSeqEmpty DEF LookedAt
      <4> QED BY <4>4, EmptyIsQuiet
    <3> QED BY <3>1, <3>2
  <2>8. InBudget(counted, t)
    BY <2>2, <2>6 DEF InBudget, Markers
  <2>9. observed \in Alike(counted)
    <3>1. Len(Front(lines)) \in Nat
      <4>1. Len(lines) - 1 \in Nat /\ Len(lines) - 1 <= Len(lines)
        BY <2>5
      <4> QED BY <2>5, <4>1, PieceIs DEF Front
    <3> QED BY <2>6, <3>1, LinesAreAlike
  <2> HIDE DEF observed
  <2>10. checked \in Sound(t)
    <3>1. CASE observed.detected
      BY <2>9, <3>1 DEF Alike, Sound
    <3>2. CASE ~observed.detected
      <4>1. observed \in Detectors /\ Same(observed, counted)
        BY <2>9, <3>2 DEF Alike
      <4>2. InBudget(observed, t)
        BY <2>8, <4>1 DEF InBudget, Markers, Same
      <4>3. ~Tandem(LookedAt(observed))
        BY <2>7, <4>1 DEF LookedAt, Same
      <4> QED BY <3>2, <4>1, <4>2, <4>3, CheckIsSound
    <3> QED BY <3>1, <3>2
  <2> HIDE DEF checked
  <2>11. Trip(checked, "page_char_limit") \in Sound(t)
    <3>1. checked \in Detectors
      BY <2>10 DEF Sound
    <3> QED BY <3>1, TripIsSound DEF Reasons
  <2> QED BY <2>1, <2>10, <2>11
<1> QED BY <1>1, <1>2

\* The last line of a page counts, or ends the generation.
LEMMA FinishIsSound ==
  ASSUME NEW t, NEW det \in Sound(t)
  PROVE  FinishLine(det) \in Sound(t)
<1>1. CASE det.detected
  BY <1>1 DEF FinishLine
<1>2. CASE ~det.detected
  <2>1. det \in Detectors
    BY DEF Sound
  <2>2. Observe(det, det.line) \in Alike(det)
    BY <2>1, ObserveIsAlike
  <2> QED BY <1>2, <2>2, AlikeIsSound DEF FinishLine
<1> QED BY <1>1, <1>2

\* A marker begins a new budget, or is one too many.
LEMMA StartIsSound ==
  ASSUME NEW t \in Nat, NEW det \in Sound(t)
  PROVE  StartPage(det) \in Sound(t)
<1> DEFINE page == IF det.sawMarker THEN det.page + 1 ELSE det.page
           flooded == [det EXCEPT !.page = page, !.sawMarker = TRUE]
           started == StartPage_Unlimited(det)
<1>1. det \in Detectors /\ page \in Nat
  BY DEF Sound, Detectors
<1>2. StartPage(det) = IF page + 1 > MaxMarkers THEN Trip(flooded, "page_flood") ELSE started
  BY DEF StartPage
<1>3. CASE page + 1 > MaxMarkers
  <2>1. flooded \in Detectors
    <3> HIDE DEF page
    <3> QED BY <1>1 DEF Detectors
  <2> HIDE DEF flooded
  <2> QED BY <1>2, <1>3, <2>1, TripIsSound DEF Reasons
<1>4. CASE ~(page + 1 > MaxMarkers)
  <2>1. started = [det EXCEPT !.page = page, !.sawMarker = TRUE, !.chars = 0, !.tokens = 0,
                              !.line = <<>>, !.since = 0, !.template = "none", !.repeats = 0]
    BY DEF StartPage_Unlimited
  <2>2. <<>> \in Seq(Letters) /\ Len(<<>>) = 0
    BY EmptySeq
  <2> HIDE DEF started
  <2>3. started \in Detectors
    <3> HIDE DEF page
    <3> QED BY <1>1, <2>1, <2>2 DEF Detectors
  <2>4. /\ started.page = page /\ started.sawMarker = TRUE /\ started.tokens = 0
        /\ started.line = <<>> /\ started.since = 0 /\ started.detected = det.detected
    <3> HIDE DEF page
    <3> QED BY <1>1, <2>1 DEF Detectors
  <2>5. CASE det.detected
    BY <1>2, <1>4, <2>3, <2>4, <2>5 DEF Sound
  <2>6. CASE ~det.detected
    <3>1. InBudget(det, t)
      BY <2>6 DEF Sound
    <3>2. /\ MaxPageTokens \in Nat /\ MaxMarkers \in Nat /\ CheckInterval \in Nat \ {0}
          /\ det.tokens \in Nat /\ det.page \in Nat /\ det.sawMarker \in BOOLEAN
      BY <1>1, RepetitionAssumption DEF Detectors
    <3> DEFINE k == Markers(det)
    <3>3. k \in Nat /\ page + 1 = k + 1 /\ page \in Nat
      BY <3>1, <3>2 DEF Markers, InBudget
    <3>4. k * MaxPageTokens \in Nat /\ (k + 1) * MaxPageTokens = k * MaxPageTokens + MaxPageTokens
      <4> HIDE DEF k
      <4> QED BY <3>2, <3>3
    <3>5. t <= k * MaxPageTokens + det.tokens /\ det.tokens <= MaxPageTokens
      BY <3>1 DEF InBudget
    <3>6. Markers(started) = k + 1
      BY <2>4, <3>3 DEF Markers
    <3> HIDE DEF k
    <3>7. t <= (k + 1) * MaxPageTokens + 0
      BY <3>2, <3>4, <3>5
    <3>8. k + 1 <= MaxMarkers
      BY <1>4, <3>2, <3>3
    <3>9. InBudget(started, t)
      BY <2>4, <3>2, <3>6, <3>7, <3>8 DEF InBudget
    <3>10. LineIsChecked(started)
      <4>1. LookedAt(started) = <<>>
        BY <2>2, <2>4, SubSeqEmpty DEF LookedAt
      <4> QED BY <2>4, <3>2, <4>1, EmptyIsQuiet DEF LineIsChecked
    <3> QED BY <1>2, <1>4, <2>3, <3>9, <3>10 DEF Sound
  <2> QED BY <2>5, <2>6
<1> QED BY <1>3, <1>4

\* So the next page is sound.
LEMMA NextPageIsSound ==
  ASSUME NEW t \in Nat, NEW det \in Sound(t), NEW content \in Seq(Symbols)
  PROVE  NextPage(det, content) \in Sound(t)
<1>1. StartPage(FinishLine(det)) \in Sound(t)
  BY FinishIsSound, StartIsSound
<1>2. Consume(StartPage(FinishLine(det)), content) \in Sound(t)
  BY <1>1, ConsumeIsSound
<1> QED BY <1>2 DEF NextPage

\* The pages of a delta are consumed one by one.
LEMMA PagesAreFed ==
  ASSUME NEW t \in Nat, NEW det \in Sound(t), NEW contents \in Seq(Seq(Symbols)),
         contents # <<>>
  PROVE  \E h : /\ h[1] = Consume(det, contents[1]) /\ FeedPages(det, contents) = h[Len(contents)]
                /\ \A i \in 2..Len(contents) : h[i] = NextPage(h[i - 1], contents[i])
<1> DEFINE n == Len(contents)
           S == Sound(t)
           first == Consume(det, contents[1])
           next(x, i) == NextPage(x, contents[i])
           Is(f) == f = [i \in 1..n |-> IF i = 1 THEN first ELSE next(f[i - 1], i)]
           step == [i \in 1..(n - 1) |-> [x \in S |-> next(x, i + 1)]]
<1>1. n \in Nat \ {0} /\ \A i \in 1..n : contents[i] \in Seq(Symbols)
  BY LenProperties
<1>2. first \in S /\ \A x \in S, i \in 1..n : next(x, i) \in S
  <2>1. contents[1] \in Seq(Symbols)
    BY <1>1
  <2> QED BY <1>1, <2>1, ConsumeIsSound, NextPageIsSound
<1>3. FeedPages(det, contents) = (CHOOSE f : Is(f))[n]
  BY Zenon DEF FeedPages
<1> HIDE DEF S, next, first, n
<1>4. \A i \in 1..(n - 1) : i + 1 \in 1..n
  BY <1>1
<1>5. step \in [1..(n - 1) -> [S -> S]] /\ n - 1 \in Nat
  BY <1>1, <1>2, <1>4
<1>6. PICK g \in [0..(n - 1) -> S] : Iterates(g, n - 1, first, step)
  <2> HIDE DEF step
  <2> QED BY <1>2, <1>5, IterationIsThere
<1> DEFINE h == [i \in 1..n |-> g[i - 1]]
<1>7. Is(h)
  <2>1. \A i \in 1..n : i - 1 \in 0..(n - 1) /\ (i # 1 => (i - 1 \in 1..(n - 1) /\ i - 1 \in 1..n))
    BY <1>1
  <2>2. h[1] = first
    BY <1>1, <1>6, <2>1 DEF Iterates
  <2>3. ASSUME NEW i \in 1..n, i # 1 PROVE h[i] = next(h[i - 1], i)
    <3>1. i - 1 \in 1..(n - 1) /\ (i - 1) - 1 \in 0..(n - 1) /\ i - 1 \in 1..n /\ (i - 1) + 1 = i
      BY <1>1, <2>3
    <3>2. g[i - 1] = step[i - 1][g[(i - 1) - 1]]
      <4> HIDE DEF step
      <4> QED BY <1>6, <3>1 DEF Iterates
    <3>3. g[(i - 1) - 1] \in S
      BY <3>1
    <3>4. step[i - 1][g[(i - 1) - 1]] = next(g[(i - 1) - 1], i)
      BY <3>1, <3>3
    <3>5. h[i] = g[i - 1] /\ h[i - 1] = g[(i - 1) - 1]
      BY <3>1
    <3> HIDE DEF h, step
    <3> QED BY <3>2, <3>4, <3>5
  <2>4. h = [i \in 1..n |-> h[i]]
    OBVIOUS
  <2> HIDE DEF h
  <2>5. \A i \in 1..n : h[i] = IF i = 1 THEN first ELSE next(h[i - 1], i)
    BY <2>2, <2>3
  <2> QED BY <2>4, <2>5
<1> DEFINE c == CHOOSE f : Is(f)
<1>8. Is(c)
  <2> HIDE DEF Is, h
  <2> QED BY <1>7, Zenon
<1> HIDE DEF c
<1>9. c[1] = first
  <2>1. 1 \in 1..n
    BY <1>1
  <2> QED BY <1>8, <2>1
<1>10. \A i \in 2..n : c[i] = next(c[i - 1], i)
  <2>1. \A i \in 2..n : i \in 1..n /\ i # 1
    BY <1>1
  <2> QED BY <1>8, <2>1
<1>11. FeedPages(det, contents) = c[n]
  BY <1>3 DEF c
<1> QED BY <1>9, <1>10, <1>11 DEF first, next, n

\* And so are all pages of a delta sound.
LEMMA PagesAreSound ==
  ASSUME NEW t \in Nat, NEW det \in Sound(t), NEW contents \in Seq(Seq(Symbols)),
         contents # <<>>
  PROVE  FeedPages(det, contents) \in Sound(t)
<1> DEFINE n == Len(contents)
           S == Sound(t)
<1>1. n \in Nat \ {0} /\ \A i \in 1..n : contents[i] \in Seq(Symbols)
  BY LenProperties
<1>2. PICK c : /\ c[1] = Consume(det, contents[1]) /\ FeedPages(det, contents) = c[n]
               /\ \A i \in 2..n : c[i] = NextPage(c[i - 1], contents[i])
  BY PagesAreFed
<1>3. c[1] \in S
  BY <1>1, <1>2, ConsumeIsSound
<1>4. \A x \in S, i \in 1..n : NextPage(x, contents[i]) \in S
  BY <1>1, NextPageIsSound
<1> HIDE DEF S, n
<1> DEFINE f == [i \in 0..(n - 1) |-> c[i + 1]]
<1>5. f[0] \in S /\ \A i \in 1..(n - 1) : f[i - 1] \in S => f[i] \in S
  <2>1. /\ 0 \in 0..(n - 1) /\ 0 + 1 = 1
        /\ \A i \in 1..(n - 1) : /\ i + 1 \in 2..n /\ i + 1 \in 1..n /\ (i + 1) - 1 = i
                                 /\ i \in 0..(n - 1) /\ i - 1 \in 0..(n - 1) /\ (i - 1) + 1 = i
    BY <1>1
  <2>2. f[0] = c[1] /\ \A i \in 1..(n - 1) : f[i] = c[i + 1] /\ f[i - 1] = c[i]
    BY <2>1
  <2>3. ASSUME NEW i \in 1..(n - 1), c[i] \in S PROVE c[i + 1] \in S
    <3>1. i + 1 \in 2..n /\ i + 1 \in 1..n /\ (i + 1) - 1 = i
      BY <2>1
    <3>2. c[i + 1] = NextPage(c[i], contents[i + 1])
      BY <1>2, <3>1
    <3> QED BY <1>4, <2>3, <3>1, <3>2
  <2> HIDE DEF f
  <2> QED BY <1>3, <2>2, <2>3
<1>6. n - 1 \in Nat /\ n - 1 \in 0..(n - 1) /\ (n - 1) + 1 = n
  BY <1>1
<1>7. \A i \in 0..(n - 1) : f[i] \in S
  <2> HIDE DEF f
  <2> QED BY <1>5, <1>6, StepByStep
<1>8. c[n] \in S
  BY <1>6, <1>7
<1> QED BY <1>2, <1>8 DEF S

\* The pages of a text: its pieces between the markers.
LEMMA PagesOfText ==
  ASSUME NEW s \in Seq(Symbols)
  PROVE  Pages(s) \in Seq(Seq(Symbols)) /\ Len(Pages(s)) \in Nat \ {0}
<1> DEFINE at == {i \in 1..(Len(s) - 1) : SubSeq(s, i, i + 1) = Marker}
<1>1. Len(s) \in Nat
  BY LenProperties
<1>2. \A i \in 1..(Len(s) - 1) : i \in 1..Len(s)
  BY <1>1
<1>3. at \in SUBSET (1..Len(s))
  BY <1>2
<1>4. Pages(s) = CutAt(s, at, 2)
  BY DEF Pages
<1> HIDE DEF at
<1>5. 2 \in Nat
  OBVIOUS
<1> QED BY <1>3, <1>4, <1>5, PiecesAreTexts

\* Whatever delta is fed, the detector stays sound.
LEMMA FeedIsSound ==
  ASSUME NEW t \in Nat, NEW det \in Sound(t), NEW delta \in Seq(Symbols)
  PROVE  Feed(det, delta) \in Sound(t)
<1>1. CASE det.detected
  BY <1>1 DEF Feed
<1>2. CASE ~det.detected
  <2> DEFINE data == (IF det.held THEN <<"<PA">> ELSE <<>>) \o delta
             pages == Pages(data)
             rest == Last(pages)
             hold == Held(rest)
             contents == Append(Front(pages), SubSeq(rest, 1, Len(rest) - hold))
             begun == [det EXCEPT !.held = FALSE]
             fed == FeedPages(begun, contents)
             waits == [fed EXCEPT !.held = (hold = 1)]
  <2>1. Feed(det, delta) = IF fed.detected THEN fed ELSE waits
    BY <1>2, Zenon DEF Feed
  <2>2. data \in Seq(Symbols)
    <3>1. "<PA" \in Symbols
      BY DEF Symbols
    <3> QED BY <3>1
  <2> HIDE DEF data
  <2>3. pages \in Seq(Seq(Symbols)) /\ Len(pages) \in Nat \ {0}
    BY <2>2, PagesOfText
  <2> HIDE DEF pages
  <2>4. rest \in Seq(Symbols)
    <3>1. Len(pages) \in 1..Len(pages)
      BY <2>3
    <3> QED BY <2>3, <3>1, LenProperties DEF Last
  <2>5. hold \in {0, 1}
    BY DEF Held
  <2> HIDE DEF rest, hold
  <2>6. Front(pages) \in Seq(Seq(Symbols))
    <3>1. Len(pages) - 1 \in Nat /\ Len(pages) - 1 <= Len(pages)
      BY <2>3
    <3> QED BY <2>3, <3>1, PieceIs DEF Front
  <2>7. SubSeq(rest, 1, Len(rest) - hold) \in Seq(Symbols)
    <3>1. Len(rest) \in Nat
      BY <2>4, LenProperties
    <3>2. Len(rest) - hold \in Int /\ Len(rest) - hold <= Len(rest) /\ 1 \in Nat \ {0}
      BY <2>5, <3>1
    <3> QED BY <2>4, <3>2, PieceIsText
  <2>8. contents \in Seq(Seq(Symbols)) /\ contents # <<>>
    <3> HIDE DEF Symbols
    <3>1. contents \in Seq(Seq(Symbols)) /\ Len(contents) = Len(Front(pages)) + 1
      BY <2>6, <2>7, AppendProperties
    <3>2. Len(Front(pages)) \in Nat /\ Len(<<>>) = 0
      BY <2>6, LenProperties, EmptySeq
    <3> HIDE DEF contents
    <3>3. Len(contents) # Len(<<>>)
      BY <3>1, <3>2
    <3>4. contents # <<>>
      BY <3>3, Zenon
    <3> QED BY <3>1, <3>4
  <2> HIDE DEF contents
  <2>9. begun \in Sound(t)
    <3>1. begun \in Detectors /\ Same(begun, det)
      BY DEF Sound, Detectors, Same
    <3> HIDE DEF begun
    <3> QED BY <1>2, <3>1, AlikeIsSound DEF Alike
  <2> HIDE DEF begun
  <2>10. fed \in Sound(t)
    BY <2>8, <2>9, PagesAreSound
  <2> HIDE DEF fed
  <2>11. CASE ~fed.detected
    <3>1. waits \in Detectors /\ Same(waits, fed)
      BY <2>10 DEF Sound, Detectors, Same
    <3> HIDE DEF waits
    <3>2. waits \in Sound(t)
      BY <2>10, <2>11, <3>1, AlikeIsSound DEF Alike
    <3> QED BY <2>1, <2>11, <3>2
  <2>12. CASE fed.detected
    BY <2>1, <2>10, <2>12
  <2> QED BY <2>11, <2>12
<1> QED BY <1>1, <1>2

\* The tokens count for the budget of the page, or exceed it.
LEMMA TokensAreSound ==
  ASSUME NEW t \in Nat, NEW det \in Sound(t), NEW n \in Nat
  PROVE  FeedTokens(det, n) \in Sound(t + n)
<1> DEFINE counted == [det EXCEPT !.tokens = @ + n]
<1>1. det \in Detectors /\ det.tokens \in Nat
  BY DEF Sound, Detectors
<1>2. CASE det.detected
  BY <1>1, <1>2 DEF FeedTokens, Sound
<1>3. CASE ~det.detected
  <2>1. FeedTokens(det, n) = IF counted.tokens > MaxPageTokens
                             THEN Trip(counted, "page_token_limit") ELSE counted
    BY <1>3 DEF FeedTokens
  <2>2. counted \in Detectors
    BY <1>1 DEF Detectors
  <2>3. /\ counted.page = det.page /\ counted.sawMarker = det.sawMarker
        /\ counted.tokens = det.tokens + n /\ counted.line = det.line
        /\ counted.since = det.since
    BY <1>1 DEF Detectors
  <2> HIDE DEF counted
  <2>4. CASE counted.tokens > MaxPageTokens
    BY <2>1, <2>2, <2>4, TripIsSound DEF Reasons
  <2>5. CASE ~(counted.tokens > MaxPageTokens)
    <3>1. InBudget(det, t) /\ LineIsChecked(det)
      BY <1>3 DEF Sound
    <3>2. LineIsChecked(counted)
      BY <2>3, <3>1 DEF LineIsChecked, LookedAt
    <3>3. Markers(counted) = Markers(det) /\ counted.tokens = det.tokens + n
      BY <2>3 DEF Markers
    <3>4. MaxPageTokens \in Nat /\ Markers(det) \in Nat
      BY <1>1, RepetitionAssumption DEF Markers, Detectors
    <3> DEFINE spent == Markers(det) * MaxPageTokens
    <3>5. spent \in Nat
      BY <3>4
    <3>6. t <= spent + det.tokens
      BY <3>1 DEF InBudget
    <3> HIDE DEF spent
    <3>7. t + n <= spent + counted.tokens /\ counted.tokens <= MaxPageTokens
      BY <1>1, <2>3, <2>5, <3>4, <3>5, <3>6
    <3>8. InBudget(counted, t + n)
      BY <2>3, <3>1, <3>3, <3>7 DEF InBudget, spent
    <3> QED BY <2>1, <2>2, <2>5, <3>2, <3>8 DEF Sound
  <2> QED BY <2>4, <2>5
<1> QED BY <1>2, <1>3

\* The end of the stream: the look at the last line is forced.
LEMMA EndIsSound ==
  ASSUME NEW t, NEW det \in Sound(t), ~det.detected
  PROVE  EndOfStream(det) \in Sound(t)
<1> DEFINE rest == IF det.held THEN <<"<PA">> ELSE <<>>
           begun == [det EXCEPT !.held = FALSE]
           last == FinishLine(Consume(begun, rest))
<1>1. EndOfStream(det) = CheckRolling(last, TRUE)
  BY DEF EndOfStream
<1>2. rest \in Seq(Symbols)
  <2>1. "<PA" \in Symbols
    BY DEF Symbols
  <2> QED BY <2>1
<1> HIDE DEF rest
<1>3. begun \in Sound(t)
  <2>1. begun \in Detectors /\ Same(begun, det)
    BY DEF Sound, Detectors, Same
  <2> HIDE DEF begun
  <2> QED BY <2>1, AlikeIsSound DEF Alike
<1> HIDE DEF begun
<1>4. last \in Sound(t)
  BY <1>2, <1>3, ConsumeIsSound, FinishIsSound
<1> HIDE DEF last
<1>5. CASE last.detected
  BY <1>1, <1>4, <1>5 DEF CheckRolling
<1>6. CASE ~last.detected
  <2>1. last \in Detectors /\ InBudget(last, t) /\ ~Tandem(LookedAt(last))
    BY <1>4, <1>6 DEF Sound, LineIsChecked
  <2> QED BY <1>1, <1>6, <2>1, CheckIsSound
<1> QED BY <1>5, <1>6

-----------------------------------------------------------------------------
\* The specification.

\* The detector is sound at first.
LEMMA InvInit == Init => Inv
<1> SUFFICES ASSUME Init PROVE Inv
  OBVIOUS
<1>1. /\ <<>> \in Seq(Letters) /\ Len(<<>>) = 0
      /\ MaxPageTokens \in Nat \ {0} /\ MaxMarkers \in Nat \ {0}
      /\ CheckInterval \in Nat \ {0} /\ Block \in Nat \ {0}
  BY EmptySeq, RepetitionAssumption
<1>2. total = 0 /\ ~d.detected
  BY DEF Init
<1>3. d \in Detectors
  BY <1>1 DEF Init, Detectors
<1>4. InBudget(d, total)
  <2>1. Markers(d) = 0 /\ d.tokens = 0 /\ d.page = 0
    BY DEF Init, Markers
  <2> QED BY <1>1, <1>2, <2>1 DEF InBudget
<1>5. LineIsChecked(d)
  <2>1. d.since = 0 /\ d.line = <<>>
    BY DEF Init
  <2>2. LookedAt(d) = <<>>
    BY <1>1, <2>1, SubSeqEmpty DEF LookedAt
  <2> QED BY <1>1, <2>1, <2>2, EmptyIsQuiet DEF LineIsChecked
<1>6. 0 <= Limit
  <2>1. (MaxMarkers + 1) * MaxPageTokens \in Nat
    BY <1>1
  <2> QED BY <2>1 DEF Limit
<1>7. d \in Sound(total)
  BY <1>3, <1>4, <1>5 DEF Sound
<1>8. total \in Nat /\ total <= Limit + (IF d.detected THEN Block ELSE 0)
  <2>1. Limit \in Nat
    BY <1>1 DEF Limit
  <2> QED BY <1>1, <1>2, <1>6, <2>1
<1> QED BY <1>7, <1>8 DEF Inv

\* Who is in budget generated no more than the budgets of all pages.
LEMMA BudgetIsLimited ==
  ASSUME NEW t \in Nat, NEW det \in Sound(t), ~det.detected
  PROVE  t <= Limit
<1>1. det \in Detectors /\ InBudget(det, t)
  BY DEF Sound
<1>2. /\ MaxPageTokens \in Nat /\ MaxMarkers \in Nat /\ det.tokens \in Nat
      /\ Markers(det) \in Nat
  BY <1>1, RepetitionAssumption DEF Markers, Detectors
<1>3. /\ Markers(det) <= MaxMarkers /\ det.tokens <= MaxPageTokens
      /\ t <= Markers(det) * MaxPageTokens + det.tokens
  BY <1>1 DEF InBudget
<1>4. /\ Markers(det) * MaxPageTokens \in Nat /\ MaxMarkers * MaxPageTokens \in Nat
      /\ Markers(det) * MaxPageTokens <= MaxMarkers * MaxPageTokens
  BY <1>2, <1>3, ProductsGrow
<1>5. Limit = MaxMarkers * MaxPageTokens + MaxPageTokens
  BY <1>2 DEF Limit
<1> QED BY <1>2, <1>3, <1>4, <1>5

\* A put and the end of the stream keep it sound.
LEMMA InvStep == Inv /\ [Next]_vars => Inv'
<1> SUFFICES ASSUME Inv, [Next]_vars PROVE Inv'
  OBVIOUS
<1>1. total \in Nat /\ d \in Sound(total) /\ Block \in Nat /\ Limit \in Nat
  BY RepetitionAssumption DEF Inv, Limit
<1>2. CASE Put
  <2>0. PICK n \in 1..Block, k \in 0..Block :
          /\ \E delta \in [1..k -> Symbols] : d' = FeedTokens(Feed(d, delta), n)
          /\ total' = total + n
    BY <1>2 DEF Put
  <2>1. PICK delta \in [1..k -> Symbols] :
          d' = FeedTokens(Feed(d, delta), n) /\ total' = total + n
    BY <2>0
  <2>2. n \in Nat /\ n <= Block /\ delta \in Seq(Symbols)
    <3>1. n \in Nat /\ n <= Block /\ k \in Nat
      BY <1>1
    <3> QED BY <3>1
  <2>3. d' \in Sound(total + n)
    BY <1>1, <2>1, <2>2, FeedIsSound, TokensAreSound
  <2>4. total <= Limit
    BY <1>1, <1>2, BudgetIsLimited DEF Put
  <2>5. CASE d'.detected
    BY <1>1, <2>1, <2>2, <2>3, <2>4, <2>5 DEF Inv
  <2>6. CASE ~d'.detected
    <3>1. total + n \in Nat
      BY <1>1, <2>2
    <3>2. total + n <= Limit
      BY <2>3, <2>6, <3>1, BudgetIsLimited
    <3> QED BY <2>1, <2>3, <2>6, <3>1, <3>2, <1>1 DEF Inv
  <2> QED BY <2>5, <2>6
<1>3. CASE End
  <2>1. d' \in Sound(total) /\ total' = total
    BY <1>1, <1>3, EndIsSound DEF End
  <2>2. total <= Limit
    BY <1>1, <1>3, BudgetIsLimited DEF End
  <2>3. total <= Limit + (IF d'.detected THEN Block ELSE 0)
    BY <1>1, <2>2
  <2> QED BY <1>1, <2>1, <2>3 DEF Inv
<1>4. CASE UNCHANGED vars
  BY <1>4 DEF vars, Inv
<1> QED BY <1>2, <1>3, <1>4 DEF Next

\* The detector is sound in every state.
THEOREM DetectorIsSound == Spec => []Inv
BY InvInit, InvStep, PTL DEF Spec

\* The model is stopped whatever it writes: all pages together get the budgets of as many
\* pages as can be, one more for the first, and the tokens of the put that was too many.
THEOREM GenerationStops == Spec => []GenerationIsBounded
<1>1. Inv => GenerationIsBounded
  <2> SUFFICES ASSUME Inv PROVE GenerationIsBounded
    OBVIOUS
  <2>1. Limit \in Nat /\ Block \in Nat /\ total \in Nat
    BY RepetitionAssumption DEF Inv, Limit
  <2>2. total <= Limit + Block
    BY <2>1 DEF Inv
  <2> QED BY <2>2 DEF GenerationIsBounded, Limit
<1> QED BY <1>1, DetectorIsSound, PTL

\* An unfinished line that goes on repeating itself is cut off: while nothing is detected,
\* no unit repeats for longer than the check asks for, what comes in between two looks, and
\* the unit itself.
THEOREM LoopsAreCutOff == Spec => []LoopsAreCaught
<1>1. Inv => LoopsAreCaught
  <2> SUFFICES ASSUME Inv, ~d.detected, NEW u \in 1..MaxUnit
               PROVE  Repetitions(d.line, u) * u
                        < Max({MinRepeats * u, MinSpan}) + CheckInterval - 1 + u
    BY Zenon DEF LoopsAreCaught
  <2>1. /\ d.line \in Seq(Letters) /\ d.since \in Nat /\ d.since < CheckInterval
        /\ ~Tandem(SubSeq(d.line, 1, Len(d.line) - d.since))
    BY DEF Inv, Sound, Detectors, LineIsChecked, LookedAt
  <2>2. /\ u \in Nat \ {0} /\ MinRepeats * u \in Nat /\ MinSpan \in Nat
        /\ CheckInterval \in Nat
    BY RepetitionAssumption
  <2> DEFINE both == {MinRepeats * u, MinSpan}
  <2>3. Max(both) \in Nat /\ MinRepeats * u <= Max(both) /\ MinSpan <= Max(both)
    <3> DEFINE a == MinRepeats * u
    <3>1. a \in Nat
      BY <2>2
    <3> HIDE DEF a
    <3>2. a + MinSpan \in Nat /\ {a, MinSpan} \in SUBSET (0..(a + MinSpan))
      BY <2>2, <3>1
    <3>3. Max({a, MinSpan}) \in {a, MinSpan} /\ \A y \in {a, MinSpan} : y <= Max({a, MinSpan})
      BY <3>2, MaxIsGreatest
    <3> QED BY <2>2, <3>1, <3>3 DEF a
  <2> HIDE DEF both
  <2>4. Repetitions(d.line, u) * u < Max(both) + d.since + u
    BY <2>1, <2>3, LoopIsShort
  <2>5. Repetitions(d.line, u) \in Nat
    <3>1. Repetitions(d.line, u) \in {0} \cup (1..Len(d.line)) /\ Len(d.line) \in Nat
      BY <2>1, <2>2, RepetitionsAreMost, LenProperties
    <3> QED BY <3>1
  <2>6. Repetitions(d.line, u) * u \in Nat
    BY <2>2, <2>5
  <2> QED BY <2>1, <2>2, <2>3, <2>4, <2>6 DEF both
<1> QED BY <1>1, DetectorIsSound, PTL

-----------------------------------------------------------------------------
\* Texts that are cut and joined.

\* The piece of a text from its symbol a to its symbol b.
LEMMA PieceHas ==
  ASSUME NEW S, NEW s \in Seq(S), NEW a \in Nat \ {0}, NEW b \in Int, b <= Len(s)
  PROVE  /\ SubSeq(s, a, b) \in Seq(S)
         /\ Len(SubSeq(s, a, b)) = IF a <= b THEN b - a + 1 ELSE 0
         /\ \A i \in 1..(b - a + 1) : SubSeq(s, a, b)[i] = s[a + i - 1]
<1>1. \A i \in a..b : i \in 1..Len(s)
  BY LenProperties
<1>2. \A i \in a..b : s[i] \in S
  BY <1>1, LenProperties
<1>3. a \in Int
  OBVIOUS
<1> QED BY <1>2, <1>3, SubSeqProperties

\* A piece of a text that is continued.
LEMMA PieceBefore ==
  ASSUME NEW S, NEW s \in Seq(S), NEW t \in Seq(S), NEW a \in Nat \ {0}, NEW b \in Int,
         b <= Len(s)
  PROVE  SubSeq(s \o t, a, b) = SubSeq(s, a, b)
<1> DEFINE u == s \o t
<1>1. Len(s) \in Nat /\ Len(t) \in Nat
  BY LenProperties
<1>2. /\ u \in Seq(S) /\ Len(u) = Len(s) + Len(t)
      /\ \A i \in 1..(Len(s) + Len(t)) : u[i] = IF i <= Len(s) THEN s[i] ELSE t[i - Len(s)]
  BY ConcatProperties
<1> HIDE DEF u
<1>3. b <= Len(u)
  BY <1>1, <1>2
<1>4. /\ SubSeq(u, a, b) \in Seq(S) /\ SubSeq(s, a, b) \in Seq(S)
      /\ Len(SubSeq(u, a, b)) = Len(SubSeq(s, a, b))
      /\ Len(SubSeq(s, a, b)) = IF a <= b THEN b - a + 1 ELSE 0
      /\ \A i \in 1..(b - a + 1) : SubSeq(s, a, b)[i] = s[a + i - 1]
      /\ \A i \in 1..(b - a + 1) : SubSeq(u, a, b)[i] = u[a + i - 1]
  BY <1>2, <1>3, PieceHas
<1>5. ASSUME NEW i \in 1..Len(SubSeq(u, a, b)) PROVE SubSeq(u, a, b)[i] = SubSeq(s, a, b)[i]
  <2>1. i \in 1..(b - a + 1) /\ a + i - 1 \in 1..(Len(s) + Len(t)) /\ a + i - 1 <= Len(s)
    BY <1>1, <1>4
  <2>2. u[a + i - 1] = s[a + i - 1]
    BY <1>2, <2>1
  <2> QED BY <1>4, <2>1, <2>2
<1>6. SubSeq(u, a, b) = SubSeq(s, a, b)
  BY <1>4, <1>5, SeqEqual
<1> QED BY <1>6 DEF u

\* A piece of the continuation.
LEMMA PieceAfter ==
  ASSUME NEW S, NEW s \in Seq(S), NEW t \in Seq(S), NEW a \in Nat \ {0}, NEW b \in Int,
         b <= Len(t)
  PROVE  SubSeq(s \o t, Len(s) + a, Len(s) + b) = SubSeq(t, a, b)
<1> DEFINE u == s \o t
           f == Len(s) + a
           l == Len(s) + b
<1>1. Len(s) \in Nat /\ Len(t) \in Nat
  BY LenProperties
<1>2. /\ u \in Seq(S) /\ Len(u) = Len(s) + Len(t)
      /\ \A i \in 1..(Len(s) + Len(t)) : u[i] = IF i <= Len(s) THEN s[i] ELSE t[i - Len(s)]
  BY ConcatProperties
<1>3. f \in Nat \ {0} /\ l \in Int /\ l <= Len(s) + Len(t) /\ l - f = b - a
      /\ (f <= l <=> a <= b)
  BY <1>1
<1> HIDE DEF u
<1>4. /\ SubSeq(t, a, b) \in Seq(S)
      /\ Len(SubSeq(t, a, b)) = IF a <= b THEN b - a + 1 ELSE 0
      /\ \A i \in 1..(b - a + 1) : SubSeq(t, a, b)[i] = t[a + i - 1]
  BY PieceHas
<1>5. /\ SubSeq(u, f, l) \in Seq(S)
      /\ Len(SubSeq(u, f, l)) = IF f <= l THEN l - f + 1 ELSE 0
      /\ \A i \in 1..(l - f + 1) : SubSeq(u, f, l)[i] = u[f + i - 1]
  <2> HIDE DEF f, l
  <2> QED BY <1>2, <1>3, PieceHas
<1>6. Len(SubSeq(u, f, l)) = Len(SubSeq(t, a, b))
  <2> HIDE DEF f, l
  <2> QED BY <1>3, <1>4, <1>5
<1>7. ASSUME NEW i \in 1..Len(SubSeq(u, f, l)) PROVE SubSeq(u, f, l)[i] = SubSeq(t, a, b)[i]
  <2>1. i \in 1..(b - a + 1) /\ i \in 1..(l - f + 1)
    <3> HIDE DEF f, l
    <3> QED BY <1>1, <1>3, <1>5
  <2> DEFINE j == f + i - 1
  <2>2. /\ j \in 1..(Len(s) + Len(t)) /\ ~(j <= Len(s)) /\ j - Len(s) = a + i - 1
    BY <1>1, <2>1
  <2>3. SubSeq(u, f, l)[i] = u[j]
    <3> HIDE DEF f, l
    <3> QED BY <1>5, <2>1
  <2>4. SubSeq(t, a, b)[i] = t[a + i - 1]
    BY <1>4, <2>1
  <2> HIDE DEF f, l, j
  <2>5. u[j] = t[j - Len(s)]
    BY <1>2, <2>2
  <2> QED BY <2>2, <2>3, <2>4, <2>5
<1>8. SubSeq(u, f, l) = SubSeq(t, a, b)
  <2> HIDE DEF f, l
  <2> QED BY <1>4, <1>5, <1>6, <1>7, SeqEqual
<1> QED BY <1>8 DEF u

\* A piece that reaches into the continuation.
LEMMA PieceAcross ==
  ASSUME NEW S, NEW s \in Seq(S), NEW t \in Seq(S), NEW a \in 1..(Len(s) + 1),
         NEW b \in 0..Len(t)
  PROVE  SubSeq(s \o t, a, Len(s) + b) = SubSeq(s, a, Len(s)) \o SubSeq(t, 1, b)
<1> DEFINE u == s \o t
           l == Len(s) + b
           x == SubSeq(s, a, Len(s))
           y == SubSeq(t, 1, b)
           z == SubSeq(u, a, l)
<1>1. Len(s) \in Nat /\ Len(t) \in Nat
  BY LenProperties
<1>2. /\ u \in Seq(S) /\ Len(u) = Len(s) + Len(t)
      /\ \A i \in 1..(Len(s) + Len(t)) : u[i] = IF i <= Len(s) THEN s[i] ELSE t[i - Len(s)]
  BY ConcatProperties
<1> HIDE DEF u
<1>3. a \in Nat \ {0} /\ l \in Nat /\ l <= Len(u) /\ b \in Nat /\ 1 \in Nat \ {0}
  BY <1>1, <1>2
<1>4. /\ x \in Seq(S) /\ Len(x) = IF a <= Len(s) THEN Len(s) - a + 1 ELSE 0
      /\ \A i \in 1..(Len(s) - a + 1) : x[i] = s[a + i - 1]
  BY <1>1, <1>3, PieceHas
<1>5. /\ y \in Seq(S) /\ Len(y) = IF 1 <= b THEN b - 1 + 1 ELSE 0
      /\ \A i \in 1..(b - 1 + 1) : y[i] = t[1 + i - 1]
  BY <1>1, <1>3, PieceHas
<1>6. /\ z \in Seq(S) /\ Len(z) = IF a <= l THEN l - a + 1 ELSE 0
      /\ \A i \in 1..(l - a + 1) : z[i] = u[a + i - 1]
  <2> HIDE DEF l
  <2> QED BY <1>2, <1>3, PieceHas
<1> HIDE DEF x, y, z
<1>7. Len(x) = Len(s) - a + 1 /\ Len(y) = b /\ Len(z) = Len(s) + b - a + 1
  <2>1. a <= Len(s) + 1 /\ b >= 0 /\ a \in Int /\ b \in Int
    BY <1>1
  <2>2. Len(x) = Len(s) - a + 1
    BY <1>1, <1>4, <2>1
  <2>3. Len(y) = b
    BY <1>5, <2>1
  <2>4. Len(z) = l - a + 1
    BY <1>1, <1>6, <2>1
  <2> QED BY <1>1, <2>1, <2>2, <2>3, <2>4
<1>8. /\ x \o y \in Seq(S) /\ Len(x \o y) = Len(x) + Len(y)
      /\ \A i \in 1..(Len(x) + Len(y)) : (x \o y)[i] = IF i <= Len(x) THEN x[i] ELSE y[i - Len(x)]
  BY <1>4, <1>5, ConcatProperties
<1>9. ASSUME NEW i \in 1..Len(z) PROVE z[i] = (x \o y)[i]
  <2>1. i \in 1..(l - a + 1) /\ i \in 1..(Len(x) + Len(y)) /\ a + i - 1 \in 1..(Len(s) + Len(t))
    BY <1>1, <1>3, <1>7
  <2>2. z[i] = u[a + i - 1]
    BY <1>6, <2>1
  <2>3. CASE i <= Len(x)
    <3>1. a + i - 1 <= Len(s) /\ i \in 1..(Len(s) - a + 1)
      BY <1>1, <1>7, <2>3
    <3>2. u[a + i - 1] = s[a + i - 1]
      BY <1>2, <2>1, <3>1
    <3>3. (x \o y)[i] = x[i]
      BY <1>8, <2>1, <2>3
    <3>4. x[i] = s[a + i - 1]
      BY <1>4, <3>1
    <3> QED BY <2>2, <3>2, <3>3, <3>4
  <2>4. CASE ~(i <= Len(x))
    <3> DEFINE j == i - Len(x)
    <3>1. ~(a + i - 1 <= Len(s)) /\ j \in 1..(b - 1 + 1) /\ a + i - 1 - Len(s) = 1 + j - 1
      BY <1>1, <1>3, <1>7, <2>1, <2>4
    <3>2. (x \o y)[i] = y[j]
      BY <1>8, <2>1, <2>4
    <3>3. u[a + i - 1] = t[a + i - 1 - Len(s)]
      <4> DEFINE q == a + i - 1
      <4>1. q \in 1..(Len(s) + Len(t)) /\ ~(q <= Len(s))
        BY <2>1, <3>1
      <4> HIDE DEF q
      <4>2. u[q] = t[q - Len(s)]
        BY <1>2, <4>1
      <4> QED BY <4>2 DEF q
    <3> HIDE DEF j
    <3>4. y[j] = t[1 + j - 1]
      BY <1>5, <3>1
    <3> QED BY <2>2, <3>1, <3>2, <3>3, <3>4
  <2> QED BY <2>3, <2>4
<1>10. Len(z) = Len(x \o y)
  BY <1>1, <1>7, <1>8
<1>11. z = x \o y
  BY <1>6, <1>8, <1>9, <1>10, SeqEqual
<1> QED BY <1>11 DEF u, x, y, z

-----------------------------------------------------------------------------
\* The places of a text and those of its continuation.
Shifted(m, B) == {m + b : b \in B}
Places(m, A, B) == A \cup Shifted(m, B)

\* They are as many as both together.
LEMMA PlacesCount ==
  ASSUME NEW m \in Nat, NEW k \in Nat, NEW A \in SUBSET (1..m), NEW B \in SUBSET (1..k)
  PROVE  /\ Places(m, A, B) \in SUBSET (1..(m + k)) /\ IsFiniteSet(Places(m, A, B))
         /\ Cardinality(A) \in Nat /\ Cardinality(B) \in Nat
         /\ Cardinality(Places(m, A, B)) = Cardinality(A) + Cardinality(B)
<1> DEFINE D == Shifted(m, B)
<1>1. IsFiniteSet(A) /\ IsFiniteSet(B)
  <2>1. IsFiniteSet(1..m) /\ IsFiniteSet(1..k)
    BY FS_Interval
  <2> QED BY <2>1, FS_Subset
<1>2. Cardinality(A) \in Nat /\ Cardinality(B) \in Nat
  BY <1>1, FS_CardinalityType
<1>3. IsFiniteSet(D) /\ Cardinality(D) = Cardinality(B)
  <2> DEFINE f == [b \in B |-> m + b]
  <2>1. f \in [B -> D] /\ \A b \in B : b \in Int
    BY DEF Shifted
  <2>2. \A x \in B, y \in B : f[x] = f[y] => x = y
    BY <2>1
  <2>3. \A y \in D : \E x \in B : f[x] = y
    BY DEF Shifted
  <2> HIDE DEF D
  <2>4. f \in Bijection(B, D)
    <3> HIDE DEF f
    <3> QED BY <2>1, <2>2, <2>3 DEF Bijection, Injection, Surjection, IsInjective
  <2>5. ExistsBijection(B, D)
    BY <2>4 DEF ExistsBijection
  <2> QED BY <1>1, <2>5, FS_Bijection
<1>4. A \cap D = {} /\ D \subseteq 1..(m + k) /\ A \subseteq 1..(m + k)
  BY DEF Shifted
<1> HIDE DEF D
<1>5. Cardinality({}) = 0
  BY FS_EmptySet
<1>6. IsFiniteSet(A \cup D)
      /\ Cardinality(A \cup D) = Cardinality(A) + Cardinality(D) - Cardinality(A \cap D)
  BY <1>1, <1>3, FS_Union
<1>7. Cardinality(A \cup D) = Cardinality(A) + Cardinality(B)
  <2>1. Cardinality(A \cap D) = 0
    BY <1>4, <1>5
  <2> QED BY <1>2, <1>3, <1>6, <2>1
<1> QED BY <1>2, <1>4, <1>6, <1>7 DEF Places, D

\* And those of the text come first.
LEMMA PlacesJoin ==
  ASSUME NEW m \in Nat, NEW k \in Nat, NEW A \in SUBSET (1..m), NEW B \in SUBSET (1..k)
  PROVE  /\ \A i \in 1..Cardinality(A) : Nth(Places(m, A, B), i) = Nth(A, i)
         /\ \A i \in 1..Cardinality(B) :
              Nth(Places(m, A, B), Cardinality(A) + i) = m + Nth(B, i)
<1> DEFINE C == Places(m, A, B)
           a == Cardinality(A)
           b == Cardinality(B)
<1>1. /\ C \in SUBSET (1..(m + k)) /\ IsFiniteSet(C) /\ Cardinality(C) = a + b
      /\ a \in Nat /\ b \in Nat
  BY PlacesCount
<1>2. C \in SUBSET Nat /\ A \in SUBSET Nat /\ B \in SUBSET Nat
  BY <1>1
<1>3. IsFiniteSet(A) /\ IsFiniteSet(B)
  <2>1. IsFiniteSet(1..m) /\ IsFiniteSet(1..k)
    BY FS_Interval
  <2> QED BY <2>1, FS_Subset
<1>4. ASSUME NEW e \in A PROVE Rank(C, e) = Rank(A, e)
  <2>1. {x \in C : x <= e} = {x \in A : x <= e}
    BY DEF Places, Shifted
  <2> QED BY <2>1 DEF Rank
<1>5. ASSUME NEW e \in B PROVE Rank(C, m + e) = a + Rank(B, e)
  <2> DEFINE E == {x \in B : x <= e}
  <2>1. {x \in C : x <= m + e} = Places(m, A, E)
    <3>1. \A x \in A : x <= m + e
      OBVIOUS
    <3>2. \A x \in B : m + x <= m + e <=> x <= e
      BY <1>2
    <3> QED BY <3>1, <3>2 DEF Places, Shifted
  <2>2. E \in SUBSET (1..k)
    OBVIOUS
  <2> HIDE DEF E
  <2>3. Cardinality(Places(m, A, E)) = a + Cardinality(E)
    BY <2>2, PlacesCount
  <2> QED BY <2>1, <2>3 DEF Rank, E
<1>6. ASSUME NEW e \in C PROVE Nth(C, Rank(C, e)) = e
  <2>1. Rank(C, e) \in 1..Cardinality(C)
    BY <1>1, <1>2, RanksAreNumbers
  <2>2. Nth(C, Rank(C, e)) \in C /\ Rank(C, Nth(C, Rank(C, e))) = Rank(C, e)
    BY <1>1, <1>2, <2>1, RanksAreNumbers
  <2> QED BY <1>1, <1>2, <2>2, RanksAreNumbers
<1>7. ASSUME NEW i \in 1..a PROVE Nth(C, i) = Nth(A, i)
  <2>1. Nth(A, i) \in A /\ Rank(A, Nth(A, i)) = i
    BY <1>2, <1>3, RanksAreNumbers
  <2>2. Nth(A, i) \in C
    BY <2>1 DEF Places
  <2>3. Rank(C, Nth(A, i)) = i
    BY <1>4, <2>1
  <2> QED BY <1>6, <2>2, <2>3
<1>8. ASSUME NEW i \in 1..b PROVE Nth(C, a + i) = m + Nth(B, i)
  <2>1. Nth(B, i) \in B /\ Rank(B, Nth(B, i)) = i
    BY <1>2, <1>3, RanksAreNumbers
  <2>2. m + Nth(B, i) \in C
    BY <2>1 DEF Places, Shifted
  <2>3. Rank(C, m + Nth(B, i)) = a + i
    BY <1>5, <2>1
  <2> QED BY <1>6, <2>2, <2>3
<1> QED BY <1>7, <1>8

-----------------------------------------------------------------------------
\* The pieces of a cut text, by the places.
From(at, n, i) == IF i = 1 THEN 1 ELSE Nth(at, i - 1) + n
Until(s, at, i) == IF i = Cardinality(at) + 1 THEN Len(s) ELSE Nth(at, i) - 1

\* The pieces of a text, each with where it begins and ends.
LEMMA PiecesAre ==
  ASSUME NEW S, NEW s \in Seq(S), NEW at \in SUBSET (1..Len(s)), NEW n \in Nat
  PROVE  /\ CutAt(s, at, n) \in Seq(Seq(S)) /\ Len(CutAt(s, at, n)) = Cardinality(at) + 1
         /\ \A i \in 1..(Cardinality(at) + 1) :
              CutAt(s, at, n)[i] = SubSeq(s, From(at, n, i), Until(s, at, i))
<1> DEFINE last == Cardinality(at) + 1
           p == CutAt(s, at, n)
<1>1. p = [i \in 1..last |-> SubSeq(s, IF i = 1 THEN 1 ELSE Nth(at, i - 1) + n,
                               IF i = last THEN Len(s) ELSE Nth(at, i) - 1)]
  BY DEF CutAt
<1>2. DOMAIN p = 1..last /\ \A i \in 1..last : p[i] = SubSeq(s, From(at, n, i), Until(s, at, i))
  BY <1>1 DEF From, Until
<1>3. p \in Seq(Seq(S))
  BY PiecesAreTexts
<1>4. Cardinality(at) \in Nat
  <2>1. Len(s) \in Nat
    BY LenProperties
  <2>2. IsFiniteSet(1..Len(s))
    BY <2>1, FS_Interval
  <2> QED BY <2>2, FS_Subset, FS_CardinalityType
<1> HIDE DEF p
<1>5. Len(p) \in Nat /\ DOMAIN p = 1..Len(p)
  BY <1>3, LenProperties
<1>6. last \in Nat
  BY <1>4
<1> HIDE DEF last
<1>7. Len(p) = last
  <2> DEFINE h == Len(p)
  <2>1. 1..h = 1..last /\ h \in Nat
    BY <1>2, <1>5
  <2> HIDE DEF h
  <2>2. h # 0 => h \in 1..h
    BY <2>1
  <2>3. last # 0 => last \in 1..last
    BY <1>6
  <2>4. (h # 0 => h \in 1..last) /\ (last # 0 => last \in 1..h)
    BY <2>1, <2>2, <2>3, Zenon
  <2>5. h = last
    BY <1>6, <2>1, <2>4
  <2> QED BY <2>5 DEF h
<1> QED BY <1>2, <1>3, <1>7 DEF p, last

\* Two cut texts one after the other: the last piece goes on with the first, and k - 1 more
\* of the second are taken.
Joined(p, q, k) ==
  [i \in 1..(Len(p) + k - 1) |->
     IF i < Len(p) THEN p[i]
     ELSE IF i = Len(p) THEN p[i] \o q[1] ELSE q[i - Len(p) + 1]]
Join(p, q) == Joined(p, q, Len(q))

\* What is joined, said of its places.
IsJoined(w, p, q, k) ==
  /\ Len(w) = Len(p) + k - 1
  /\ \A i \in 1..(Len(p) - 1) : w[i] = p[i]
  /\ w[Len(p)] = p[Len(p)] \o q[1]
  /\ \A i \in (Len(p) + 1)..(Len(p) + k - 1) : w[i] = q[i - Len(p) + 1]

\* Joined pieces are pieces, each where it should be.
LEMMA JoinedIs ==
  ASSUME NEW S, NEW p \in Seq(Seq(S)), NEW q \in Seq(Seq(S)), NEW k \in 1..Len(q),
         Len(p) \in Nat \ {0}
  PROVE  Joined(p, q, k) \in Seq(Seq(S)) /\ IsJoined(Joined(p, q, k), p, q, k)
<1> DEFINE m == Len(p)
           e(i) == IF i < m THEN p[i] ELSE IF i = m THEN p[i] \o q[1] ELSE q[i - m + 1]
           n == m + k - 1
           j == Joined(p, q, k)
<1>1. /\ Len(q) \in Nat /\ m \in Nat \ {0} /\ k \in Nat \ {0} /\ n \in Nat /\ 1 \in 1..Len(q)
      /\ m \in 1..m
  BY LenProperties
<1>2. /\ \A i \in 1..m : p[i] \in Seq(S)
      /\ \A i \in 1..Len(q) : q[i] \in Seq(S)
  BY ElementOfSeq
<1>3. p[m] \o q[1] \in Seq(S)
  BY <1>1, <1>2, ConcatProperties
<1>4. ASSUME NEW i \in 1..n PROVE e(i) \in Seq(S)
  <2>1. CASE i < m
    <3>1. i \in 1..m
      BY <1>1, <2>1
    <3> QED BY <1>2, <2>1, <3>1
  <2>2. CASE i = m
    BY <1>1, <1>3, <2>2
  <2>3. CASE ~(i < m) /\ i # m
    <3>1. i - m + 1 \in 1..Len(q)
      BY <1>1, <2>3
    <3> QED BY <1>2, <2>3, <3>1
  <2> QED BY <2>1, <2>2, <2>3
<1>5. j = [i \in 1..n |-> e(i)]
  BY DEF Joined
<1> HIDE DEF e
<1>6. /\ j \in Seq(Seq(S)) /\ Len(j) = n /\ \A i \in 1..n : j[i] = e(i)
  <2> HIDE DEF j, n
  <2> QED BY <1>1, <1>4, <1>5
<1>7. \A i \in 1..(m - 1) : i \in 1..n /\ e(i) = p[i]
  BY <1>1 DEF e
<1>8. m \in 1..n /\ e(m) = p[m] \o q[1]
  <2>1. m \in 1..n /\ ~(m < m)
    BY <1>1
  <2> QED BY <2>1, Zenon DEF e
<1>9. \A i \in (m + 1)..n : i \in 1..n /\ e(i) = q[i - m + 1]
  BY <1>1 DEF e
<1> HIDE DEF j
<1>10. IsJoined(j, p, q, k)
  BY <1>6, <1>7, <1>8, <1>9 DEF IsJoined
<1> QED BY <1>6, <1>10 DEF j

\* All pieces of both.
IsJoin(w, p, q, a, b) ==
  /\ Len(w) = a + b + 1
  /\ \A i \in 1..a : w[i] = p[i]
  /\ w[a + 1] = p[a + 1] \o q[1]
  /\ \A i \in (a + 2)..(a + b + 1) : w[i] = q[i - a]

\* So are all pieces of both.
LEMMA JoinIs ==
  ASSUME NEW S, NEW p \in Seq(Seq(S)), NEW q \in Seq(Seq(S)), NEW a \in Nat, NEW b \in Nat,
         Len(p) = a + 1, Len(q) = b + 1
  PROVE  Join(p, q) \in Seq(Seq(S)) /\ IsJoin(Join(p, q), p, q, a, b)
<1> DEFINE w == Join(p, q)
<1>1. w = Joined(p, q, Len(q))
  BY DEF Join
<1>2. Len(q) \in 1..Len(q) /\ Len(p) \in Nat \ {0}
  OBVIOUS
<1> HIDE DEF w
<1>3. /\ w \in Seq(Seq(S)) /\ Len(w) = Len(p) + Len(q) - 1
      /\ \A i \in 1..(Len(p) - 1) : w[i] = p[i]
      /\ w[Len(p)] = p[Len(p)] \o q[1]
      /\ \A i \in (Len(p) + 1)..(Len(p) + Len(q) - 1) : w[i] = q[i - Len(p) + 1]
  <2>1. w \in Seq(Seq(S)) /\ IsJoined(w, p, q, Len(q))
    BY <1>1, <1>2, JoinedIs
  <2> QED BY <2>1 DEF IsJoined
<1>4. /\ Len(p) - 1 = a /\ Len(p) + 1 = a + 2 /\ Len(p) + Len(q) - 1 = a + b + 1
      /\ \A i \in (a + 2)..(a + b + 1) : i - Len(p) + 1 = i - a
  OBVIOUS
<1>5. /\ w \in Seq(Seq(S)) /\ Len(w) = a + b + 1
      /\ \A i \in 1..a : w[i] = p[i]
      /\ w[a + 1] = p[a + 1] \o q[1]
      /\ \A i \in (a + 2)..(a + b + 1) : w[i] = q[i - a]
  BY <1>3, <1>4
<1> QED BY <1>5 DEF w, IsJoin

\* The places in a text and in its continuation.
LEMMA PlacesOfBoth ==
  ASSUME NEW S, NEW s \in Seq(S), NEW t \in Seq(S), NEW A \in SUBSET (1..Len(s)),
         NEW B \in SUBSET (1..Len(t))
  PROVE  /\ Places(Len(s), A, B) \in SUBSET (1..(Len(s) + Len(t)))
         /\ Cardinality(A) \in Nat /\ Cardinality(B) \in Nat
         /\ Cardinality(Places(Len(s), A, B)) = Cardinality(A) + Cardinality(B)
<1>1. Len(s) \in Nat /\ Len(t) \in Nat
  BY LenProperties
<1> QED BY <1>1, PlacesCount, Zenon

\* A text and its continuation, cut at the places of both: the pieces of both, joined.
LEMMA CutJoin ==
  ASSUME NEW S, NEW s \in Seq(S), NEW t \in Seq(S), NEW n \in Nat \ {0},
         NEW A \in SUBSET (1..Len(s)), NEW B \in SUBSET (1..Len(t)),
         \A e \in A : e + n - 1 <= Len(s)
  PROVE  CutAt(s \o t, Places(Len(s), A, B), n) = Join(CutAt(s, A, n), CutAt(t, B, n))
<1> DEFINE m == Len(s)
           k == Len(t)
           a == Cardinality(A)
           b == Cardinality(B)
           C == Places(m, A, B)
           u == s \o t
           x == CutAt(s, A, n)
           y == CutAt(t, B, n)
           z == CutAt(u, C, n)
           w == Join(x, y)
<1>1. /\ m \in Nat /\ k \in Nat
      /\ A \in SUBSET (1..m) /\ B \in SUBSET (1..k)
  BY LenProperties
<1>2. u \in Seq(S) /\ Len(u) = m + k
  BY ConcatProperties
<1>3. /\ C \in SUBSET (1..(m + k)) /\ a \in Nat /\ b \in Nat /\ Cardinality(C) = a + b
  BY PlacesOfBoth
<1>4. /\ \A i \in 1..a : Nth(C, i) = Nth(A, i)
      /\ \A i \in 1..b : Nth(C, a + i) = m + Nth(B, i)
  <2> HIDE DEF m, k
  <2> QED BY <1>1, PlacesJoin
<1>5. /\ \A i \in 1..a : Nth(A, i) \in A
      /\ \A i \in 1..b : Nth(B, i) \in B
  <2>1. IsFiniteSet(1..m) /\ IsFiniteSet(1..k)
    BY <1>1, FS_Interval
  <2>2. IsFiniteSet(A) /\ IsFiniteSet(B)
    BY <2>1, FS_Subset
  <2>3. A \in SUBSET Nat /\ B \in SUBSET Nat
    BY <1>1
  <2> QED BY <2>2, <2>3, RanksAreNumbers
<1>6. /\ x \in Seq(Seq(S)) /\ Len(x) = a + 1
      /\ \A i \in 1..(a + 1) : x[i] = SubSeq(s, From(A, n, i), Until(s, A, i))
  BY PiecesAre
<1>7. /\ y \in Seq(Seq(S)) /\ Len(y) = b + 1
      /\ \A i \in 1..(b + 1) : y[i] = SubSeq(t, From(B, n, i), Until(t, B, i))
  BY PiecesAre
<1>8. /\ z \in Seq(Seq(S)) /\ Len(z) = a + b + 1
      /\ \A i \in 1..(a + b + 1) : z[i] = SubSeq(u, From(C, n, i), Until(u, C, i))
  <2> HIDE DEF u, C
  <2>1. C \in SUBSET (1..Len(u))
    BY <1>2, <1>3
  <2>2. /\ z \in Seq(Seq(S)) /\ Len(z) = Cardinality(C) + 1
        /\ \A i \in 1..(Cardinality(C) + 1) : z[i] = SubSeq(u, From(C, n, i), Until(u, C, i))
    BY <1>2, <2>1, PiecesAre
  <2> HIDE DEF z
  <2> QED BY <1>3, <2>2
<1> HIDE DEF x, y, z
<1>9. /\ w \in Seq(Seq(S)) /\ Len(w) = a + b + 1
      /\ \A i \in 1..a : w[i] = x[i]
      /\ w[a + 1] = x[a + 1] \o y[1]
      /\ \A i \in (a + 2)..(a + b + 1) : w[i] = y[i - a]
  <2>1. x \in Seq(Seq(S)) /\ y \in Seq(Seq(S)) /\ Len(x) = a + 1 /\ Len(y) = b + 1
    BY <1>6, <1>7
  <2>2. a \in Nat /\ b \in Nat
    BY <1>3
  <2> HIDE DEF a, b
  <2>3. w \in Seq(Seq(S)) /\ IsJoin(w, x, y, a, b)
    BY <2>1, <2>2, JoinIs
  <2> HIDE DEF w
  <2> QED BY <2>3 DEF IsJoin
<1> HIDE DEF w
<1>10. ASSUME NEW i \in 1..a PROVE z[i] = x[i]
  <2>1. i \in 1..(a + 1) /\ i \in 1..(a + b + 1) /\ i # a + 1 /\ i # a + b + 1
    BY <1>3
  <2>2. Until(s, A, i) = Nth(A, i) - 1 /\ Until(u, C, i) = Nth(A, i) - 1
    BY <1>3, <1>4, <2>1 DEF Until
  <2>3. From(C, n, i) = From(A, n, i)
    <3>1. i # 1 => i - 1 \in 1..a
      BY <1>3
    <3> QED BY <1>4, <3>1 DEF From
  <2>4. From(A, n, i) \in Nat \ {0}
    <3>1. i # 1 => i - 1 \in 1..a
      BY <1>3
    <3>2. i # 1 => Nth(A, i - 1) \in A
      BY <1>5, <3>1
    <3>3. \A e \in A : e \in Nat \ {0} /\ e + n \in Nat \ {0}
      BY <1>1
    <3>4. CASE i = 1
      BY <3>4 DEF From
    <3>5. CASE i # 1
      <4>1. From(A, n, i) = Nth(A, i - 1) + n
        BY <3>5, Zenon DEF From
      <4> QED BY <3>2, <3>3, <3>5, <4>1, Zenon
    <3> QED BY <3>4, <3>5
  <2>5. Nth(A, i) - 1 \in Int /\ Nth(A, i) - 1 <= m
    <3>1. Nth(A, i) \in 1..m
      BY <1>5
    <3> QED BY <1>1, <3>1
  <2>6. SubSeq(s \o t, From(A, n, i), Nth(A, i) - 1) = SubSeq(s, From(A, n, i), Nth(A, i) - 1)
    BY <2>4, <2>5, PieceBefore
  <2>7. z[i] = SubSeq(u, From(C, n, i), Until(u, C, i))
    BY <1>8, <2>1
  <2>8. x[i] = SubSeq(s, From(A, n, i), Until(s, A, i))
    BY <1>6, <2>1
  <2> QED BY <2>2, <2>3, <2>6, <2>7, <2>8
<1>11. z[a + 1] = x[a + 1] \o y[1]
  <2> DEFINE f == From(A, n, a + 1)
             e == Until(t, B, 1)
  <2>1. f \in 1..(m + 1)
    <3>1. CASE a = 0
      BY <1>1, <3>1 DEF From
    <3>2. CASE a # 0
      <4>1. a \in 1..a /\ a + 1 # 1 /\ (a + 1) - 1 = a
        BY <1>3, <3>2
      <4>2. Nth(A, a) \in A
        BY <1>5, <4>1
      <4>3. Nth(A, a) \in 1..m /\ Nth(A, a) + n - 1 <= m
        BY <4>2
      <4>4. f = Nth(A, a) + n
        BY <4>1 DEF From
      <4> HIDE DEF f
      <4> QED BY <1>1, <4>3, <4>4
    <3> QED BY <3>1, <3>2
  <2>2. From(C, n, a + 1) = f
    <3>1. a + 1 # 1 => (a \in 1..a /\ (a + 1) - 1 = a)
      BY <1>3
    <3> QED BY <1>4, <3>1 DEF From
  <2>3. e \in 0..k /\ Until(u, C, a + 1) = m + e
    <3>1. CASE b = 0
      <4>1. e = k
        BY <3>1 DEF Until
      <4>2. Until(u, C, a + 1) = Len(u)
        BY <1>3, <3>1 DEF Until
      <4> HIDE DEF e
      <4> QED BY <1>1, <1>2, <4>1, <4>2
    <3>2. CASE b # 0
      <4>1. 1 \in 1..b /\ 1 # b + 1 /\ a + 1 # a + b + 1
        BY <1>3, <3>2
      <4>2. Nth(B, 1) \in 1..k /\ Nth(C, a + 1) = m + Nth(B, 1)
        BY <1>4, <1>5, <4>1
      <4>3. e = Nth(B, 1) - 1
        BY <4>1 DEF Until
      <4>4. Until(u, C, a + 1) = Nth(C, a + 1) - 1
        BY <1>3, <4>1 DEF Until
      <4> HIDE DEF e
      <4> QED BY <1>1, <4>2, <4>3, <4>4
    <3> QED BY <3>1, <3>2
  <2>4. a + 1 \in 1..(a + 1) /\ a + 1 \in 1..(a + b + 1) /\ 1 \in 1..(b + 1)
    BY <1>3
  <2>5. z[a + 1] = SubSeq(u, f, m + e)
    BY <1>8, <2>2, <2>3, <2>4
  <2>6. x[a + 1] = SubSeq(s, f, m)
    <3>1. Until(s, A, a + 1) = m
      BY DEF Until
    <3> QED BY <1>6, <2>4, <3>1
  <2>7. y[1] = SubSeq(t, 1, e)
    <3>1. From(B, n, 1) = 1
      BY DEF From
    <3> QED BY <1>7, <2>4, <3>1
  <2> HIDE DEF f, e
  <2>8. SubSeq(u, f, m + e) = SubSeq(s, f, m) \o SubSeq(t, 1, e)
    BY <2>1, <2>3, PieceAcross
  <2> QED BY <2>5, <2>6, <2>7, <2>8
<1>12. ASSUME NEW i \in (a + 2)..(a + b + 1) PROVE z[i] = y[i - a]
  <2> DEFINE j == i - a
  <2>1. j \in 2..(b + 1) /\ j \in 1..(b + 1) /\ i \in 1..(a + b + 1) /\ i = a + j
        /\ j - 1 \in 1..b /\ i # 1 /\ j # 1 /\ i - 1 = a + (j - 1)
    BY <1>3
  <2> HIDE DEF j
  <2>2. Nth(B, j - 1) \in 1..k /\ Nth(C, i - 1) = m + Nth(B, j - 1)
    BY <1>4, <1>5, <2>1
  <2>3. From(B, n, j) \in Nat \ {0} /\ From(C, n, i) = m + From(B, n, j)
    <3>1. From(B, n, j) = Nth(B, j - 1) + n /\ From(C, n, i) = Nth(C, i - 1) + n
      BY <2>1 DEF From
    <3> QED BY <1>1, <2>2, <3>1
  <2>4. /\ Until(t, B, j) \in Int /\ Until(t, B, j) <= k
        /\ Until(u, C, i) = m + Until(t, B, j)
    <3>1. CASE j = b + 1
      <4>1. i = a + b + 1
        BY <1>3, <2>1, <3>1
      <4>2. Until(t, B, j) = k /\ Until(u, C, i) = m + k
        BY <1>2, <1>3, <3>1, <4>1 DEF Until
      <4> QED BY <1>1, <4>2
    <3>2. CASE j # b + 1
      <4>1. j \in 1..b /\ i # a + b + 1
        BY <1>3, <2>1, <3>2
      <4>2. Nth(B, j) \in 1..k /\ Nth(C, i) = m + Nth(B, j)
        BY <1>4, <1>5, <2>1, <4>1
      <4>3. Until(t, B, j) = Nth(B, j) - 1 /\ Until(u, C, i) = Nth(C, i) - 1
        BY <1>3, <3>2, <4>1 DEF Until
      <4> QED BY <1>1, <4>2, <4>3
    <3> QED BY <3>1, <3>2
  <2>5. SubSeq(s \o t, m + From(B, n, j), m + Until(t, B, j))
          = SubSeq(t, From(B, n, j), Until(t, B, j))
    BY <2>3, <2>4, PieceAfter
  <2>6. z[i] = SubSeq(u, From(C, n, i), Until(u, C, i))
    BY <1>8, <2>1
  <2>7. y[j] = SubSeq(t, From(B, n, j), Until(t, B, j))
    BY <1>7, <2>1
  <2> QED BY <2>3, <2>4, <2>5, <2>6, <2>7 DEF j
<1>13. ASSUME NEW i \in 1..Len(z) PROVE z[i] = w[i]
  <2>1. i \in 1..a \/ i = a + 1 \/ i \in (a + 2)..(a + b + 1)
    BY <1>3, <1>8
  <2> HIDE DEF a, b
  <2> QED BY <1>9, <1>10, <1>11, <1>12, <2>1
<1>14. z = w
  BY <1>8, <1>9, <1>13, SeqEqual
<1> QED BY <1>14 DEF z, w, x, y

-----------------------------------------------------------------------------
\* The lines and the pages of a text that goes on.

\* All pieces but the last, and the last.
LEMMA FrontAndLast ==
  ASSUME NEW S, NEW s \in Seq(S), s # <<>>
  PROVE  /\ Len(s) \in Nat \ {0} /\ Front(s) \in Seq(S) /\ Len(Front(s)) = Len(s) - 1
         /\ \A i \in 1..(Len(s) - 1) : Front(s)[i] = s[i]
         /\ Last(s) = s[Len(s)] /\ Last(s) \in S
         /\ Append(Front(s), Last(s)) = s
<1>1. Len(s) \in Nat \ {0}
  BY EmptySeq
<1>2. Len(s) - 1 \in Nat /\ Len(s) - 1 <= Len(s) /\ Len(s) \in 1..Len(s)
  BY <1>1
<1>3. /\ Front(s) \in Seq(S) /\ Len(Front(s)) = Len(s) - 1
      /\ \A i \in 1..(Len(s) - 1) : Front(s)[i] = s[i]
  BY <1>2, PieceIs DEF Front
<1>4. Last(s) = s[Len(s)] /\ Last(s) \in S
  BY <1>2, ElementOfSeq DEF Last
<1> DEFINE x == Last(s)
           g == Append(Front(s), x)
<1> HIDE DEF x
<1>5. x \in S /\ x = s[Len(s)]
  BY <1>4 DEF x
<1>6. /\ g \in Seq(S) /\ Len(g) = Len(s) - 1 + 1
      /\ \A i \in 1..(Len(s) - 1) : g[i] = Front(s)[i]
      /\ g[Len(s) - 1 + 1] = x
  BY <1>3, <1>5, AppendProperties
<1> HIDE DEF g
<1>7. Len(g) = Len(s) /\ g[Len(s)] = x
  <2>1. Len(s) - 1 + 1 = Len(s)
    BY <1>1
  <2> QED BY <1>6, <2>1
<1>8. ASSUME NEW i \in 1..Len(g) PROVE g[i] = s[i]
  <2>1. i \in 1..(Len(s) - 1) \/ i = Len(s)
    BY <1>1, <1>7
  <2> QED BY <1>3, <1>5, <1>6, <1>7, <2>1
<1>9. g = s
  BY <1>6, <1>7, <1>8, SeqEqual
<1> QED BY <1>1, <1>3, <1>4, <1>9 DEF g, x

\* Lines.

\* The line breaks of a text.
Breaks(s) == {i \in DOMAIN s : s[i] = "\n"}

\* The lines of a text and of its continuation.
LEMMA LinesJoin ==
  ASSUME NEW s \in Seq(Symbols), NEW t \in Seq(Symbols)
  PROVE  Lines(s \o t) = Join(Lines(s), Lines(t))
<1> DEFINE u == s \o t
<1>1. Len(s) \in Nat /\ Len(t) \in Nat /\ DOMAIN s = 1..Len(s) /\ DOMAIN t = 1..Len(t)
  BY LenProperties
<1>2. /\ u \in Seq(Symbols) /\ Len(u) = Len(s) + Len(t)
      /\ \A i \in 1..(Len(s) + Len(t)) : u[i] = IF i <= Len(s) THEN s[i] ELSE t[i - Len(s)]
  BY ConcatProperties
<1> HIDE DEF u
<1>3. DOMAIN u = 1..(Len(s) + Len(t))
  BY <1>2, LenProperties
<1>4. Breaks(u) = Places(Len(s), Breaks(s), Breaks(t))
  <2>1. ASSUME NEW i \in Breaks(u) PROVE i \in Places(Len(s), Breaks(s), Breaks(t))
    <3>1. i \in 1..(Len(s) + Len(t)) /\ u[i] = "\n"
      BY <1>3 DEF Breaks
    <3>2. CASE i <= Len(s)
      <4>1. s[i] = "\n" /\ i \in 1..Len(s)
        BY <1>1, <1>2, <3>1, <3>2
      <4> QED BY <1>1, <4>1 DEF Breaks, Places
    <3>3. CASE ~(i <= Len(s))
      <4> DEFINE j == i - Len(s)
      <4>1. j \in 1..Len(t) /\ i = Len(s) + j
        BY <1>1, <3>1, <3>3
      <4>2. t[j] = "\n"
        BY <1>2, <3>1, <3>3
      <4> HIDE DEF j
      <4>3. j \in Breaks(t)
        BY <1>1, <4>1, <4>2 DEF Breaks
      <4> QED BY <4>1, <4>3 DEF Places, Shifted
    <3> QED BY <3>2, <3>3
  <2>2. ASSUME NEW i \in Breaks(s) PROVE i \in Breaks(u)
    <3>1. i \in 1..Len(s) /\ s[i] = "\n"
      BY <1>1 DEF Breaks
    <3>2. i \in 1..(Len(s) + Len(t)) /\ i <= Len(s)
      BY <1>1, <3>1
    <3> QED BY <1>2, <1>3, <3>1, <3>2 DEF Breaks
  <2>3. ASSUME NEW j \in Breaks(t) PROVE Len(s) + j \in Breaks(u)
    <3> DEFINE i == Len(s) + j
    <3>1. j \in 1..Len(t) /\ t[j] = "\n"
      BY <1>1 DEF Breaks
    <3>2. i \in 1..(Len(s) + Len(t)) /\ ~(i <= Len(s)) /\ i - Len(s) = j
      BY <1>1, <3>1
    <3> HIDE DEF i
    <3>3. i \in Breaks(u)
      BY <1>2, <1>3, <3>1, <3>2 DEF Breaks
    <3> QED BY <3>3 DEF i
  <2> QED BY <2>1, <2>2, <2>3 DEF Places, Shifted
<1>5. Lines(s) = CutAt(s, Breaks(s), 1) /\ Lines(t) = CutAt(t, Breaks(t), 1)
      /\ Lines(u) = CutAt(u, Breaks(u), 1)
  BY DEF Lines, Breaks
<1>6. Breaks(s) \in SUBSET (1..Len(s)) /\ Breaks(t) \in SUBSET (1..Len(t))
  BY <1>1 DEF Breaks
<1>7. 1 \in Nat \ {0} /\ \A e \in Breaks(s) : e + 1 - 1 <= Len(s)
  BY <1>1, <1>6
<1>8. CutAt(s \o t, Places(Len(s), Breaks(s), Breaks(t)), 1)
        = Join(CutAt(s, Breaks(s), 1), CutAt(t, Breaks(t), 1))
  BY <1>6, <1>7, CutJoin
<1> QED BY <1>4, <1>5, <1>8 DEF u

\* A text without line breaks is one line.
LEMMA LettersAreALine ==
  ASSUME NEW s \in Seq(Letters)
  PROVE  s \in Seq(Symbols) /\ Len(Lines(s)) = 1 /\ Lines(s)[1] = s
<1>1. Len(s) \in Nat /\ DOMAIN s = 1..Len(s) /\ \A i \in 1..Len(s) : s[i] \in Letters
  BY LenProperties
<1>2. \A i \in 1..Len(s) : s[i] \in Symbols /\ s[i] # "\n"
  BY <1>1 DEF Letters
<1>3. s \in Seq(Symbols)
  <2>1. SubSeq(s, 1, Len(s)) \in Seq(Symbols)
    BY <1>1, <1>2, SubSeqProperties
  <2> QED BY <2>1, SubSeqFull
<1>4. Breaks(s) = {}
  BY <1>1, <1>2 DEF Breaks
<1>5. Lines(s) = CutAt(s, Breaks(s), 1) /\ 1 \in Nat
  BY DEF Lines, Breaks
<1> DEFINE at == Breaks(s)
<1> HIDE DEF at
<1>6. at \in SUBSET (1..Len(s)) /\ at = {} /\ Cardinality(at) = 0
  BY <1>4, FS_EmptySet DEF at
<1>7. Len(CutAt(s, at, 1)) = Cardinality(at) + 1 /\ Last(CutAt(s, at, 1)) = s
  BY <1>3, <1>5, <1>6, PiecesAre, PiecesAreTexts
<1>8. Len(CutAt(s, at, 1)) = 1
  <2>1. Cardinality(at) + 1 = 1
    BY <1>6
  <2> QED BY <1>7, <2>1, Zenon
<1> QED BY <1>3, <1>5, <1>7, <1>8 DEF at, Last

\* The lines of a text that goes on: those that were complete, and those of its last line
\* and what is new.
LEMMA LinesGoOn ==
  ASSUME NEW s \in Seq(Symbols), NEW t \in Seq(Symbols)
  PROVE  LET ls == Lines(s)  more == Lines(Last(ls) \o t)  all == Lines(s \o t)
         IN /\ Last(all) = Last(more)
            /\ Front(all) = Front(ls) \o Front(more)
<1> DEFINE ls == Lines(s)
           l == Last(ls)
           lt == Lines(t)
           more == Lines(l \o t)
           all == Lines(s \o t)
           a == Len(ls) - 1
           b == Len(lt) - 1
<1>1. /\ ls \in Seq(Seq(Symbols)) /\ Len(ls) \in Nat \ {0} /\ l \in Seq(Letters)
      /\ lt \in Seq(Seq(Symbols)) /\ Len(lt) \in Nat \ {0}
  BY LinesOfText
<1>2. l \in Seq(Symbols) /\ Len(Lines(l)) = 1 /\ Lines(l)[1] = l
  BY <1>1, LettersAreALine
<1>3. Lines(l) \in Seq(Seq(Symbols))
  BY <1>2, LinesOfText
<1>4. all = Join(ls, lt) /\ more = Join(Lines(l), lt)
  BY <1>2, LinesJoin
<1>5. a \in Nat /\ b \in Nat /\ Len(ls) = a + 1 /\ Len(lt) = b + 1 /\ 0 \in Nat /\ 1 = 0 + 1
  BY <1>1
<1> HIDE DEF a, b, ls, lt, all, more, l
<1>6. all \in Seq(Seq(Symbols)) /\ IsJoin(all, ls, lt, a, b)
  BY <1>1, <1>4, <1>5, JoinIs
<1>7. more \in Seq(Seq(Symbols)) /\ IsJoin(more, Lines(l), lt, 0, b)
  <2> DEFINE one == Lines(l)
  <2>1. one \in Seq(Seq(Symbols)) /\ Len(one) = 0 + 1 /\ more = Join(one, lt)
    BY <1>2, <1>3, <1>4
  <2> HIDE DEF one
  <2>2. more \in Seq(Seq(Symbols)) /\ IsJoin(more, one, lt, 0, b)
    BY <1>1, <1>5, <2>1, JoinIs
  <2> QED BY <2>2 DEF one
<1>8. /\ Len(all) = a + b + 1 /\ \A i \in 1..a : all[i] = ls[i]
      /\ all[a + 1] = l \o lt[1]
      /\ \A i \in (a + 2)..(a + b + 1) : all[i] = lt[i - a]
  <2>1. ls[a + 1] = l
    BY <1>5 DEF l, Last
  <2> QED BY <1>6, <2>1 DEF IsJoin
<1>9. /\ Len(more) = b + 1 /\ more[1] = l \o lt[1]
      /\ \A i \in 2..(b + 1) : more[i] = lt[i]
  <2>1. /\ 0 + b + 1 = b + 1 /\ 0 + 1 = 1 /\ 0 + 2 = 2 /\ \A i \in 2..(b + 1) : i - 0 = i
    BY <1>5
  <2> QED BY <1>2, <1>7, <2>1 DEF IsJoin
<1>10. ASSUME NEW i \in 1..(b + 1) PROVE all[a + i] = more[i]
  <2>1. CASE i = 1
    BY <1>8, <1>9, <2>1
  <2>2. CASE i # 1
    <3> DEFINE j == a + i
    <3>1. i \in 2..(b + 1) /\ j \in (a + 2)..(a + b + 1) /\ j - a = i
      BY <1>5, <2>2
    <3> HIDE DEF j
    <3>2. all[j] = lt[j - a]
      BY <1>8, <3>1
    <3>3. more[i] = lt[i]
      BY <1>9, <3>1
    <3> QED BY <3>1, <3>2, <3>3 DEF j
  <2> QED BY <2>1, <2>2
<1>11. all # <<>> /\ more # <<>> /\ ls # <<>>
  <2>1. Len(all) # 0 /\ Len(more) # 0 /\ Len(ls) # 0
    BY <1>5, <1>8, <1>9
  <2>2. Len(<<>>) = 0
    BY EmptySeq
  <2> QED BY <2>1, <2>2, Zenon
<1>12. Last(all) = Last(more)
  <2>1. Last(all) = all[a + b + 1] /\ Last(more) = more[b + 1]
    BY <1>8, <1>9 DEF Last
  <2>2. a + b + 1 = a + (b + 1) /\ b + 1 \in 1..(b + 1)
    BY <1>5
  <2>3. all[a + (b + 1)] = more[b + 1]
    BY <1>10, <2>2
  <2> QED BY <2>1, <2>2, <2>3
<1> DEFINE fa == Front(all)
           fl == Front(ls)
           fm == Front(more)
<1>13. /\ fa \in Seq(Seq(Symbols)) /\ Len(fa) = a + b
       /\ \A i \in 1..(a + b) : fa[i] = all[i]
  <2>1. Len(all) - 1 = a + b
    BY <1>5, <1>8
  <2>2. /\ fa \in Seq(Seq(Symbols)) /\ Len(fa) = Len(all) - 1
        /\ \A i \in 1..(Len(all) - 1) : fa[i] = all[i]
    BY <1>6, <1>11, FrontAndLast
  <2> QED BY <2>1, <2>2
<1>14. /\ fl \in Seq(Seq(Symbols)) /\ Len(fl) = a
       /\ \A i \in 1..a : fl[i] = ls[i]
  <2>1. Len(ls) - 1 = a
    BY <1>5
  <2>2. /\ fl \in Seq(Seq(Symbols)) /\ Len(fl) = Len(ls) - 1
        /\ \A i \in 1..(Len(ls) - 1) : fl[i] = ls[i]
    BY <1>1, <1>11, FrontAndLast
  <2> QED BY <2>1, <2>2
<1>15. /\ fm \in Seq(Seq(Symbols)) /\ Len(fm) = b
       /\ \A i \in 1..b : fm[i] = more[i]
  <2>1. Len(more) - 1 = b
    BY <1>5, <1>9
  <2>2. /\ fm \in Seq(Seq(Symbols)) /\ Len(fm) = Len(more) - 1
        /\ \A i \in 1..(Len(more) - 1) : fm[i] = more[i]
    BY <1>7, <1>11, FrontAndLast
  <2> QED BY <2>1, <2>2
<1> HIDE DEF fa, fl, fm
<1> DEFINE w == fl \o fm
<1>16. /\ w \in Seq(Seq(Symbols)) /\ Len(w) = a + b
       /\ \A i \in 1..(a + b) : w[i] = IF i <= a THEN fl[i] ELSE fm[i - a]
  BY <1>14, <1>15, ConcatProperties
<1> HIDE DEF w
<1>17. ASSUME NEW i \in 1..Len(fa) PROVE fa[i] = w[i]
  <2>1. i \in 1..(a + b)
    BY <1>13
  <2>2. CASE i <= a
    <3>1. i \in 1..a
      BY <1>5, <2>1, <2>2
    <3> QED BY <1>8, <1>13, <1>14, <1>16, <2>1, <2>2, <3>1
  <2>3. CASE ~(i <= a)
    <3> DEFINE j == i - a
    <3>1. j \in 1..b /\ j \in 1..(b + 1) /\ i = a + j
      BY <1>5, <2>1, <2>3
    <3>2. w[i] = fm[j]
      BY <1>16, <2>1, <2>3
    <3> HIDE DEF j
    <3>3. fm[j] = more[j] /\ all[a + j] = more[j] /\ fa[i] = all[i]
      BY <1>10, <1>13, <1>15, <2>1, <3>1
    <3> QED BY <3>1, <3>2, <3>3
  <2> QED BY <2>2, <2>3
<1>18. fa = w
  BY <1>13, <1>16, <1>17, SeqEqual
<1> QED BY <1>12, <1>18 DEF fa, fl, fm, w, ls, all, more, l

-----------------------------------------------------------------------------
\* Pages.

\* The markers of a text, and one that begins in a text and ends in what it goes on with.
MarkersAt(s) == {i \in 1..(Len(s) - 1) : SubSeq(s, i, i + 1) = Marker}
Crosses(s, t) == /\ s # <<>> /\ t # <<>> /\ s[Len(s)] = "<PA" /\ t[1] = "GE>"

\* A marker is its two halves, one after the other.
LEMMA MarkersAre ==
  ASSUME NEW s \in Seq(Symbols), NEW i \in 1..(Len(s) - 1)
  PROVE  i \in MarkersAt(s) <=> (s[i] = "<PA" /\ s[i + 1] = "GE>")
<1> DEFINE p == SubSeq(s, i, i + 1)
<1>1. Len(s) \in Nat
  BY LenProperties
<1>2. i \in Nat \ {0} /\ i + 1 \in Int /\ i + 1 <= Len(s) /\ i <= i + 1 /\ (i + 1) - i + 1 = 2
  BY <1>1
<1>3. /\ p \in Seq(Symbols) /\ Len(p) = 2 /\ \A j \in 1..2 : p[j] = s[i + j - 1]
  <2>1. /\ p \in Seq(Symbols) /\ Len(p) = IF i <= i + 1 THEN (i + 1) - i + 1 ELSE 0
        /\ \A j \in 1..((i + 1) - i + 1) : p[j] = s[i + j - 1]
    BY <1>2, PieceHas
  <2> QED BY <1>2, <2>1
<1> HIDE DEF p
<1>4. p[1] = s[i] /\ p[2] = s[i + 1]
  <2>1. 1 \in 1..2 /\ 2 \in 1..2 /\ i + 1 - 1 = i /\ i + 2 - 1 = i + 1
    BY <1>2
  <2> QED BY <1>3, <2>1
<1>5. p = Marker <=> (p[1] = "<PA" /\ p[2] = "GE>")
  <2>1. /\ Marker \in Seq(Symbols) /\ Len(Marker) = 2 /\ Marker[1] = "<PA" /\ Marker[2] = "GE>"
    BY DEF Marker, Symbols
  <2>2. ASSUME p[1] = "<PA", p[2] = "GE>" PROVE p = Marker
    <3>1. \A j \in 1..2 : p[j] = Marker[j]
      <4>1. \A j \in 1..2 : j = 1 \/ j = 2
        OBVIOUS
      <4> QED BY <2>1, <2>2, <4>1
    <3> HIDE DEF Marker
    <3> QED BY <1>3, <2>1, <3>1, SeqEqual
  <2> QED BY <2>1, <2>2
<1>6. i \in MarkersAt(s) <=> p = Marker
  BY DEF MarkersAt, p
<1> QED BY <1>4, <1>5, <1>6

\* The pages of a text and of its continuation, unless a marker is cut.
LEMMA PagesJoin ==
  ASSUME NEW s \in Seq(Symbols), NEW t \in Seq(Symbols), ~Crosses(s, t)
  PROVE  Pages(s \o t) = Join(Pages(s), Pages(t))
<1> DEFINE u == s \o t
           m == Len(s)
           k == Len(t)
<1>1. m \in Nat /\ k \in Nat
  BY LenProperties
<1>2. /\ u \in Seq(Symbols) /\ Len(u) = m + k
      /\ \A i \in 1..(m + k) : u[i] = IF i <= m THEN s[i] ELSE t[i - m]
  BY ConcatProperties
<1>0. /\ s # <<>> <=> m # 0
      /\ t # <<>> <=> k # 0
  BY EmptySeq
<1> HIDE DEF u, m, k
<1>3. /\ MarkersAt(s) \in SUBSET (1..(m - 1)) /\ MarkersAt(t) \in SUBSET (1..(k - 1))
      /\ MarkersAt(u) \in SUBSET (1..(m + k - 1))
  BY <1>2 DEF MarkersAt, m, k
<1>4. MarkersAt(u) = Places(m, MarkersAt(s), MarkersAt(t))
  <2>1. ASSUME NEW i \in MarkersAt(u) PROVE i \in Places(m, MarkersAt(s), MarkersAt(t))
    <3>1. i \in 1..(m + k - 1) /\ i \in 1..(m + k) /\ i + 1 \in 1..(m + k) /\ i \in 1..(Len(u) - 1)
      BY <1>1, <1>2, <1>3
    <3>2. u[i] = "<PA" /\ u[i + 1] = "GE>"
      BY <1>2, <3>1, MarkersAre
    <3>3. CASE i < m
      <4>1. i \in 1..(Len(s) - 1) /\ i <= m /\ i + 1 <= m
        BY <1>1, <3>1, <3>3 DEF m
      <4>2. s[i] = "<PA" /\ s[i + 1] = "GE>"
        BY <1>2, <3>1, <3>2, <4>1
      <4>3. i \in MarkersAt(s)
        BY <4>1, <4>2, MarkersAre
      <4> QED BY <4>3 DEF Places
    <3>4. CASE i = m
      <4>1. i <= m /\ ~(i + 1 <= m) /\ i + 1 - m = 1 /\ m # 0 /\ k # 0
        BY <1>1, <3>1, <3>4
      <4>2. u[i] = s[m]
        BY <1>2, <3>1, <3>4, <4>1
      <4>3. u[i + 1] = t[1]
        <5> DEFINE j == i + 1
        <5>1. j \in 1..(m + k) /\ ~(j <= m) /\ j - m = 1
          BY <1>1, <3>1, <4>1
        <5> HIDE DEF j
        <5>2. u[j] = t[j - m]
          BY <1>2, <5>1
        <5> QED BY <5>1, <5>2 DEF j
      <4> QED BY <1>0, <3>2, <4>1, <4>2, <4>3 DEF Crosses, m
    <3>5. CASE i > m
      <4> DEFINE j == i - m
      <4>1. j \in 1..(Len(t) - 1) /\ i = m + j /\ ~(i <= m) /\ ~(i + 1 <= m) /\ i + 1 - m = j + 1
        BY <1>1, <3>1, <3>5 DEF k
      <4>2. u[i] = t[j]
        BY <1>2, <3>1, <4>1
      <4>3. u[i + 1] = t[j + 1]
        <5> DEFINE q == i + 1
        <5>1. q \in 1..(m + k) /\ ~(q <= m) /\ q - m = j + 1
          BY <1>1, <3>1, <4>1
        <5> HIDE DEF q, j
        <5>2. u[q] = t[q - m]
          BY <1>2, <5>1
        <5> QED BY <5>1, <5>2 DEF q
      <4> HIDE DEF j
      <4>4. j \in MarkersAt(t)
        BY <3>2, <4>1, <4>2, <4>3, MarkersAre
      <4> QED BY <4>1, <4>4 DEF Places, Shifted
    <3>6. i < m \/ i = m \/ i > m
      BY <1>1, <3>1
    <3> QED BY <3>3, <3>4, <3>5, <3>6
  <2>2. ASSUME NEW i \in MarkersAt(s) PROVE i \in MarkersAt(u)
    <3>1. i \in 1..(Len(s) - 1) /\ i \in 1..(Len(u) - 1) /\ i \in 1..(m + k) /\ i + 1 \in 1..(m + k)
          /\ i <= m /\ i + 1 <= m
      BY <1>1, <1>2, <1>3 DEF m
    <3>2. s[i] = "<PA" /\ s[i + 1] = "GE>"
      BY <3>1, MarkersAre
    <3>3. u[i] = "<PA" /\ u[i + 1] = "GE>"
      BY <1>2, <3>1, <3>2
    <3> QED BY <1>2, <3>1, <3>3, MarkersAre
  <2>3. ASSUME NEW j \in MarkersAt(t) PROVE m + j \in MarkersAt(u)
    <3> DEFINE i == m + j
               q == i + 1
    <3>1. j \in 1..(Len(t) - 1) /\ i \in 1..(Len(u) - 1) /\ i \in 1..(m + k) /\ q \in 1..(m + k)
          /\ ~(i <= m) /\ ~(q <= m) /\ i - m = j /\ q - m = j + 1 /\ q = i + 1
      BY <1>1, <1>2, <1>3 DEF k
    <3>2. t[j] = "<PA" /\ t[j + 1] = "GE>"
      BY <3>1, MarkersAre
    <3> HIDE DEF i, q
    <3>3. u[i] = t[j] /\ u[q] = t[j + 1]
      BY <1>2, <3>1
    <3>4. i \in MarkersAt(u)
      BY <1>2, <3>1, <3>2, <3>3, MarkersAre
    <3> QED BY <3>4 DEF i
  <2> QED BY <2>1, <2>2, <2>3 DEF Places, Shifted
<1>5. Pages(s) = CutAt(s, MarkersAt(s), 2) /\ Pages(t) = CutAt(t, MarkersAt(t), 2)
      /\ Pages(u) = CutAt(u, MarkersAt(u), 2)
  BY DEF Pages, MarkersAt
<1>6. MarkersAt(s) \in SUBSET (1..Len(s)) /\ MarkersAt(t) \in SUBSET (1..Len(t))
  BY <1>1, <1>3 DEF m, k
<1>7. 2 \in Nat \ {0} /\ \A e \in MarkersAt(s) : e + 2 - 1 <= Len(s)
  BY <1>1, <1>3 DEF m
<1>8. CutAt(s \o t, Places(Len(s), MarkersAt(s), MarkersAt(t)), 2)
        = Join(CutAt(s, MarkersAt(s), 2), CutAt(t, MarkersAt(t), 2))
  BY <1>6, <1>7, CutJoin
<1> QED BY <1>4, <1>5, <1>8 DEF u, m

-----------------------------------------------------------------------------
\* Half a marker at the end of a text.

\* What is not held of a text.
Given(s) == SubSeq(s, 1, Len(s) - Held(s))

\* Half a marker is held, and nothing else.
LEMMA HeldIs ==
  ASSUME NEW s \in Seq(Symbols)
  PROVE  /\ Held(s) \in {0, 1} /\ Len(s) - Held(s) \in Nat
         /\ Held(s) = 1 <=> (s # <<>> /\ s[Len(s)] = "<PA")
         /\ Given(s) \in Seq(Symbols) /\ Len(Given(s)) = Len(s) - Held(s)
         /\ \A i \in 1..(Len(s) - Held(s)) : Given(s)[i] = s[i]
         /\ Held(s) = 0 => Given(s) = s
         /\ Held(s) = 1 => s = Given(s) \o <<"<PA">>
<1> DEFINE e == Len(s) - Held(s)
<1>1. Held(s) \in {0, 1} /\ (Held(s) = 1 <=> (s # <<>> /\ s[Len(s)] = "<PA"))
  BY DEF Held, Last
<1>2. Len(s) \in Nat /\ (s # <<>> => Len(s) # 0)
  BY EmptySeq
<1>3. e \in Nat /\ e <= Len(s)
  BY <1>1, <1>2
<1> DEFINE g == Given(s)
<1>4. /\ g \in Seq(Symbols) /\ Len(g) = e
      /\ \A i \in 1..e : g[i] = s[i]
  <2> HIDE DEF e
  <2>1. g = SubSeq(s, 1, e)
    BY DEF Given, e
  <2> QED BY <1>3, <2>1, PieceIs
<1>5. ASSUME Held(s) = 0 PROVE g = s
  <2>1. Len(s) - Held(s) = Len(s)
    BY <1>2, <1>5
  <2> QED BY <2>1, SubSeqFull DEF Given
<1>6. ASSUME Held(s) = 1 PROVE s = g \o <<"<PA">>
  <2> DEFINE h == <<"<PA">>
             w == g \o h
  <2>1. h \in Seq(Symbols) /\ Len(h) = 1 /\ h[1] = "<PA"
    BY DEF Symbols
  <2> HIDE DEF h, g
  <2>2. /\ w \in Seq(Symbols) /\ Len(w) = e + 1
        /\ \A i \in 1..(e + 1) : w[i] = IF i <= e THEN g[i] ELSE h[i - e]
    <3>1. /\ w \in Seq(Symbols) /\ Len(w) = Len(g) + Len(h)
          /\ \A i \in 1..(Len(g) + Len(h)) : w[i] = IF i <= Len(g) THEN g[i] ELSE h[i - Len(g)]
      BY <1>4, <2>1, ConcatProperties
    <3> HIDE DEF w, e
    <3> QED BY <1>4, <2>1, <3>1
  <2> HIDE DEF w
  <2>3. e + 1 = Len(s) /\ s[Len(s)] = "<PA"
    BY <1>1, <1>2, <1>6
  <2> HIDE DEF e
  <2>4. ASSUME NEW i \in 1..Len(s) PROVE s[i] = w[i]
    <3>1. CASE i <= e
      <4>1. i \in 1..e /\ i \in 1..(e + 1)
        BY <1>3, <2>3, <3>1
      <4> QED BY <1>4, <2>2, <3>1, <4>1
    <3>2. CASE ~(i <= e)
      <4>1. i = e + 1 /\ i \in 1..(e + 1) /\ i - e = 1
        BY <1>3, <2>3, <3>2
      <4>2. w[i] = h[i - e]
        BY <2>2, <3>2, <4>1
      <4> QED BY <2>1, <2>3, <4>1, <4>2
    <3> QED BY <3>1, <3>2
  <2>5. s = w
    BY <2>2, <2>3, <2>4, SeqEqual
  <2> QED BY <2>5 DEF w, h
<1> QED BY <1>1, <1>3, <1>4, <1>5, <1>6

\* A text that ends in half a marker, and one that does not.
LEMMA HalfIsHeld ==
  ASSUME NEW s \in Seq(Symbols)
  PROVE  /\ Held(s \o <<"<PA">>) = 1
         /\ Given(s \o <<"<PA">>) = s
<1> DEFINE h == <<"<PA">>
           w == s \o h
<1>1. h \in Seq(Symbols) /\ Len(h) = 1 /\ h[1] = "<PA" /\ Len(s) \in Nat
  BY DEF Symbols
<1> HIDE DEF h
<1>2. /\ w \in Seq(Symbols) /\ Len(w) = Len(s) + Len(h)
      /\ \A i \in 1..(Len(s) + Len(h)) : w[i] = IF i <= Len(s) THEN s[i] ELSE h[i - Len(s)]
  BY <1>1, ConcatProperties
<1> HIDE DEF w
<1>3. Len(w) = Len(s) + 1 /\ Len(w) \in 1..(Len(s) + Len(h)) /\ ~(Len(w) <= Len(s))
      /\ Len(w) - Len(s) = 1
  BY <1>1, <1>2
<1>4. w[Len(w)] = "<PA"
  <2>1. w[Len(w)] = h[Len(w) - Len(s)]
    BY <1>2, <1>3
  <2> QED BY <1>1, <1>3, <2>1
<1>5. w # <<>>
  <2>1. Len(w) # Len(<<>>)
    BY <1>1, <1>3, EmptySeq
  <2> QED BY <2>1, Zenon
<1>6. Held(w) = 1
  BY <1>2, <1>4, <1>5, HeldIs
<1> DEFINE g == Given(w)
<1>7. g \in Seq(Symbols) /\ Len(g) = Len(s) /\ \A i \in 1..Len(s) : g[i] = w[i]
  <2>1. Len(w) - Held(w) = Len(s)
    BY <1>1, <1>3, <1>6
  <2>2. g \in Seq(Symbols) /\ Len(g) = Len(w) - Held(w) /\ \A i \in 1..(Len(w) - Held(w)) : g[i] = w[i]
    BY <1>2, HeldIs
  <2> QED BY <2>1, <2>2
<1> HIDE DEF g
<1>8. ASSUME NEW i \in 1..Len(g) PROVE g[i] = s[i]
  <2>1. i \in 1..Len(s) /\ i <= Len(s) /\ i \in 1..(Len(s) + Len(h))
    BY <1>1, <1>7
  <2> QED BY <1>2, <1>7, <2>1
<1>9. g = s
  BY <1>7, <1>8, SeqEqual
<1> QED BY <1>6, <1>9 DEF g, w, h

\* A text without room for a marker is one page.
LEMMA OnePage ==
  ASSUME NEW s \in Seq(Symbols), Len(s) \in {0, 1}
  PROVE  Len(Pages(s)) = 1 /\ Pages(s)[1] = s
<1> DEFINE at == MarkersAt(s)
           ps == Pages(s)
<1>1. at = {}
  <2> DEFINE x == Len(s) - 1
  <2>1. x < 1 /\ x \in Int
    <3> DEFINE l == Len(s)
    <3>1. l \in {0, 1}
      OBVIOUS
    <3> HIDE DEF l
    <3>2. l - 1 < 1 /\ l - 1 \in Int
      BY <3>1
    <3> QED BY <3>2, Zenon DEF l, x
  <2> HIDE DEF x
  <2>2. 1..x = {}
    BY <2>1
  <2>3. 1..(Len(s) - 1) = {}
    BY <2>2, Zenon DEF x
  <2> QED BY <2>3, Zenon DEF MarkersAt, at
<1>2. ps = CutAt(s, at, 2)
  BY DEF Pages, MarkersAt
<1>3. at \in SUBSET (1..Len(s)) /\ 2 \in Nat /\ Cardinality(at) = 0
  BY <1>1, FS_EmptySet
<1> HIDE DEF at, ps
<1>4. Len(CutAt(s, at, 2)) = Cardinality(at) + 1 /\ Last(CutAt(s, at, 2)) = s
  <2>1. Len(CutAt(s, at, 2)) = Cardinality(at) + 1
    BY <1>3, PiecesAre
  <2>2. Last(CutAt(s, at, 2)) = s
    BY <1>1, <1>3, PiecesAreTexts
  <2> QED BY <2>1, <2>2
<1>5. Len(ps) = 1
  <2>1. Cardinality(at) + 1 = 1
    BY <1>3
  <2> QED BY <1>2, <1>4, <2>1, Zenon
<1>6. ps[Len(ps)] = s
  BY <1>2, <1>4 DEF Last
<1> QED BY <1>5, <1>6 DEF ps

\* Half a marker at the end of a text is not held back with more than the last page.
LEMMA HeldIsLast ==
  ASSUME NEW s \in Seq(Symbols)
  PROVE  LET pages == Pages(s)  rest == Last(pages)
         IN /\ Held(rest) = Held(s)
            /\ Append(Front(pages), SubSeq(rest, 1, Len(rest) - Held(rest))) = Pages(Given(s))
<1> DEFINE ps == Pages(s)
           rest == Last(ps)
           g == Given(s)
<1>1. /\ ps \in Seq(Seq(Symbols)) /\ Len(ps) \in Nat \ {0} /\ ps # <<>>
      /\ g \in Seq(Symbols) /\ Held(s) \in {0, 1}
  <2>1. ps \in Seq(Seq(Symbols)) /\ Len(ps) \in Nat \ {0}
    BY PagesOfText
  <2>2. ps # <<>>
    <3>1. Len(ps) # Len(<<>>)
      BY <2>1, EmptySeq
    <3> QED BY <3>1, Zenon
  <2> QED BY <2>1, <2>2, HeldIs
<1>2. Append(Front(ps), rest) = ps /\ rest \in Seq(Symbols) /\ rest = ps[Len(ps)]
  BY <1>1, FrontAndLast
<1> HIDE DEF ps, g
<1>3. CASE Held(s) = 0
  <2>1. g = s
    BY <1>3, HeldIs DEF g
  <2>2. Held(rest) = 0
    <3>1. SUFFICES ASSUME Held(rest) = 1 PROVE FALSE
      BY <1>2, HeldIs DEF rest
    <3>2. rest # <<>> /\ rest[Len(rest)] = "<PA" /\ Len(rest) \in Nat \ {0}
      <4>1. rest # <<>> /\ rest[Len(rest)] = "<PA"
        BY <1>2, <3>1, HeldIs DEF rest
      <4> QED BY <1>2, <4>1, EmptySeq
    <3> DEFINE at == MarkersAt(s)
    <3>3. Len(s) \in Nat /\ at \in SUBSET (1..Len(s)) /\ ps = CutAt(s, at, 2) /\ 2 \in Nat
      <4>1. Len(s) \in Nat
        BY LenProperties
      <4>2. ps = CutAt(s, at, 2)
        BY DEF Pages, MarkersAt, ps
      <4> QED BY <4>1, <4>2 DEF MarkersAt
    <3>4. (at = {} => Last(CutAt(s, at, 2)) = s)
          /\ (at # {} => FollowsLast(Last(CutAt(s, at, 2)), s, at, 2))
      <4> HIDE DEF at
      <4> QED BY <3>3, PiecesAreTexts
    <3> HIDE DEF at, rest
    <3>5. (at = {} => rest = s) /\ (at # {} => FollowsLast(rest, s, at, 2))
      BY <3>3, <3>4 DEF rest
    <3>6. s # <<>> /\ s[Len(s)] = "<PA"
      <4>1. CASE at = {}
        BY <3>2, <3>5, <4>1
      <4>2. CASE at # {}
        <5>1. PICK m \in at : rest = SubSeq(s, m + 2, Len(s))
          BY <3>5, <4>2, Zenon DEF FollowsLast
        <5>2. m + 2 \in Nat \ {0} /\ Len(s) \in Int /\ m \in 1..Len(s)
          BY <3>3
        <5> DEFINE a == m + 2
        <5>3. a \in Nat \ {0} /\ Len(s) \in Int /\ Len(s) <= Len(s)
          BY <5>2
        <5> HIDE DEF a
        <5>4. /\ Len(rest) = IF a <= Len(s) THEN Len(s) - a + 1 ELSE 0
              /\ \A i \in 1..(Len(s) - a + 1) : rest[i] = s[a + i - 1]
          <6>1. rest = SubSeq(s, a, Len(s))
            BY <5>1 DEF a
          <6> QED BY <5>3, <6>1, PieceHas
        <5>5. a <= Len(s) /\ Len(rest) = Len(s) - a + 1
          BY <3>2, <5>4
        <5>6. Len(rest) \in 1..(Len(s) - a + 1) /\ a + Len(rest) - 1 = Len(s)
          BY <3>2, <5>3, <5>5
        <5>7. rest[Len(rest)] = s[Len(s)]
          BY <5>4, <5>6
        <5>8. s # <<>>
          <6>1. Len(s) # Len(<<>>)
            BY <5>2, EmptySeq
          <6> QED BY <6>1, Zenon
        <5> QED BY <3>2, <5>7, <5>8
      <4> QED BY <4>1, <4>2
    <3> QED BY <1>3, <3>6, HeldIs
  <2>3. SubSeq(rest, 1, Len(rest) - Held(rest)) = rest
    <3>1. Given(rest) = rest
      BY <1>2, <2>2, HeldIs DEF rest
    <3> QED BY <3>1 DEF Given
  <2> QED BY <1>2, <1>3, <2>1, <2>2, <2>3 DEF ps, g
<1>4. CASE Held(s) = 1
  <2> DEFINE h == <<"<PA">>
             P == Pages(g)
             H == Pages(h)
             a == Len(P) - 1
  <2>1. s = g \o h
    BY <1>4, HeldIs DEF g
  <2>2. h \in Seq(Symbols) /\ Len(h) = 1 /\ h[1] = "<PA" /\ h[1] # "GE>"
    BY DEF Symbols
  <2> HIDE DEF h
  <2>3. H \in Seq(Seq(Symbols)) /\ Len(H) = 1 /\ H[1] = h
    BY <2>2, PagesOfText, OnePage
  <2>4. ~Crosses(g, h)
    BY <2>2 DEF Crosses
  <2>5. ps = Join(P, H)
    BY <1>1, <2>1, <2>2, <2>4, PagesJoin DEF ps
  <2>6. P \in Seq(Seq(Symbols)) /\ Len(P) \in Nat \ {0} /\ P # <<>>
    <3>1. P \in Seq(Seq(Symbols)) /\ Len(P) \in Nat \ {0}
      BY <1>1, PagesOfText
    <3>2. P # <<>>
      <4>1. Len(P) # Len(<<>>)
        BY <3>1, EmptySeq
      <4> QED BY <4>1, Zenon
    <3> QED BY <3>1, <3>2
  <2> HIDE DEF P, H
  <2>7. a \in Nat /\ 0 \in Nat /\ Len(P) = a + 1 /\ Len(H) = 0 + 1
    BY <2>3, <2>6
  <2> HIDE DEF a
  <2>8. IsJoin(ps, P, H, a, 0)
    BY <2>3, <2>5, <2>6, <2>7, JoinIs
  <2>9. Len(ps) = a + 1 /\ (\A i \in 1..a : ps[i] = P[i]) /\ ps[a + 1] = P[a + 1] \o h
    BY <2>3, <2>7, <2>8 DEF IsJoin
  <2> DEFINE p == P[a + 1]
  <2>10. p \in Seq(Symbols)
    <3>1. a + 1 \in 1..Len(P)
      BY <2>7
    <3> QED BY <2>6, <3>1, ElementOfSeq
  <2>11. rest = p \o h
    BY <1>2, <2>9
  <2> HIDE DEF p
  <2>12. Held(rest) = 1 /\ SubSeq(rest, 1, Len(rest) - Held(rest)) = p
    BY <2>10, <2>11, HalfIsHeld DEF h, Given
  <2>13. Front(ps) = Front(P)
    <3>1. /\ Front(ps) \in Seq(Seq(Symbols)) /\ Len(Front(ps)) = Len(ps) - 1
          /\ \A i \in 1..(Len(ps) - 1) : Front(ps)[i] = ps[i]
      BY <1>1, FrontAndLast
    <3>2. /\ Front(P) \in Seq(Seq(Symbols)) /\ Len(Front(P)) = Len(P) - 1
          /\ \A i \in 1..(Len(P) - 1) : Front(P)[i] = P[i]
      BY <2>6, FrontAndLast
    <3>3. Len(ps) - 1 = a /\ Len(P) - 1 = a
      BY <2>7, <2>9
    <3> DEFINE x == Front(ps)
               y == Front(P)
    <3> HIDE DEF x, y
    <3>4. x \in Seq(Seq(Symbols)) /\ y \in Seq(Seq(Symbols)) /\ Len(x) = Len(y)
          /\ \A i \in 1..Len(x) : x[i] = y[i]
      BY <2>9, <3>1, <3>2, <3>3 DEF x, y
    <3>5. x = y
      BY <3>4, SeqEqual
    <3> QED BY <3>5 DEF x, y
  <2>14. Append(Front(P), p) = P
    <3>1. Append(Front(P), Last(P)) = P /\ Last(P) = P[Len(P)]
      BY <2>6, FrontAndLast
    <3> QED BY <2>7, <3>1 DEF p
  <2>15. Append(Front(ps), SubSeq(rest, 1, Len(rest) - Held(rest))) = P
    BY <2>12, <2>13, <2>14, Zenon
  <2>16. Held(rest) = Held(s)
    BY <1>4, <2>12, Zenon
  <2> QED BY <2>15, <2>16, Zenon DEF P, ps, g
<1> QED BY <1>1, <1>3, <1>4 DEF ps

-----------------------------------------------------------------------------
\* Rows that repeat.

\* From line a to the end there are rows of one word only, and so many of them.
OnlyRows(lines, a, word) == \A k \in a..Len(lines) : lines[k] \in {<<>>, <<word>>}
RowsFrom(lines, a, word) == {k \in a..Len(lines) : lines[k] = <<word>>}
Run(lines, a, word) == Cardinality(RowsFrom(lines, a, word))
Counted(det, word) == IF det.template = word THEN det.repeats ELSE 0

\* The detector counts the run of rows the lines end in.
Sums(lines, det) ==
  /\ \A word \in Words, a \in 1..(Len(lines) + 1) :
       OnlyRows(lines, a, word) => Run(lines, a, word) <= Counted(det, word)
  /\ det.template \in Words =>
       \E a \in 1..(Len(lines) + 1) : /\ OnlyRows(lines, a, det.template)
                                      /\ Run(lines, a, det.template) = det.repeats

\* A run is finite, and there is none after the last line.
LEMMA RunIsCount ==
  ASSUME NEW F \in Seq(Seq(Symbols)), NEW word, NEW a \in Nat
  PROVE  /\ IsFiniteSet(RowsFrom(F, a, word)) /\ Run(F, a, word) \in Nat
         /\ a > Len(F) => Run(F, a, word) = 0
<1>1. Len(F) \in Nat
  BY LenProperties
<1>2. IsFiniteSet(a..Len(F))
  BY <1>1, FS_Interval
<1>3. IsFiniteSet(RowsFrom(F, a, word))
  <2>1. RowsFrom(F, a, word) \subseteq a..Len(F)
    BY DEF RowsFrom
  <2> QED BY <1>2, <2>1, FS_Subset
<1>4. Run(F, a, word) \in Nat
  BY <1>3, FS_CardinalityType DEF Run
<1>5. ASSUME a > Len(F) PROVE Run(F, a, word) = 0
  <2>1. a..Len(F) = {}
    BY <1>1, <1>5
  <2>2. RowsFrom(F, a, word) = {}
    BY <2>1 DEF RowsFrom
  <2> QED BY <2>2, FS_EmptySet DEF Run
<1> QED BY <1>3, <1>4, <1>5

\* One line more.
LEMMA RunGrows ==
  ASSUME NEW F \in Seq(Seq(Symbols)), NEW x \in Seq(Symbols), NEW word \in Words,
         NEW a \in 1..(Len(F) + 1)
  PROVE  /\ OnlyRows(Append(F, x), a, word) <=> (OnlyRows(F, a, word) /\ x \in {<<>>, <<word>>})
         /\ x = <<word>> => Run(Append(F, x), a, word) = Run(F, a, word) + 1
         /\ x # <<word>> => Run(Append(F, x), a, word) = Run(F, a, word)
<1> DEFINE G == Append(F, x)
           n == Len(F)
<1>1. n \in Nat
  BY LenProperties
<1>2. Len(G) = n + 1 /\ G[n + 1] = x /\ \A k \in 1..n : G[k] = F[k]
  BY AppendProperties
<1> HIDE DEF G
<1>3. \A k : k \in a..(n + 1) <=> (k \in a..n \/ k = n + 1)
  BY <1>1
<1>4. \A k \in a..n : k \in 1..n /\ k # n + 1
  BY <1>1
<1>5. OnlyRows(G, a, word) <=> (OnlyRows(F, a, word) /\ x \in {<<>>, <<word>>})
  <2>1. \A k \in a..n : G[k] = F[k]
    BY <1>2, <1>4
  <2> DEFINE ok(y) == y \in {<<>>, <<word>>}
  <2> HIDE DEF ok
  <2>2. (\A k \in a..(n + 1) : ok(G[k])) <=> ((\A k \in a..n : ok(F[k])) /\ ok(x))
    BY <1>2, <1>3, <2>1
  <2> QED BY <1>2, <2>2 DEF OnlyRows, ok
<1> DEFINE A == RowsFrom(F, a, word)
           B == RowsFrom(G, a, word)
<1>6. A = {k \in a..n : F[k] = <<word>>} /\ B = {k \in a..(n + 1) : G[k] = <<word>>}
  BY <1>2 DEF RowsFrom
<1>7. IsFiniteSet(A) /\ n + 1 \notin A
  <2>1. IsFiniteSet(A)
    BY RunIsCount
  <2> HIDE DEF A
  <2> QED BY <1>4, <1>6, <2>1
<1> DEFINE row == <<word>>
<1> HIDE DEF A, B, row
<1>8. A = {k \in a..n : F[k] = row} /\ B = {k \in a..(n + 1) : G[k] = row}
  BY <1>6 DEF row
<1>9. ASSUME x = row PROVE B = A \cup {n + 1}
  BY <1>2, <1>3, <1>4, <1>8, <1>9
<1>10. ASSUME x # row PROVE B = A
  BY <1>2, <1>3, <1>4, <1>8, <1>10
<1>11. x = row => Cardinality(B) = Cardinality(A) + 1
  BY <1>7, <1>9, FS_AddElement
<1>12. x # row => Cardinality(B) = Cardinality(A)
  BY <1>10
<1>13. Run(F, a, word) = Cardinality(A) /\ Run(G, a, word) = Cardinality(B)
  BY DEF Run, A, B
<1> QED BY <1>5, <1>11, <1>12, <1>13 DEF G, row

\* A row is a word alone in its line.
LEMMA RowIsWord ==
  ASSUME NEW word \in Words
  PROVE  /\ <<word>> \in Seq(Symbols) /\ Len(<<word>>) = 1 /\ <<word>>[1] = word /\ <<word>> # <<>>
         /\ \A x \in Seq(Symbols) : Len(x) = 1 /\ x[1] = word => x = <<word>>
         /\ \A other \in Words : <<word>> = <<other>> => word = other
<1>1. <<word>> \in Seq(Symbols) /\ Len(<<word>>) = 1 /\ <<word>>[1] = word
  BY DEF Words, Symbols
<1>2. <<word>> # <<>>
  OBVIOUS
<1>3. ASSUME NEW x \in Seq(Symbols), Len(x) = 1, x[1] = word PROVE x = <<word>>
  <2> DEFINE y == <<word>>
  <2>1. y \in Seq(Symbols) /\ Len(y) = 1 /\ y[1] = word
    BY <1>1
  <2> HIDE DEF y
  <2>2. \A i \in 1..Len(x) : x[i] = y[i]
    BY <1>3, <2>1
  <2>3. x = y
    BY <1>3, <2>1, <2>2, SeqEqual
  <2> QED BY <2>3 DEF y
<1>4. \A other \in Words : <<word>> = <<other>> => word = other
  OBVIOUS
<1> QED BY <1>1, <1>2, <1>3, <1>4

\* What a line does to the count.
LEMMA ObserveIs ==
  ASSUME NEW det \in Detectors, NEW x \in Seq(Symbols)
  PROVE  LET r == Observe(det, x)
         IN /\ x = <<>> => r = det
            /\ \A word \in Words : x = <<word>> =>
                 /\ r.template = word /\ r.repeats = Counted(det, word) + 1
                 /\ r.detected <=> (det.detected \/ r.repeats >= Threshold)
            /\ (x # <<>> /\ \A word \in Words : x # <<word>>) =>
                 r.template = "none" /\ r.repeats = 0 /\ r.detected = det.detected
<1> DEFINE r == Observe(det, x)
<1>1. x = <<>> => r = det
  BY DEF Observe
<1>2. ASSUME NEW word \in Words, x = <<word>>
      PROVE  /\ r.template = word /\ r.repeats = Counted(det, word) + 1
             /\ r.detected <=> (det.detected \/ r.repeats >= Threshold)
  <2> DEFINE n == IF det.template = word THEN det.repeats + 1 ELSE 1
             seen == [det EXCEPT !.template = word, !.repeats = n]
  <2>1. Len(x) = 1 /\ x[1] = word /\ x # <<>>
    BY <1>2, RowIsWord
  <2>2. r = IF n >= Threshold THEN Trip(seen, "line_repeat") ELSE seen
    BY <2>1 DEF Observe, Observe_Strict
  <2>3. n \in Nat /\ n = Counted(det, word) + 1
    BY DEF Detectors, Counted
  <2> HIDE DEF n
  <2>4. seen.template = word /\ seen.repeats = n /\ seen.detected = det.detected
        /\ seen \in Detectors
    BY <2>3 DEF Detectors
  <2> HIDE DEF seen
  <2>5. LET y == Trip(seen, "line_repeat")
        IN y.template = word /\ y.repeats = n /\ y.detected
    BY <2>4 DEF Trip, Detectors
  <2> QED BY <2>2, <2>3, <2>4, <2>5
<1>3. ASSUME x # <<>>, \A word \in Words : x # <<word>>
      PROVE  r.template = "none" /\ r.repeats = 0 /\ r.detected = det.detected
  <2>1. Len(x) # 1 \/ x[1] \notin Words
    <3>1. SUFFICES ASSUME Len(x) = 1, x[1] \in Words PROVE FALSE
      OBVIOUS
    <3> DEFINE w == x[1]
    <3>2. w \in Words /\ x[1] = w
      BY <3>1
    <3> HIDE DEF w
    <3>3. x = <<w>>
      BY <3>1, <3>2, RowIsWord
    <3> QED BY <1>3, <3>2, <3>3
  <2>2. r = [det EXCEPT !.template = "none", !.repeats = 0]
    BY <1>3, <2>1 DEF Observe, Observe_Strict
  <2> QED BY <2>2 DEF Detectors
<1> QED BY <1>1, <1>2, <1>3

\* Whatever the line, the count goes on with it.
LEMMA SumsGrow ==
  ASSUME NEW F \in Seq(Seq(Symbols)), NEW x \in Seq(Symbols), NEW det \in Detectors,
         Sums(F, det)
  PROVE  Sums(Append(F, x), Observe(det, x))
<1> DEFINE G == Append(F, x)
           r == Observe(det, x)
           n == Len(F)
<1>1. n \in Nat /\ G \in Seq(Seq(Symbols)) /\ Len(G) = n + 1
  BY LenProperties, AppendProperties
<1>2. det.repeats \in Nat /\ "none" \notin Words
  BY DEF Detectors, Words
<1>3. \A word \in Words, a \in 1..(n + 1) :
        OnlyRows(F, a, word) => Run(F, a, word) <= Counted(det, word)
  BY DEF Sums
<1>4. det.template \in Words =>
        \E a \in 1..(n + 1) : OnlyRows(F, a, det.template) /\ Run(F, a, det.template) = det.repeats
  BY DEF Sums
<1>5. \A word \in Words, a \in 1..(n + 1) :
        /\ OnlyRows(G, a, word) <=> (OnlyRows(F, a, word) /\ x \in {<<>>, <<word>>})
        /\ x = <<word>> => Run(G, a, word) = Run(F, a, word) + 1
        /\ x # <<word>> => Run(G, a, word) = Run(F, a, word)
  BY RunGrows
<1>6. \A word \in Words, a \in 1..(n + 1) : Run(F, a, word) \in Nat
  BY RunIsCount
<1>7. \A word \in Words : Run(G, n + 2, word) = 0
  <2>1. n + 2 \in Nat /\ n + 2 > Len(G)
    BY <1>1
  <2> HIDE DEF G
  <2> QED BY <1>1, <2>1, RunIsCount
<1>8. \A a : a \in 1..(Len(G) + 1) <=> (a \in 1..(n + 1) \/ a = n + 2)
  BY <1>1
<1> HIDE DEF G, r
<1> DEFINE Goal == /\ \A word \in Words, a \in 1..(n + 1) :
                        OnlyRows(G, a, word) => Run(G, a, word) <= Counted(r, word)
                   /\ \A word \in Words : 0 <= Counted(r, word)
                   /\ r.template \in Words =>
                        \E a \in 1..(n + 1) : /\ OnlyRows(G, a, r.template)
                                              /\ Run(G, a, r.template) = r.repeats
<1>9. SUFFICES Goal
  <2>1. /\ \A word \in Words, a \in 1..(Len(G) + 1) :
             OnlyRows(G, a, word) => Run(G, a, word) <= Counted(r, word)
        /\ r.template \in Words =>
             \E a \in 1..(Len(G) + 1) : /\ OnlyRows(G, a, r.template)
                                        /\ Run(G, a, r.template) = r.repeats
    BY <1>7, <1>8, <1>9
  <2> QED BY <2>1 DEF Sums, G, r
<1>10. \A word \in Words : <<word>> # <<>> /\ \A other \in Words : <<word>> = <<other>> => word = other
  BY RowIsWord
<1>11. CASE x = <<>>
  <2>1. r = det
    BY <1>11, ObserveIs DEF r
  <2>2. \A word \in Words : x # <<word>> /\ x \in {<<>>, <<word>>}
    BY <1>10, <1>11
  <2> QED BY <1>2, <1>3, <1>4, <1>5, <2>1, <2>2 DEF Counted
<1>12. ASSUME NEW w \in Words, x = <<w>> PROVE Goal
  <2>1. r.template = w /\ r.repeats = Counted(det, w) + 1
    BY <1>12, ObserveIs DEF r
  <2>2. Counted(det, w) \in Nat
    BY <1>2 DEF Counted
  <2>3. \A word \in Words : word # w => x \notin {<<>>, <<word>>}
    BY <1>10, <1>12
  <2>4. \A a \in 1..(n + 1) : /\ OnlyRows(G, a, w) <=> OnlyRows(F, a, w)
                              /\ Run(G, a, w) = Run(F, a, w) + 1
    BY <1>5, <1>12
  <2>5. Counted(r, w) = Counted(det, w) + 1 /\ \A word \in Words : word # w => Counted(r, word) = 0
    BY <2>1 DEF Counted
  <2>6. \A a \in 1..(n + 1) : OnlyRows(G, a, w) => Run(G, a, w) <= Counted(r, w)
    BY <1>3, <1>6, <2>2, <2>4, <2>5
  <2>7. \A word \in Words, a \in 1..(n + 1) : OnlyRows(G, a, word) => Run(G, a, word) <= Counted(r, word)
    BY <1>5, <2>3, <2>6
  <2>8. \E a \in 1..(n + 1) : OnlyRows(G, a, w) /\ Run(G, a, w) = Counted(det, w) + 1
    <3>1. CASE det.template = w
      <4>1. PICK a \in 1..(n + 1) : OnlyRows(F, a, w) /\ Run(F, a, w) = det.repeats
        BY <1>4, <3>1
      <4>2. Counted(det, w) = det.repeats
        BY <3>1 DEF Counted
      <4> QED BY <2>4, <4>1, <4>2
    <3>2. CASE det.template # w
      <4>1. n + 1 \in 1..(n + 1) /\ n + 1 > Len(F) /\ n + 1 \in Nat
        BY <1>1
      <4>2. Run(F, n + 1, w) = 0
        BY <4>1, RunIsCount
      <4>3. OnlyRows(F, n + 1, w)
        <5>1. (n + 1)..Len(F) = {}
          BY <1>1
        <5> QED BY <5>1 DEF OnlyRows
      <4>4. Counted(det, w) = 0
        BY <3>2 DEF Counted
      <4> QED BY <2>4, <4>1, <4>2, <4>3, <4>4
    <3> QED BY <3>1, <3>2
  <2>9. \A word \in Words : 0 <= Counted(r, word)
    BY <2>2, <2>5
  <2> QED BY <2>1, <2>7, <2>8, <2>9
<1>13. CASE x # <<>> /\ \A word \in Words : x # <<word>>
  <2>1. r.template = "none" /\ r.repeats = 0
    BY <1>13, ObserveIs DEF r
  <2>2. \A word \in Words : Counted(r, word) = 0
    BY <1>2, <2>1 DEF Counted
  <2>3. \A word \in Words, a \in 1..(n + 1) : ~OnlyRows(G, a, word)
    BY <1>5, <1>13
  <2> QED BY <1>2, <2>1, <2>2, <2>3
<1> QED BY <1>11, <1>12, <1>13

\* With one line more, rows repeat as before, or in the last run.
LEMMA RowsOfMore ==
  ASSUME NEW F \in Seq(Seq(Symbols)), NEW x \in Seq(Symbols)
  PROVE  RowsRepeat(Append(F, x)) <=>
           \/ RowsRepeat(F)
           \/ \E word \in Words, a \in 1..(Len(F) + 1) :
                /\ OnlyRows(Append(F, x), a, word)
                /\ Run(Append(F, x), a, word) >= Threshold
<1> DEFINE G == Append(F, x)
           n == Len(F)
           Repeat(lines, word, i, j) ==
             /\ \A k \in i..j : lines[k] \in {<<>>, <<word>>}
             /\ Cardinality({k \in i..j : lines[k] = <<word>>}) >= Threshold
<1>1. n \in Nat /\ Len(G) = n + 1 /\ G[n + 1] = x /\ \A k \in 1..n : G[k] = F[k]
  BY LenProperties, AppendProperties
<1>2. DOMAIN F = 1..n /\ DOMAIN G = 1..(n + 1)
  BY <1>1, LenProperties, AppendProperties
<1> HIDE DEF G
<1>3. ASSUME NEW word \in Words, NEW i \in 1..n, NEW j \in 1..n
      PROVE  Repeat(G, word, i, j) <=> Repeat(F, word, i, j)
  <2>1. \A k \in i..j : G[k] = F[k]
    <3>1. \A k \in i..j : k \in 1..n
      <4> HIDE DEF n
      <4> QED BY <1>1
    <3> QED BY <1>1, <3>1
  <2>2. {k \in i..j : G[k] = <<word>>} = {k \in i..j : F[k] = <<word>>}
    BY <2>1
  <2> QED BY <2>1, <2>2
<1>4. ASSUME NEW word \in Words, NEW i \in 1..(n + 1)
      PROVE  Repeat(G, word, i, n + 1) <=> (OnlyRows(G, i, word) /\ Run(G, i, word) >= Threshold)
  BY <1>1, Zenon DEF OnlyRows, Run, RowsFrom
<1>5. ASSUME NEW word \in Words, NEW j \in 1..n PROVE ~Repeat(G, word, n + 1, j)
  <2>1. (n + 1)..j = {}
    BY <1>1
  <2>2. {k \in (n + 1)..j : G[k] = <<word>>} = {}
    BY <2>1
  <2>3. ~(Cardinality({k \in (n + 1)..j : G[k] = <<word>>}) >= Threshold)
    <3>1. ~(0 >= Threshold) /\ Cardinality({}) = 0
      BY FS_EmptySet, RepetitionAssumption
    <3> QED BY <2>2, <3>1, Zenon
  <2> QED BY <2>3
<1> HIDE DEF Repeat
<1>6. /\ RowsRepeat(G) <=> \E word \in Words, i, j \in 1..(n + 1) : Repeat(G, word, i, j)
      /\ RowsRepeat(F) <=> \E word \in Words, i, j \in 1..n : Repeat(F, word, i, j)
  BY <1>2, Zenon DEF RowsRepeat, Repeat
<1>7. /\ n + 1 \in 1..(n + 1) /\ \A i : i \in 1..(n + 1) <=> (i \in 1..n \/ i = n + 1)
  BY <1>1
<1>8. RowsRepeat(G) => (RowsRepeat(F) \/ \E word \in Words, i \in 1..(n + 1) :
                          OnlyRows(G, i, word) /\ Run(G, i, word) >= Threshold)
  <2>1. SUFFICES ASSUME NEW word \in Words, NEW i \in 1..(n + 1), NEW j \in 1..(n + 1),
                        Repeat(G, word, i, j)
                 PROVE  RowsRepeat(F) \/ \E v \in Words, a \in 1..(n + 1) :
                          OnlyRows(G, a, v) /\ Run(G, a, v) >= Threshold
    BY <1>6
  <2>2. CASE j = n + 1
    BY <1>4, <2>1, <2>2
  <2>3. CASE j \in 1..n /\ i = n + 1
    BY <1>5, <2>1, <2>3
  <2>4. CASE j \in 1..n /\ i \in 1..n
    BY <1>3, <1>6, <2>1, <2>4
  <2> QED BY <1>7, <2>2, <2>3, <2>4
<1>9. RowsRepeat(F) => RowsRepeat(G)
  BY <1>3, <1>6, <1>7
<1>10. ASSUME NEW word \in Words, NEW i \in 1..(n + 1), OnlyRows(G, i, word),
              Run(G, i, word) >= Threshold
       PROVE  RowsRepeat(G)
  BY <1>4, <1>6, <1>7, <1>10
<1> QED BY <1>8, <1>9, <1>10 DEF G

\* No line takes a repetition back.
LEMMA RowsStay ==
  ASSUME NEW F \in Seq(Seq(Symbols)), NEW G \in Seq(Seq(Symbols)), RowsRepeat(F)
  PROVE  RowsRepeat(F \o G)
<1> DEFINE H == F \o G
<1>1. /\ Len(F) \in Nat /\ Len(G) \in Nat
      /\ Len(H) = Len(F) + Len(G) /\ \A k \in 1..Len(F) : H[k] = F[k]
      /\ DOMAIN F = 1..Len(F) /\ DOMAIN H = 1..(Len(F) + Len(G))
  <2>1. Len(F) \in Nat /\ Len(G) \in Nat /\ DOMAIN F = 1..Len(F)
    BY LenProperties
  <2>2. /\ H \in Seq(Seq(Symbols)) /\ Len(H) = Len(F) + Len(G)
        /\ \A k \in 1..(Len(F) + Len(G)) : H[k] = IF k <= Len(F) THEN F[k] ELSE G[k - Len(F)]
    BY ConcatProperties
  <2> HIDE DEF H
  <2>3. DOMAIN H = 1..Len(H)
    BY <2>2, LenProperties
  <2>4. \A k \in 1..Len(F) : k \in 1..(Len(F) + Len(G)) /\ k <= Len(F)
    BY <2>1
  <2> QED BY <2>1, <2>2, <2>3, <2>4
<1> HIDE DEF H
<1>2. PICK word \in Words, i \in DOMAIN F, j \in DOMAIN F :
        /\ \A k \in i..j : F[k] \in {<<>>, <<word>>}
        /\ Cardinality({k \in i..j : F[k] = <<word>>}) >= Threshold
  BY Zenon DEF RowsRepeat
<1>3. i \in DOMAIN H /\ j \in DOMAIN H /\ \A k \in i..j : H[k] = F[k]
  BY <1>1
<1>4. {k \in i..j : H[k] = <<word>>} = {k \in i..j : F[k] = <<word>>}
  BY <1>3
<1>5. /\ \A k \in i..j : H[k] \in {<<>>, <<word>>}
      /\ Cardinality({k \in i..j : H[k] = <<word>>}) >= Threshold
  BY <1>2, <1>3, <1>4
<1>6. RowsRepeat(H)
  BY <1>3, <1>5, Zenon DEF RowsRepeat
<1> QED BY <1>6 DEF H

\* What holds at first, and of each number after the one before, holds of all.
LEMMA OneByOne ==
  ASSUME NEW n \in Nat, NEW good, 0 \in good, \A i \in 1..n : i - 1 \in good => i \in good
  PROVE  \A i \in 0..n : i \in good
<1> DEFINE f == [i \in 0..n |-> i]
<1>1. \A i \in 0..n : f[i] = i
  OBVIOUS
<1>2. f[0] \in good
  BY <1>1
<1>3. \A i \in 1..n : f[i - 1] \in good => f[i] \in good
  <2>1. \A i \in 1..n : i - 1 \in 0..n /\ i \in 0..n
    OBVIOUS
  <2> HIDE DEF f
  <2> QED BY <1>1, <2>1
<1> HIDE DEF f
<1>4. \A i \in 0..n : f[i] \in good
  BY <1>2, <1>3, StepByStep
<1> QED BY <1>1, <1>4

\* Rows repeat if enough were counted.
LEMMA RowsAreSummed ==
  ASSUME NEW F \in Seq(Seq(Symbols)), NEW det, Sums(F, det), det.template \in Words,
         det.repeats >= Threshold
  PROVE  RowsRepeat(F)
<1> DEFINE word == det.template
<1>1. Len(F) \in Nat /\ DOMAIN F = 1..Len(F)
  BY LenProperties
<1>2. PICK a \in 1..(Len(F) + 1) : OnlyRows(F, a, word) /\ Run(F, a, word) = det.repeats
  BY DEF Sums
<1>3. a \in Nat /\ Run(F, a, word) >= Threshold
  BY <1>1, <1>2
<1>4. a \in 1..Len(F) /\ Len(F) \in 1..Len(F)
  <2>1. SUFFICES ASSUME a > Len(F) PROVE FALSE
    BY <1>1
  <2>2. Run(F, a, word) = 0
    BY <1>3, <2>1, RunIsCount
  <2> QED BY <1>3, <2>2, RepetitionAssumption
<1>5. /\ \A k \in a..Len(F) : F[k] \in {<<>>, <<word>>}
      /\ Cardinality({k \in a..Len(F) : F[k] = <<word>>}) >= Threshold
  BY <1>2, <1>3 DEF OnlyRows, Run, RowsFrom
<1> QED BY <1>1, <1>4, <1>5, Zenon DEF RowsRepeat

\* The detector detects the line with which rows repeat, and no other.
LEMMA ObserveRows ==
  ASSUME NEW F \in Seq(Seq(Symbols)), NEW x \in Seq(Symbols), NEW det \in Detectors,
         ~det.detected, Sums(F, det), ~RowsRepeat(F)
  PROVE  /\ Sums(Append(F, x), Observe(det, x))
         /\ Observe(det, x).detected <=> RowsRepeat(Append(F, x))
<1> DEFINE G == Append(F, x)
           r == Observe(det, x)
<1>1. Sums(G, r)
  BY SumsGrow
<1>2. G \in Seq(Seq(Symbols)) /\ Len(G) = Len(F) + 1
  BY AppendProperties
<1>3. r \in Detectors /\ det.detected \in BOOLEAN /\ r.detected \in BOOLEAN
  <2>1. r \in Detectors
    BY ObserveIsAlike DEF Alike
  <2> QED BY <2>1 DEF Detectors
<1> DEFINE Enough == r.template \in Words /\ r.repeats >= Threshold
<1>4. r.detected => Enough
  <2>1. CASE x = <<>>
    BY <2>1, ObserveIs
  <2>2. ASSUME NEW w \in Words, x = <<w>> PROVE r.detected => Enough
    BY <2>2, ObserveIs
  <2>3. CASE x # <<>> /\ \A word \in Words : x # <<word>>
    BY <2>3, ObserveIs
  <2> QED BY <2>1, <2>2, <2>3
<1>5. Enough => r.detected
  <2>1. CASE x = <<>>
    BY <2>1, ObserveIs, RowsAreSummed
  <2>2. ASSUME NEW w \in Words, x = <<w>> PROVE Enough => r.detected
    BY <2>2, ObserveIs
  <2>3. CASE x # <<>> /\ \A word \in Words : x # <<word>>
    <3>1. r.template = "none"
      BY <2>3, ObserveIs
    <3> QED BY <3>1 DEF Words
  <2> QED BY <2>1, <2>2, <2>3
<1> HIDE DEF G, r
<1>6. r.detected => RowsRepeat(G)
  BY <1>1, <1>2, <1>4, RowsAreSummed
<1>7. RowsRepeat(G) => r.detected
  <2>1. SUFFICES ASSUME RowsRepeat(G) PROVE r.template \in Words /\ r.repeats >= Threshold
    BY <1>5
  <2>2. PICK word \in Words, a \in 1..(Len(F) + 1) :
          OnlyRows(G, a, word) /\ Run(G, a, word) >= Threshold
    BY <2>1, RowsOfMore DEF G
  <2>3. a \in 1..(Len(G) + 1) /\ a \in Nat
    <3>1. Len(F) \in Nat
      BY LenProperties
    <3> QED BY <1>2, <3>1
  <2>4. Run(G, a, word) <= Counted(r, word)
    BY <1>1, <2>2, <2>3 DEF Sums
  <2>5. Run(G, a, word) \in Nat /\ r.repeats \in Nat
    BY <1>2, <1>3, <2>3, RunIsCount DEF Detectors
  <2>6. r.template = word /\ Counted(r, word) = r.repeats
    <3>1. SUFFICES ASSUME r.template # word PROVE FALSE
      BY DEF Counted
    <3>2. Counted(r, word) = 0
      BY <3>1 DEF Counted
    <3> QED BY <2>2, <2>4, <2>5, <3>2, RepetitionAssumption
  <2> QED BY <2>2, <2>4, <2>5, <2>6, RepetitionAssumption
<1> QED BY <1>1, <1>6, <1>7 DEF G, r

\* And of several lines, the detector observes all until rows repeat.
LEMMA LinesSum ==
  ASSUME NEW F \in Seq(Seq(Symbols)), NEW G \in Seq(Seq(Symbols)), NEW det \in Detectors,
         ~det.detected, Sums(F, det), ~RowsRepeat(F)
  PROVE  LET r == ObserveLines(det, G)
         IN /\ r.detected <=> RowsRepeat(F \o G)
            /\ r.detected \/ Sums(F \o G, r)
<1> DEFINE n == Len(G)
           Upto(i) == F \o SubSeq(G, 1, i)
<1>1. n \in Nat /\ \A i \in 1..n : G[i] \in Seq(Symbols)
  BY LenProperties, ElementOfSeq
<1>2. PICK h : /\ h[0] = det /\ ObserveLines(det, G) = h[n]
               /\ \A i \in 1..n :
                    h[i] = IF h[i - 1].detected THEN h[i - 1] ELSE Observe(h[i - 1], G[i])
  BY <1>1, LinesAreObserved
<1>3. \A i \in 0..n : Upto(i) \in Seq(Seq(Symbols))
  <2> TAKE i \in 0..n
  <2>1. SubSeq(G, 1, i) \in Seq(Seq(Symbols))
    BY <1>1, PieceIsText DEF Symbols
  <2> QED BY <2>1, ConcatProperties
<1>4. Upto(0) = F /\ Upto(n) = F \o G
  <2>1. SubSeq(G, 1, 0) = <<>> /\ SubSeq(G, 1, n) = G
    BY SubSeqEmpty, SubSeqFull
  <2>2. F \o <<>> = F
    OBVIOUS
  <2> QED BY <2>1, <2>2
<1>5. ASSUME NEW i \in 1..n
      PROVE  Upto(i) = Append(Upto(i - 1), G[i]) /\ i - 1 \in 0..n
  OBVIOUS
<1> DEFINE Ok(i) == /\ h[i] \in Detectors
                    /\ h[i].detected <=> RowsRepeat(Upto(i))
                    /\ h[i].detected \/ Sums(Upto(i), h[i])
<1> HIDE DEF n, Upto
<1>6. Ok(0)
  BY <1>2, <1>4
<1>7. ASSUME NEW i \in 1..n, Ok(i - 1) PROVE Ok(i)
  <2> DEFINE x == h[i - 1]
             y == h[i]
             S == Upto(i - 1)
             T == Upto(i)
             g == G[i]
  <2>1. y = IF x.detected THEN x ELSE Observe(x, g)
    BY <1>2
  <2>2. /\ x \in Detectors /\ x.detected \in BOOLEAN /\ S \in Seq(Seq(Symbols)) /\ g \in Seq(Symbols)
        /\ T = Append(S, g)
        /\ x.detected <=> RowsRepeat(S)
        /\ x.detected \/ Sums(S, x)
    BY <1>1, <1>3, <1>5, <1>7 DEF Detectors
  <2> HIDE DEF x, y, S, T, g
  <2>3. CASE x.detected
    <3>1. y = x
      BY <2>1, <2>3
    <3>2. RowsRepeat(T)
      BY <2>2, <2>3, RowsOfMore
    <3> QED BY <2>2, <2>3, <3>1, <3>2 DEF x, y, T
  <2>4. CASE ~x.detected
    <3>1. y = Observe(x, g)
      BY <2>1, <2>4
    <3>2. y \in Detectors
      BY <2>2, <3>1, ObserveIsAlike DEF Alike
    <3>3. Sums(T, y) /\ (y.detected <=> RowsRepeat(T))
      BY <2>2, <2>4, <3>1, ObserveRows
    <3> QED BY <3>2, <3>3 DEF y, T
  <2> QED BY <2>3, <2>4
<1> DEFINE good == {i \in 0..n : Ok(i)}
<1>8. n \in Nat /\ 0 \in good /\ \A i \in 1..n : i - 1 \in good => i \in good
  <2>1. n \in Nat /\ 0 \in 0..n /\ \A i \in 1..n : i \in 0..n
    BY <1>1
  <2> HIDE DEF Ok
  <2> QED BY <1>6, <1>7, <2>1
<1>9. Ok(n)
  <2>1. n \in good
    <3>1. n \in 0..n
      BY <1>8
    <3> HIDE DEF good
    <3> QED BY <1>8, <3>1, OneByOne
  <2> HIDE DEF Ok
  <2> QED BY <2>1
<1> QED BY <1>2, <1>4, <1>9

-----------------------------------------------------------------------------
\* What is excessive about pages.

\* A page before the last is too long or has rows that repeat, or there are too many.
Earlier(pages) ==
  \/ Len(pages) - 1 > MaxMarkers
  \/ \E p \in 1..(Len(pages) - 1) : PageIsExcessive(pages[p], TRUE)

\* What is excessive is so before the last page, or there.
LEMMA ExcessIs ==
  ASSUME NEW pages \in Seq(Seq(Symbols)), Len(pages) \in Nat \ {0}, NEW over \in BOOLEAN
  PROVE  IsExcessive(pages, over) <=> (Earlier(pages) \/ PageIsExcessive(Last(pages), over))
<1> DEFINE n == Len(pages)
           P(p, v) == PageIsExcessive(pages[p], v)
<1>1. DOMAIN pages = 1..n /\ n \in Nat \ {0}
  BY LenProperties
<1> HIDE DEF n, P
<1>2. /\ \A p : p \in 1..n <=> (p \in 1..(n - 1) \/ p = n)
      /\ \A p \in 1..(n - 1) : p < n
      /\ ~(n < n)
  BY <1>1
<1>3. (\E p \in 1..n : P(p, p < n \/ over)) <=> ((\E p \in 1..(n - 1) : P(p, TRUE)) \/ P(n, over))
  <2>1. ASSUME NEW p \in 1..(n - 1) PROVE P(p, p < n \/ over) <=> P(p, TRUE)
    <3>1. (p < n \/ over) = TRUE
      <4>1. p < n
        BY <1>2
      <4> QED BY <4>1, Zenon
    <3> QED BY <3>1, Zenon
  <2>2. P(n, n < n \/ over) <=> P(n, over)
    <3>1. (n < n \/ over) = over
      <4>1. ~(n < n)
        BY <1>2
      <4>2. CASE over = TRUE
        BY <4>2, Zenon
      <4>3. CASE over = FALSE
        BY <4>1, <4>3, Zenon
      <4> QED BY <4>2, <4>3
    <3> QED BY <3>1, Zenon
  <2> QED BY <1>2, <2>1, <2>2
<1>4. IsExcessive(pages, over) <=> (n - 1 > MaxMarkers \/ \E p \in 1..n : P(p, p < n \/ over))
  BY <1>1, Zenon DEF IsExcessive, P, n
<1>5. Earlier(pages) <=> (n - 1 > MaxMarkers \/ \E p \in 1..(n - 1) : P(p, TRUE))
  BY Zenon DEF Earlier, P, n
<1>6. P(n, over) <=> PageIsExcessive(Last(pages), over)
  BY Zenon DEF Last, P, n
<1> QED BY <1>3, <1>4, <1>5, <1>6, Zenon

\* A page more.
LEMMA EarlierGrows ==
  ASSUME NEW P \in Seq(Seq(Symbols)), Len(P) \in Nat \ {0}, NEW c \in Seq(Symbols)
  PROVE  /\ Append(P, c) \in Seq(Seq(Symbols)) /\ Len(Append(P, c)) = Len(P) + 1
         /\ Last(Append(P, c)) = c
         /\ Earlier(Append(P, c)) <=> (IsExcessive(P, TRUE) \/ Len(P) > MaxMarkers)
<1> DEFINE n == Len(P)
           Q == Append(P, c)
<1>1. /\ Q \in Seq(Seq(Symbols)) /\ Len(Q) = n + 1 /\ Q[n + 1] = c
      /\ \A i \in 1..n : Q[i] = P[i]
  BY AppendProperties
<1> HIDE DEF Q
<1>2. Last(Q) = c
  BY <1>1 DEF Last
<1>3. n \in Nat \ {0} /\ Len(Q) - 1 = n /\ MaxMarkers \in Nat
  BY <1>1, RepetitionAssumption
<1>4. Earlier(Q) <=> (n > MaxMarkers \/ \E p \in 1..n : PageIsExcessive(P[p], TRUE))
  BY <1>1, <1>3 DEF Earlier
<1>5. IsExcessive(P, TRUE) <=> (Earlier(P) \/ PageIsExcessive(P[n], TRUE))
  BY ExcessIs DEF Last
<1>6. /\ \A p : p \in 1..n <=> (p \in 1..(n - 1) \/ p = n)
      /\ n - 1 > MaxMarkers => n > MaxMarkers
  BY <1>3
<1>7. Earlier(P) <=> (n - 1 > MaxMarkers \/ \E p \in 1..(n - 1) : PageIsExcessive(P[p], TRUE))
  BY Zenon DEF Earlier
<1> HIDE DEF n
<1>8. Earlier(Q) <=> (IsExcessive(P, TRUE) \/ n > MaxMarkers)
  BY <1>4, <1>5, <1>6, <1>7
<1> QED BY <1>1, <1>2, <1>8 DEF Q, n

\* Nothing is excessive about an unfinished last page that is not so about the finished one.
LEMMA ExcessStays ==
  ASSUME NEW page \in Seq(Symbols), PageIsExcessive(page, FALSE)
  PROVE  PageIsExcessive(page, TRUE)
<1> DEFINE ls == Lines(page)
<1>1. ls \in Seq(Seq(Symbols)) /\ Len(ls) \in Nat \ {0}
  BY LinesOfText
<1>2. ls # <<>>
  <2>1. Len(ls) # Len(<<>>)
    BY <1>1, EmptySeq
  <2> QED BY <2>1, Zenon
<1> HIDE DEF ls
<1>3. Front(ls) \in Seq(Seq(Symbols)) /\ Last(ls) \in Seq(Symbols) /\ Append(Front(ls), Last(ls)) = ls
  BY <1>1, <1>2, FrontAndLast
<1>4. RowsRepeat(Front(ls)) => RowsRepeat(ls)
  <2> DEFINE F == Front(ls)
             x == Last(ls)
  <2>1. F \in Seq(Seq(Symbols)) /\ x \in Seq(Symbols) /\ Append(F, x) = ls
    BY <1>3
  <2> HIDE DEF F, x
  <2>2. RowsRepeat(F) => RowsRepeat(Append(F, x))
    BY <2>1, RowsOfMore
  <2> QED BY <2>1, <2>2 DEF F
<1> QED BY <1>4, Zenon DEF PageIsExcessive, ls

\* What the detector knows of the last page.
PageIs(det, page) ==
  /\ det.line = Last(Lines(page)) /\ Sums(Front(Lines(page)), det) /\ det.chars = Len(page)

\* An empty page.
LEMMA EmptyPage ==
  ASSUME NEW det, det.line = <<>>, det.chars = 0, det.template = "none"
  PROVE  <<>> \in Seq(Symbols) /\ PageIs(det, <<>>) /\ ~PageIsExcessive(<<>>, FALSE)
<1> DEFINE e == <<>>
           ls == Lines(e)
           F == Front(ls)
<1>1. e \in Seq(Letters) /\ Len(e) = 0
  BY EmptySeq
<1>2. e \in Seq(Symbols) /\ Len(ls) = 1 /\ ls[1] = e
  BY <1>1, LettersAreALine
<1>3. Last(ls) = e /\ F = <<>>
  <2>1. Len(ls) - 1 < 1 /\ Len(ls) - 1 \in Int
    <3> HIDE DEF ls
    <3> QED BY <1>2
  <2>2. SubSeq(ls, 1, Len(ls) - 1) = <<>>
    BY <2>1, SubSeqEmpty
  <2> QED BY <1>2, <2>2 DEF Last, Front
<1> HIDE DEF ls, F
<1>4. F \in Seq(Seq(Symbols)) /\ Len(F) = 0 /\ DOMAIN F = {}
  <2>1. F \in Seq(Seq(Symbols)) /\ Len(F) = 0
    BY <1>3, EmptySeq
  <2>2. DOMAIN F = 1..Len(F)
    BY <2>1, LenProperties
  <2> QED BY <2>1, <2>2
<1>5. ~RowsRepeat(F)
  BY <1>4, Zenon DEF RowsRepeat
<1>6. Sums(F, det)
  <2>1. ASSUME NEW word \in Words, NEW a \in 1..(Len(F) + 1)
        PROVE  Run(F, a, word) = 0 /\ Counted(det, word) = 0
    <3>1. a \in Nat /\ a > Len(F)
      BY <1>4
    <3>2. Counted(det, word) = 0
      BY DEF Counted, Words
    <3> QED BY <1>4, <3>1, <3>2, RunIsCount
  <2>2. det.template \notin Words
    BY DEF Words
  <2>3. 0 <= 0
    OBVIOUS
  <2> QED BY <2>1, <2>2, <2>3, Zenon DEF Sums
<1>7. PageIs(det, e)
  BY <1>1, <1>3, <1>6 DEF PageIs, ls, F
<1>8. ~PageIsExcessive(e, FALSE)
  <2>1. ~(Len(e) > MaxPageChars)
    BY <1>1, RepetitionAssumption
  <2> QED BY <1>5, <2>1, Zenon DEF PageIsExcessive, ls, F
<1> QED BY <1>2, <1>7, <1>8

\* An empty page is not excessive.
LEMMA NothingIsFine == <<>> \in Seq(Symbols) /\ ~PageIsExcessive(<<>>, FALSE)
<1> DEFINE det == [line |-> <<>>, chars |-> 0, template |-> "none"]
<1>1. det.line = <<>> /\ det.chars = 0 /\ det.template = "none"
  OBVIOUS
<1> HIDE DEF det
<1> QED BY <1>1, EmptyPage

-----------------------------------------------------------------------------
\* What the detector knows of the pages it was fed.

\* The word and its repetitions are all of the detector that the sum depends on.
LEMMA SumsAlike ==
  ASSUME NEW F, NEW x, NEW y, Sums(F, x), y.template = x.template, y.repeats = x.repeats
  PROVE  Sums(F, y)
<1>1. \A word : Counted(y, word) = Counted(x, word)
  BY DEF Counted
<1> QED BY <1>1, Zenon DEF Sums

\* A letter is a symbol.
LEMMA LettersAreSymbols ==
  ASSUME NEW s \in Seq(Letters)
  PROVE  s \in Seq(Symbols)
BY LettersAreALine

\* The look at the line finds something to stop for, or leaves all but the time of the look.
LEMMA CheckIs ==
  ASSUME NEW det \in Detectors, NEW force \in BOOLEAN, ~det.detected
  PROVE  LET r == CheckRolling(det, force)
         IN \/ r.detected /\ r.reason = "rolling_repeat"
            \/ /\ ~r.detected /\ r \in Detectors /\ r.line = det.line /\ r.chars = det.chars
               /\ r.template = det.template /\ r.repeats = det.repeats /\ Markers(r) = Markers(det)
<1> DEFINE r == CheckRolling(det, force)
           checked == [det EXCEPT !.since = 0]
<1>1. /\ checked \in Detectors /\ ~checked.detected /\ checked.line = det.line
      /\ checked.chars = det.chars /\ checked.template = det.template
      /\ checked.repeats = det.repeats /\ Markers(checked) = Markers(det)
  BY DEF Detectors, Markers
<1>2. r = det \/ r = checked \/ r = Trip(checked, "rolling_repeat")
  BY Zenon DEF CheckRolling
<1> HIDE DEF checked
<1>3. LET y == Trip(checked, "rolling_repeat")
      IN y.detected /\ y.reason = "rolling_repeat"
  BY <1>1 DEF Trip, Detectors
<1> QED BY <1>1, <1>2, <1>3

\* A text that is consumed: the detector knows of the page that goes on what it knew of the
\* page, unless it has detected that the page is excessive, or a line that rolls.
LEMMA ConsumeGoesOn ==
  ASSUME NEW det \in Detectors, ~det.detected, NEW w \in Seq(Symbols), NEW c \in Seq(Symbols),
         PageIs(det, w), ~PageIsExcessive(w, FALSE)
  PROVE  LET r == Consume(det, c)
         IN /\ r.detected => (r.reason = "rolling_repeat" \/ PageIsExcessive(w \o c, FALSE))
            /\ ~r.detected => /\ PageIs(r, w \o c) /\ ~PageIsExcessive(w \o c, FALSE)
                              /\ Markers(r) = Markers(det)
<1> DEFINE r == Consume(det, c)
           u == w \o c
<1>1. /\ u \in Seq(Symbols) /\ Len(u) = Len(w) + Len(c) /\ Len(w) \in Nat /\ Len(c) \in Nat
  BY ConcatProperties, LenProperties
<1>2. CASE c = <<>>
  <2>1. r = det /\ u = w
    BY <1>2 DEF Consume
  <2> QED BY <2>1
<1>3. CASE c # <<>>
  <2> DEFINE ls == Lines(w)
             F == Front(ls)
             l == det.line
             lines == Lines(l \o c)
             G == Front(lines)
             all == Lines(u)
             counted == [det EXCEPT !.chars = @ + Len(c), !.since = @ + Len(c),
                                    !.line = Last(lines)]
             observed == ObserveLines(counted, G)
             checked == IF observed.detected THEN observed ELSE CheckRolling(observed, FALSE)
  <2>1. r = IF ~checked.detected /\ checked.chars > MaxPageChars
            THEN Trip(checked, "page_char_limit") ELSE checked
    BY <1>3, Zenon DEF Consume
  <2>2. /\ l = Last(ls) /\ Sums(F, det) /\ det.chars = Len(w)
        /\ ~(Len(w) > MaxPageChars) /\ ~RowsRepeat(F)
    BY Zenon DEF PageIs, PageIsExcessive
  <2>3. Last(all) = Last(lines) /\ Front(all) = F \o G
    BY <2>2, LinesGoOn
  <2>4. ls \in Seq(Seq(Symbols)) /\ Len(ls) \in Nat \ {0} /\ l \in Seq(Letters) /\ l \in Seq(Symbols)
    <3>1. l \in Seq(Letters)
      BY DEF Detectors
    <3> QED BY <3>1, LinesOfText, LettersAreSymbols
  <2>5. lines \in Seq(Seq(Symbols)) /\ Len(lines) \in Nat \ {0} /\ Last(lines) \in Seq(Letters)
    <3>1. l \o c \in Seq(Symbols)
      BY <2>4, ConcatProperties
    <3> QED BY <3>1, LinesOfText, LettersAreSymbols
  <2> HIDE DEF ls, lines, all, l, u, r
  <2>6. F \in Seq(Seq(Symbols)) /\ G \in Seq(Seq(Symbols)) /\ Len(G) \in Nat
    <3>1. ls # <<>> /\ lines # <<>>
      <4>1. Len(ls) # Len(<<>>) /\ Len(lines) # Len(<<>>)
        BY <2>4, <2>5, EmptySeq
      <4> QED BY <4>1, Zenon
    <3>2. F \in Seq(Seq(Symbols))
      BY <2>4, <3>1, FrontAndLast
    <3>3. G \in Seq(Seq(Symbols))
      BY <2>5, <3>1, FrontAndLast
    <3> QED BY <3>2, <3>3, LenProperties
  <2> HIDE DEF F, G
  <2>7. /\ counted \in Detectors /\ ~counted.detected /\ counted.line = Last(lines)
        /\ counted.chars = Len(u)
        /\ counted.template = det.template /\ counted.repeats = det.repeats
        /\ counted.page = det.page /\ counted.sawMarker = det.sawMarker
    <3>1. det.since + Len(c) \in Nat /\ det.chars + Len(c) \in Nat
      BY <1>1 DEF Detectors
    <3>2. counted \in Detectors
      BY <2>5, <3>1 DEF Detectors
    <3>3. /\ counted.line = Last(lines) /\ counted.chars = det.chars + Len(c) /\ ~counted.detected
          /\ counted.template = det.template /\ counted.repeats = det.repeats
      BY DEF Detectors
    <3>4. counted.page = det.page /\ counted.sawMarker = det.sawMarker
      BY DEF Detectors
    <3> QED BY <1>1, <2>2, <3>2, <3>3, <3>4
  <2> HIDE DEF counted
  <2>8. Sums(F, counted)
    BY <2>2, <2>7, SumsAlike
  <2>9. /\ observed \in Alike(counted)
        /\ observed.detected <=> RowsRepeat(F \o G)
        /\ observed.detected \/ Sums(F \o G, observed)
    <3>1. observed \in Alike(counted)
      BY <2>6, <2>7, LinesAreAlike
    <3> QED BY <2>2, <2>6, <2>7, <2>8, <3>1, LinesSum
  <2> HIDE DEF observed
  <2>10. PageIsExcessive(u, FALSE) <=> (Len(u) > MaxPageChars \/ RowsRepeat(F \o G))
    BY <2>3, Zenon DEF PageIsExcessive, all
  <2>11. CASE observed.detected
    <3>1. r = observed
      BY <2>1, <2>11
    <3> QED BY <2>9, <2>10, <2>11, <3>1 DEF r, u
  <2>12. CASE ~observed.detected
    <3>1. observed \in Detectors /\ observed.line = Last(lines) /\ observed.chars = Len(u)
          /\ Markers(observed) = Markers(det)
      BY <2>7, <2>9, <2>12 DEF Alike, Same, Markers
    <3>2. \/ checked.detected /\ checked.reason = "rolling_repeat"
          \/ /\ ~checked.detected /\ checked \in Detectors /\ checked.line = observed.line
             /\ checked.chars = observed.chars /\ checked.template = observed.template
             /\ checked.repeats = observed.repeats /\ Markers(checked) = Markers(observed)
      BY <2>12, <3>1, CheckIs
    <3> HIDE DEF checked
    <3>3. CASE checked.detected
      <4>1. r = checked /\ checked.reason = "rolling_repeat"
        BY <2>1, <3>2, <3>3
      <4> QED BY <3>3, <4>1 DEF r
    <3>4. CASE ~checked.detected
      <4>1. /\ checked \in Detectors /\ checked.line = Last(lines) /\ checked.chars = Len(u)
            /\ checked.template = observed.template /\ checked.repeats = observed.repeats
            /\ Markers(checked) = Markers(det)
        BY <3>1, <3>2, <3>4
      <4>2. CASE Len(u) > MaxPageChars
        <5>1. r = Trip(checked, "page_char_limit")
          BY <2>1, <3>4, <4>1, <4>2
        <5>2. r.detected
          BY <4>1, <5>1 DEF Trip, Detectors
        <5> QED BY <2>10, <4>2, <5>2 DEF r, u
      <4>3. CASE ~(Len(u) > MaxPageChars)
        <5>1. r = checked
          BY <2>1, <3>4, <4>1, <4>3
        <5>2. Sums(Front(all), checked)
          BY <2>3, <2>9, <2>12, <4>1, SumsAlike
        <5>3. PageIs(r, u)
          BY <2>3, <4>1, <5>1, <5>2 DEF PageIs, all
        <5>4. ~PageIsExcessive(u, FALSE)
          BY <2>9, <2>10, <2>12, <4>3
        <5> QED BY <3>4, <4>1, <5>1, <5>3, <5>4 DEF r, u
      <4> QED BY <4>2, <4>3
    <3> QED BY <3>3, <3>4
  <2> QED BY <2>11, <2>12
<1> QED BY <1>2, <1>3

\* The last line of a page: the detector detects just the page that is excessive with it.
LEMMA FinishFinds ==
  ASSUME NEW det \in Detectors, ~det.detected, NEW w \in Seq(Symbols), PageIs(det, w),
         ~PageIsExcessive(w, FALSE)
  PROVE  LET r == FinishLine(det)
         IN /\ r \in Detectors /\ (r.detected <=> PageIsExcessive(w, TRUE))
            /\ r.detected \/ Markers(r) = Markers(det)
<1> DEFINE ls == Lines(w)
           F == Front(ls)
           x == det.line
           r == Observe(det, x)
<1>1. /\ x = Last(ls) /\ Sums(F, det) /\ ~(Len(w) > MaxPageChars) /\ ~RowsRepeat(F)
  BY Zenon DEF PageIs, PageIsExcessive
<1>2. ls \in Seq(Seq(Symbols)) /\ Len(ls) \in Nat \ {0}
  BY LinesOfText
<1>3. ls # <<>>
  <2>1. Len(ls) # Len(<<>>)
    BY <1>2, EmptySeq
  <2> QED BY <2>1, Zenon
<1>4. PageIsExcessive(w, TRUE) <=> RowsRepeat(ls)
  BY <1>1, Zenon DEF PageIsExcessive
<1> HIDE DEF ls, x
<1>5. F \in Seq(Seq(Symbols)) /\ x \in Seq(Symbols) /\ Append(F, x) = ls
  BY <1>1, <1>2, <1>3, FrontAndLast
<1> HIDE DEF F
<1>6. r.detected <=> RowsRepeat(ls)
  <2>1. Observe(det, x).detected <=> RowsRepeat(Append(F, x))
    BY <1>1, <1>5, ObserveRows
  <2> QED BY <1>5, <2>1
<1>7. r \in Alike(det)
  BY ObserveIsAlike
<1>8. FinishLine(det) = r
  BY Zenon DEF FinishLine, x
<1> HIDE DEF r
<1>9. r \in Detectors /\ (r.detected \/ Markers(r) = Markers(det))
  BY <1>7 DEF Alike, Same, Markers
<1> QED BY <1>4, <1>6, <1>8, <1>9

\* A marker: a page too many is detected, and else there is an empty page.
LEMMA StartIs ==
  ASSUME NEW det \in Detectors, ~det.detected, det.page = 0 \/ det.sawMarker
  PROVE  LET r == StartPage(det)
         IN /\ r.detected <=> Markers(det) + 1 > MaxMarkers
            /\ ~r.detected => /\ r \in Detectors /\ Markers(r) = Markers(det) + 1
                              /\ PageIs(r, <<>>)
<1> DEFINE page == IF det.sawMarker THEN det.page + 1 ELSE det.page
           flooded == [det EXCEPT !.page = page, !.sawMarker = TRUE]
           started == StartPage_Unlimited(det)
           r == StartPage(det)
<1>1. page \in Nat /\ page = Markers(det)
  BY DEF Markers, Detectors
<1>2. r = IF page + 1 > MaxMarkers THEN Trip(flooded, "page_flood") ELSE started
  BY DEF StartPage
<1>3. Trip(flooded, "page_flood").detected
  BY DEF Trip, Detectors
<1>4. started = [det EXCEPT !.page = page, !.sawMarker = TRUE, !.chars = 0, !.tokens = 0,
                            !.line = <<>>, !.since = 0, !.template = "none", !.repeats = 0]
  BY DEF StartPage_Unlimited
<1>5. <<>> \in Seq(Letters)
  BY EmptySeq
<1> HIDE DEF started, page
<1>6. started \in Detectors
  BY <1>1, <1>4, <1>5 DEF Detectors
<1>7. /\ ~started.detected /\ started.line = <<>> /\ started.chars = 0
      /\ started.template = "none"
  BY <1>4 DEF Detectors
<1>8. started.page = page /\ started.sawMarker
  BY <1>4 DEF Detectors
<1>9. Markers(started) = page + 1
  BY <1>8 DEF Markers
<1>10. PageIs(started, <<>>)
  BY <1>7, EmptyPage
<1> HIDE DEF flooded, r
<1>11. r.detected <=> page + 1 > MaxMarkers
  BY <1>2, <1>3, <1>7
<1>12. ~r.detected => r = started
  BY <1>2, <1>3
<1> QED BY <1>1, <1>6, <1>9, <1>10, <1>11, <1>12 DEF r

\* What the detector knows of the pages.
Corr(det, pages) ==
  /\ PageIs(det, Last(pages)) /\ Markers(det) = Len(pages) - 1 /\ ~IsExcessive(pages, FALSE)

\* It has found what is excessive, or a line that rolls, or it knows the pages.
Verdict(det, pages) ==
  /\ det.detected => (det.reason = "rolling_repeat" \/ IsExcessive(pages, FALSE))
  /\ ~det.detected => Corr(det, pages)

\* The last page goes on.
LEMMA LastGoesOn ==
  ASSUME NEW det \in Detectors, ~det.detected, NEW P \in Seq(Seq(Symbols)),
         Len(P) \in Nat \ {0}, Corr(det, P), NEW Q \in Seq(Seq(Symbols)), Len(Q) \in Nat \ {0}
  PROVE  Verdict(Consume(det, Q[1]), Joined(P, Q, 1))
<1> DEFINE n == Len(P)
           W == Joined(P, Q, 1)
           c == Q[1]
           w == Last(P)
           r == Consume(det, c)
<1>1. 1 \in 1..Len(Q) /\ n \in 1..n /\ n + 1 - 1 = n
  OBVIOUS
<1>2. W \in Seq(Seq(Symbols)) /\ IsJoined(W, P, Q, 1)
  BY <1>1, JoinedIs
<1> HIDE DEF W
<1>3. Len(W) = n /\ (\A i \in 1..(n - 1) : W[i] = P[i]) /\ W[n] = P[n] \o Q[1]
  BY <1>1, <1>2 DEF IsJoined
<1>4. c \in Seq(Symbols) /\ w \in Seq(Symbols)
  BY <1>1, ElementOfSeq DEF Last
<1>5. Last(W) = w \o c
  BY <1>3 DEF Last
<1>6. Earlier(W) <=> Earlier(P)
  BY <1>3 DEF Earlier
<1>7. ~Earlier(P) /\ ~PageIsExcessive(w, FALSE) /\ PageIs(det, w) /\ Markers(det) = n - 1
  BY ExcessIs DEF Corr
<1>8. IsExcessive(W, FALSE) <=> PageIsExcessive(w \o c, FALSE)
  BY <1>2, <1>3, <1>5, <1>6, <1>7, ExcessIs
<1> HIDE DEF n, w, c
<1>9. /\ r.detected => (r.reason = "rolling_repeat" \/ PageIsExcessive(w \o c, FALSE))
      /\ ~r.detected => /\ PageIs(r, w \o c) /\ ~PageIsExcessive(w \o c, FALSE)
                        /\ Markers(r) = Markers(det)
  BY <1>4, <1>7, ConsumeGoesOn
<1> HIDE DEF r
<1>10. Verdict(r, W)
  BY <1>3, <1>5, <1>7, <1>8, <1>9 DEF Verdict, Corr
<1> QED BY <1>10 DEF r, W, c

\* What is excessive remains so with a page more.
LEMMA ExcessGoesOn ==
  ASSUME NEW P \in Seq(Seq(Symbols)), Len(P) \in Nat \ {0}
  PROVE  /\ IsExcessive(P, FALSE) => IsExcessive(P, TRUE)
         /\ \A c \in Seq(Symbols) : IsExcessive(P, TRUE) => IsExcessive(Append(P, c), FALSE)
<1>1. Last(P) \in Seq(Symbols)
  <2>1. Len(P) \in 1..Len(P)
    OBVIOUS
  <2> QED BY <2>1, ElementOfSeq DEF Last
<1>2. IsExcessive(P, FALSE) => IsExcessive(P, TRUE)
  BY <1>1, ExcessIs, ExcessStays
<1>3. ASSUME NEW c \in Seq(Symbols), IsExcessive(P, TRUE) PROVE IsExcessive(Append(P, c), FALSE)
  <2> DEFINE Q == Append(P, c)
  <2>1. Q \in Seq(Seq(Symbols)) /\ Len(Q) = Len(P) + 1 /\ Earlier(Q)
    BY <1>3, EarlierGrows
  <2> HIDE DEF Q
  <2>2. Len(Q) \in Nat \ {0}
    BY <2>1
  <2>3. IsExcessive(Q, FALSE)
    BY <2>1, <2>2, ExcessIs
  <2> QED BY <2>3 DEF Q
<1> QED BY <1>2, <1>3

\* A page more is fed.
LEMMA NextGoesOn ==
  ASSUME NEW t \in Nat, NEW det \in Sound(t), NEW P \in Seq(Seq(Symbols)),
         Len(P) \in Nat \ {0}, Verdict(det, P), NEW c \in Seq(Symbols)
  PROVE  Verdict(NextPage(det, c), Append(P, c))
<1> DEFINE n == Len(P)
           Q == Append(P, c)
           w == Last(P)
           f == FinishLine(det)
           s == StartPage(f)
           r == Consume(s, c)
<1>1. det \in Detectors /\ det.detected \in BOOLEAN
  BY DEF Sound, Detectors
<1>2. w \in Seq(Symbols)
  <2>1. n \in 1..n
    OBVIOUS
  <2> QED BY <2>1, ElementOfSeq DEF Last
<1>3. /\ Q \in Seq(Seq(Symbols)) /\ Len(Q) = n + 1 /\ Last(Q) = c
      /\ Earlier(Q) <=> (IsExcessive(P, TRUE) \/ n > MaxMarkers)
  BY EarlierGrows
<1> HIDE DEF Q
<1>4. /\ Len(Q) \in Nat \ {0} /\ Len(Q) - 1 = n
      /\ IsExcessive(Q, FALSE) <=> (Earlier(Q) \/ PageIsExcessive(c, FALSE))
  <2>1. Len(Q) \in Nat \ {0} /\ Len(Q) - 1 = n
    BY <1>3
  <2> QED BY <1>3, <2>1, ExcessIs
<1>5. CASE det.detected
  <2>1. NextPage(det, c) = det
    BY <1>5 DEF NextPage
  <2>2. det.reason = "rolling_repeat" \/ IsExcessive(Q, FALSE)
    BY <1>5, ExcessGoesOn DEF Verdict, Q
  <2> QED BY <1>5, <2>1, <2>2 DEF Verdict, Q
<1>6. CASE ~det.detected
  <2>1. NextPage(det, c) = r
    BY <1>6, Zenon DEF NextPage
  <2>2. PageIs(det, w) /\ Markers(det) = n - 1 /\ ~IsExcessive(P, FALSE)
    BY <1>6 DEF Verdict, Corr
  <2>3. ~Earlier(P) /\ ~PageIsExcessive(w, FALSE)
    BY <2>2, ExcessIs
  <2>4. IsExcessive(P, TRUE) <=> PageIsExcessive(w, TRUE)
    BY <2>3, ExcessIs
  <2> HIDE DEF w
  <2>5. /\ f \in Detectors /\ (f.detected <=> PageIsExcessive(w, TRUE))
        /\ f.detected \/ Markers(f) = Markers(det)
    BY <1>1, <1>2, <1>6, <2>2, <2>3, FinishFinds
  <2>6. f \in Sound(t)
    BY FinishIsSound
  <2> HIDE DEF f
  <2>7. CASE f.detected
    <3>1. IsExcessive(Q, FALSE)
      BY <1>3, <1>4, <2>4, <2>5, <2>7
    <3>2. s.detected
      BY <2>5, <2>7 DEF StartPage, StartPage_Unlimited, Trip, Detectors
    <3>3. r = s
      BY <3>2 DEF Consume
    <3> HIDE DEF r, s
    <3> QED BY <2>1, <3>1, <3>2, <3>3 DEF Verdict, Q
  <2>8. CASE ~f.detected
    <3>1. f.page = 0 \/ f.sawMarker
      BY <2>6, <2>8 DEF Sound, InBudget
    <3>2. /\ s.detected <=> Markers(f) + 1 > MaxMarkers
          /\ ~s.detected => /\ s \in Detectors /\ Markers(s) = Markers(f) + 1
                            /\ PageIs(s, <<>>)
      BY <2>5, <2>8, <3>1, StartIs
    <3>3. Markers(f) + 1 = n
      BY <2>2, <2>5, <2>8
    <3> HIDE DEF s
    <3>4. CASE s.detected
      <4>1. IsExcessive(Q, FALSE)
        BY <1>3, <1>4, <3>2, <3>3, <3>4
      <4>2. r = s
        BY <3>4 DEF Consume
      <4> QED BY <2>1, <3>4, <4>1, <4>2 DEF Verdict, Q
    <3>5. CASE ~s.detected
      <4>1. ~Earlier(Q)
        BY <1>3, <2>4, <2>5, <2>8, <3>2, <3>3, <3>5
      <4> DEFINE e == <<>>
      <4>2. e \in Seq(Symbols) /\ e \o c = c /\ ~PageIsExcessive(e, FALSE)
        <5>1. <<>> \o c = c
          BY ConcatEmptySeq
        <5> QED BY <5>1, NothingIsFine, Zenon
      <4> HIDE DEF e
      <4>3. s \in Detectors /\ PageIs(s, e) /\ Markers(s) = n
        BY <3>2, <3>3, <3>5 DEF e
      <4>4. /\ r.detected => (r.reason = "rolling_repeat" \/ PageIsExcessive(e \o c, FALSE))
            /\ ~r.detected => /\ PageIs(r, e \o c) /\ ~PageIsExcessive(e \o c, FALSE)
                              /\ Markers(r) = Markers(s)
        BY <3>5, <4>2, <4>3, ConsumeGoesOn
      <4> HIDE DEF r
      <4>5. Verdict(r, Q)
        BY <1>3, <1>4, <4>1, <4>2, <4>3, <4>4 DEF Verdict, Corr
      <4> QED BY <2>1, <4>5 DEF Q
    <3> QED BY <3>4, <3>5
  <2> QED BY <2>7, <2>8
<1> QED BY <1>1, <1>5, <1>6

\* With the next page of the second text, that many are joined.
LEMMA JoinedGoesOn ==
  ASSUME NEW P \in Seq(Seq(Symbols)), Len(P) \in Nat \ {0}, NEW Q \in Seq(Seq(Symbols)),
         NEW i \in 1..(Len(Q) - 1)
  PROVE  Joined(P, Q, i + 1) = Append(Joined(P, Q, i), Q[i + 1])
<1> DEFINE n == Len(P)
           X == Joined(P, Q, i)
           Y == Joined(P, Q, i + 1)
           c == Q[i + 1]
           Z == Append(X, c)
<1>1. /\ Len(Q) \in Nat /\ i \in 1..Len(Q) /\ i + 1 \in 1..Len(Q) /\ i \in Nat \ {0}
      /\ n \in Nat \ {0}
  BY LenProperties
<1>2. X \in Seq(Seq(Symbols)) /\ IsJoined(X, P, Q, i)
  BY <1>1, JoinedIs
<1>3. Y \in Seq(Seq(Symbols)) /\ IsJoined(Y, P, Q, i + 1)
  BY <1>1, JoinedIs
<1>4. c \in Seq(Symbols)
  BY <1>1, ElementOfSeq
<1> HIDE DEF X, Y, c
<1>5. /\ Len(X) = n + i - 1
      /\ \A k \in 1..(n - 1) : X[k] = P[k]
      /\ X[n] = P[n] \o Q[1]
      /\ \A k \in (n + 1)..(n + i - 1) : X[k] = Q[k - n + 1]
  BY <1>2, Zenon DEF IsJoined
<1>6. /\ Len(Y) = n + (i + 1) - 1
      /\ \A k \in 1..(n - 1) : Y[k] = P[k]
      /\ Y[n] = P[n] \o Q[1]
      /\ \A k \in (n + 1)..(n + (i + 1) - 1) : Y[k] = Q[k - n + 1]
  BY <1>3, Zenon DEF IsJoined
<1>7. /\ Z \in Seq(Seq(Symbols)) /\ Len(Z) = Len(X) + 1 /\ Z[Len(X) + 1] = c
      /\ \A k \in 1..Len(X) : Z[k] = X[k]
  BY <1>2, <1>4, AppendProperties
<1> HIDE DEF Z, n
<1>8. Len(Y) = n + i /\ Len(Z) = n + i
  BY <1>1, <1>5, <1>6, <1>7
<1>9. ASSUME NEW k \in 1..Len(Y) PROVE Y[k] = Z[k]
  <2>1. CASE k \in 1..(n - 1)
    <3>1. k \in 1..Len(X)
      BY <1>1, <1>5, <2>1
    <3> QED BY <1>5, <1>6, <1>7, <2>1, <3>1
  <2>2. CASE k = n
    <3>1. n \in 1..Len(X)
      BY <1>1, <1>5
    <3> QED BY <1>5, <1>6, <1>7, <2>2, <3>1
  <2>3. CASE k \in (n + 1)..(n + i - 1)
    <3>1. k \in 1..Len(X) /\ k \in (n + 1)..(n + (i + 1) - 1)
      BY <1>1, <1>5, <2>3
    <3> QED BY <1>5, <1>6, <1>7, <2>3, <3>1
  <2>4. CASE k = n + i
    <3>1. /\ k = Len(X) + 1 /\ k \in (n + 1)..(n + (i + 1) - 1) /\ k - n + 1 = i + 1
      BY <1>1, <1>5, <2>4
    <3> QED BY <1>6, <1>7, <3>1 DEF c
  <2> QED BY <1>1, <1>8, <2>1, <2>2, <2>3, <2>4
<1>10. Y = Z
  BY <1>3, <1>7, <1>8, <1>9, SeqEqual
<1> QED BY <1>10 DEF X, Y, Z, c

\* All pages of a delta are fed.
LEMMA PagesGoOn ==
  ASSUME NEW t \in Nat, NEW det \in Sound(t), ~det.detected, NEW P \in Seq(Seq(Symbols)),
         Len(P) \in Nat \ {0}, Corr(det, P), NEW Q \in Seq(Seq(Symbols)), Len(Q) \in Nat \ {0}
  PROVE  Verdict(FeedPages(det, Q), Join(P, Q))
<1> DEFINE n == Len(Q)
           J(i) == Joined(P, Q, i)
<1>1. det \in Detectors /\ Q # <<>>
  <2>1. Len(Q) # Len(<<>>)
    BY EmptySeq
  <2>2. Q # <<>>
    BY <2>1, Zenon
  <2> QED BY <2>2 DEF Sound
<1>2. PICK h : /\ h[1] = Consume(det, Q[1]) /\ FeedPages(det, Q) = h[n]
               /\ \A i \in 2..n : h[i] = NextPage(h[i - 1], Q[i])
  BY <1>1, PagesAreFed
<1>3. \A i \in 1..n : Q[i] \in Seq(Symbols)
  BY ElementOfSeq
<1>4. ASSUME NEW i \in 1..n PROVE J(i) \in Seq(Seq(Symbols)) /\ Len(J(i)) \in Nat \ {0}
  <2>1. J(i) \in Seq(Seq(Symbols)) /\ IsJoined(J(i), P, Q, i)
    BY JoinedIs
  <2>2. Len(J(i)) = Len(P) + i - 1
    BY <2>1 DEF IsJoined
  <2> HIDE DEF J
  <2> QED BY <2>1, <2>2
<1>5. ASSUME NEW i \in 1..(n - 1) PROVE J(i + 1) = Append(J(i), Q[i + 1])
  BY JoinedGoesOn
<1> DEFINE Ok(i) == h[i] \in Sound(t) /\ Verdict(h[i], J(i))
<1>6. Ok(1)
  <2>1. 1 \in 1..n
    OBVIOUS
  <2>2. h[1] \in Sound(t)
    BY <1>2, <1>3, <2>1, ConsumeIsSound
  <2>3. Verdict(h[1], J(1))
    BY <1>1, <1>2, LastGoesOn
  <2> QED BY <2>2, <2>3
<1> HIDE DEF n, J
<1>7. ASSUME NEW i \in 1..(n - 1), Ok(i) PROVE Ok(i + 1)
  <2>1. i + 1 \in 2..n /\ (i + 1) - 1 = i /\ i \in 1..n /\ i + 1 \in 1..n
    BY DEF n
  <2>2. h[i + 1] = NextPage(h[i], Q[i + 1])
    BY <1>2, <2>1
  <2> DEFINE x == h[i]
             W == J(i)
             c == Q[i + 1]
  <2>3. /\ x \in Sound(t) /\ W \in Seq(Seq(Symbols)) /\ Len(W) \in Nat \ {0} /\ Verdict(x, W)
        /\ c \in Seq(Symbols) /\ J(i + 1) = Append(W, c)
    BY <1>3, <1>4, <1>5, <1>7, <2>1
  <2> HIDE DEF x, W, c
  <2>4. NextPage(x, c) \in Sound(t) /\ Verdict(NextPage(x, c), Append(W, c))
    BY <2>3, NextPageIsSound, NextGoesOn
  <2> QED BY <2>2, <2>3, <2>4 DEF x, c
<1> DEFINE good == {i \in 0..(n - 1) : Ok(i + 1)}
<1>8. /\ n - 1 \in Nat /\ 0 \in good
      /\ \A i \in 1..(n - 1) : i - 1 \in good => i \in good
  <2>1. /\ n - 1 \in Nat /\ 0 \in 0..(n - 1) /\ 0 + 1 = 1
        /\ \A i \in 1..(n - 1) : i \in 0..(n - 1) /\ (i - 1) + 1 = i
    BY DEF n
  <2> HIDE DEF Ok
  <2> QED BY <1>6, <1>7, <2>1
<1>9. Ok(n)
  <2>1. n - 1 \in 0..(n - 1) /\ (n - 1) + 1 = n
    BY <1>8 DEF n
  <2>2. n - 1 \in good
    <3> HIDE DEF good
    <3> QED BY <1>8, <2>1, OneByOne
  <2> HIDE DEF Ok
  <2> QED BY <2>1, <2>2
<1> QED BY <1>2, <1>9 DEF Join, J, n

\* What is held of the text, and that it knows the rest.
Half(held) == IF held THEN <<"<PA">> ELSE <<>>
Knows(det, s) == (det.held <=> Held(s) = 1) /\ Corr(det, Pages(Given(s)))

\* Half a marker is one page, or none of it.
LEMMA HalfIs ==
  ASSUME NEW s \in Seq(Symbols), NEW held \in BOOLEAN, held <=> Held(s) = 1
  PROVE  /\ Half(held) \in Seq(Symbols) /\ Len(Half(held)) \in {0, 1}
         /\ s = Given(s) \o Half(held)
         /\ held => Len(Half(held)) = 1 /\ Half(held)[1] = "<PA"
         /\ ~held => Half(held) = <<>> /\ Given(s) = s
<1>1. CASE held
  <2>1. Half(held) = <<"<PA">>
    BY <1>1 DEF Half
  <2>2. LET h == <<"<PA">> IN h \in Seq(Symbols) /\ Len(h) = 1 /\ h[1] = "<PA"
    BY DEF Symbols
  <2>3. s = Given(s) \o <<"<PA">>
    BY <1>1, HeldIs
  <2> QED BY <1>1, <2>1, <2>2, <2>3
<1>2. CASE ~held
  <2>1. Half(held) = <<>>
    BY <1>2 DEF Half
  <2>2. <<>> \in Seq(Symbols) /\ Len(<<>>) = 0
    BY EmptySeq
  <2>3. Given(s) = s
    <3>1. Held(s) = 0
      BY <1>2, HeldIs
    <3> QED BY <3>1, HeldIs
  <2>4. s \o <<>> = s
    BY ConcatEmptySeq
  <2> QED BY <1>2, <2>1, <2>2, <2>3, <2>4
<1> QED BY <1>1, <1>2

-----------------------------------------------------------------------------
\* What it knows of the text, however it was cut.

\* What is held of a text that goes on is held of what it goes on with.
LEMMA HeldOfBoth ==
  ASSUME NEW g \in Seq(Symbols), NEW v \in Seq(Symbols), v # <<>> \/ Held(g) = 0
  PROVE  Held(g \o v) = Held(v) /\ Given(g \o v) = g \o Given(v)
<1> DEFINE u == g \o v
<1>1. CASE v = <<>>
  <2>1. u = g
    BY <1>1, ConcatEmptySeq
  <2>2. Held(g) = 0 /\ Held(v) = 0
    BY <1>1 DEF Held
  <2>3. Given(g) = g /\ Given(v) = v
    BY <2>2, HeldIs
  <2> QED BY <2>1, <2>2, <2>3
<1>2. CASE v # <<>>
  <2> DEFINE m == Len(g)
             k == Len(v)
             x == Given(u)
             y == Given(v)
             z == g \o y
             hold == Held(v)
  <2>1. m \in Nat /\ k \in Nat \ {0}
    BY <1>2, LenProperties, EmptySeq
  <2>2. /\ u \in Seq(Symbols) /\ Len(u) = m + k
        /\ \A i \in 1..(m + k) : u[i] = IF i <= m THEN g[i] ELSE v[i - m]
    BY ConcatProperties
  <2> HIDE DEF u
  <2>3. u # <<>> /\ u[Len(u)] = v[k]
    <3>1. Len(u) # Len(<<>>)
      BY <2>1, <2>2, EmptySeq
    <3>2. u # <<>>
      BY <3>1, Zenon
    <3> HIDE DEF m, k
    <3>3. Len(u) \in 1..(m + k) /\ ~(Len(u) <= m) /\ Len(u) - m = k
      BY <2>1, <2>2
    <3> QED BY <2>2, <3>2, <3>3
  <2>4. hold \in {0, 1} /\ (hold = 1 <=> v[k] = "<PA")
    BY <1>2, HeldIs
  <2>5. Held(u) = hold
    <3>1. Held(u) \in {0, 1} /\ (Held(u) = 1 <=> u[Len(u)] = "<PA")
      BY <2>2, <2>3, HeldIs
    <3> HIDE DEF hold
    <3> QED BY <2>3, <2>4, <3>1
  <2>6. /\ x \in Seq(Symbols) /\ Len(x) = Len(u) - Held(u)
        /\ \A i \in 1..(Len(u) - Held(u)) : x[i] = u[i]
    BY <2>2, HeldIs
  <2>7. /\ y \in Seq(Symbols) /\ Len(y) = k - hold /\ k - hold \in Nat
        /\ \A i \in 1..(k - hold) : y[i] = v[i]
    BY HeldIs
  <2> HIDE DEF x, y
  <2>8. /\ z \in Seq(Symbols) /\ Len(z) = m + Len(y)
        /\ \A i \in 1..(m + Len(y)) : z[i] = IF i <= m THEN g[i] ELSE y[i - m]
    BY <2>7, ConcatProperties
  <2> HIDE DEF z, m, k, hold
  <2>9. Len(x) = m + (k - hold) /\ Len(z) = m + (k - hold) /\ Len(u) - Held(u) = m + (k - hold)
    BY <2>1, <2>2, <2>4, <2>5, <2>6, <2>7, <2>8
  <2>10. ASSUME NEW i \in 1..Len(x) PROVE x[i] = z[i]
    <3>1. i \in 1..(m + k) /\ i \in 1..(m + Len(y)) /\ i \in 1..(Len(u) - Held(u))
      BY <2>1, <2>4, <2>7, <2>9
    <3>2. CASE i <= m
      BY <2>2, <2>6, <2>8, <3>1, <3>2
    <3>3. CASE ~(i <= m)
      <4>1. i - m \in 1..(k - hold)
        BY <2>1, <2>4, <2>9, <3>3
      <4> QED BY <2>2, <2>6, <2>7, <2>8, <3>1, <3>3, <4>1
    <3> QED BY <3>2, <3>3
  <2>11. x = z
    BY <2>6, <2>8, <2>9, <2>10, SeqEqual
  <2> QED BY <2>5, <2>11 DEF x, z, u, hold, y
<1> QED BY <1>1, <1>2

\* A text that goes on: what was held comes before the delta.
LEMMA GivenGoesOn ==
  ASSUME NEW s \in Seq(Symbols), NEW held \in BOOLEAN, held <=> Held(s) = 1,
         NEW delta \in Seq(Symbols)
  PROVE  LET data == Half(held) \o delta
         IN /\ data \in Seq(Symbols) /\ Held(s \o delta) = Held(data)
            /\ Given(s \o delta) = Given(s) \o Given(data)
            /\ ~Crosses(Given(s), Given(data))
<1> DEFINE g == Given(s)
           h == Half(held)
           data == h \o delta
           y == Given(data)
<1>1. /\ h \in Seq(Symbols) /\ Len(h) \in {0, 1} /\ s = g \o h
      /\ held => Len(h) = 1 /\ h[1] = "<PA"
      /\ ~held => h = <<>> /\ g = s
  BY HalfIs
<1>2. g \in Seq(Symbols)
  BY HeldIs
<1> HIDE DEF h, g
<1>3. data \in Seq(Symbols) /\ s \o delta = g \o data
  <2>1. data \in Seq(Symbols)
    BY <1>1, ConcatProperties
  <2>2. (g \o h) \o delta = g \o (h \o delta)
    BY <1>1, <1>2, ConcatAssociative
  <2> QED BY <1>1, <2>1, <2>2
<1>4. held => data # <<>> /\ data[1] = "<PA"
  <2>1. SUFFICES ASSUME held PROVE data # <<>> /\ data[1] = "<PA"
    OBVIOUS
  <2>2. Len(delta) \in Nat
    BY LenProperties
  <2>3. /\ Len(data) = Len(h) + Len(delta)
        /\ \A i \in 1..(Len(h) + Len(delta)) : data[i] = IF i <= Len(h) THEN h[i] ELSE delta[i - Len(h)]
    BY <1>1, ConcatProperties
  <2> HIDE DEF data
  <2>4. 1 \in 1..(Len(h) + Len(delta)) /\ 1 <= Len(h) /\ Len(data) # 0
    <3>1. Len(h) = 1
      BY <1>1, <2>1, Zenon
    <3>2. 1 + Len(delta) # 0 /\ 1 <= 1 /\ 1 \in 1..(1 + Len(delta))
      BY <2>2
    <3>3. Len(data) = Len(h) + Len(delta)
      BY <2>3, Zenon
    <3> QED BY <3>1, <3>2, <3>3, Zenon
  <2>5. data # <<>>
    <3>1. Len(data) # Len(<<>>)
      BY <2>4, EmptySeq
    <3> QED BY <3>1, Zenon
  <2> QED BY <1>1, <2>1, <2>3, <2>4, <2>5
<1> HIDE DEF data
<1>5. data # <<>> \/ Held(g) = 0
  <2>1. CASE held
    BY <1>4, <2>1
  <2>2. CASE ~held
    BY <1>1, <2>2, HeldIs
  <2> QED BY <2>1, <2>2
<1>6. Held(g \o data) = Held(data) /\ Given(g \o data) = g \o y
  BY <1>2, <1>3, <1>5, HeldOfBoth
<1>7. ~Crosses(g, y)
  <2>1. SUFFICES ASSUME g # <<>>, y # <<>>, g[Len(g)] = "<PA", y[1] = "GE>" PROVE FALSE
    BY DEF Crosses
  <2>2. Held(g) = 1
    BY <1>2, <2>1, HeldIs
  <2>3. held
    BY <1>1, <2>2
  <2>4. y[1] = data[1]
    <3>1. /\ y \in Seq(Symbols) /\ Len(y) = Len(data) - Held(data) /\ Len(data) - Held(data) \in Nat
          /\ \A i \in 1..(Len(data) - Held(data)) : y[i] = data[i]
      BY <1>3, HeldIs
    <3> HIDE DEF y
    <3>2. Len(y) # 0
      BY <2>1, <3>1, EmptySeq
    <3>3. 1 \in 1..(Len(data) - Held(data))
      BY <3>1, <3>2
    <3> QED BY <3>1, <3>3
  <2> QED BY <1>4, <2>1, <2>3, <2>4
<1> QED BY <1>3, <1>6, <1>7 DEF g, data, h

\* A delta is fed.
LEMMA FeedGoesOn ==
  ASSUME NEW t \in Nat, NEW det \in Sound(t), ~det.detected, NEW s \in Seq(Symbols),
         Knows(det, s), NEW delta \in Seq(Symbols)
  PROVE  LET r == Feed(det, delta)
         IN /\ r.detected => \/ r.reason = "rolling_repeat"
                             \/ IsExcessive(Pages(Given(s \o delta)), FALSE)
            /\ ~r.detected => Knows(r, s \o delta)
<1> DEFINE u == s \o delta
           data == Half(det.held) \o delta
           pages == Pages(data)
           rest == Last(pages)
           hold == Held(rest)
           contents == Append(Front(pages), SubSeq(rest, 1, Len(rest) - hold))
           free == [det EXCEPT !.held = FALSE]
           fed == FeedPages(free, contents)
           r == Feed(det, delta)
           P == Pages(Given(s))
           Q == Pages(Given(data))
<1>1. det \in Detectors /\ det.held \in BOOLEAN /\ (det.held <=> Held(s) = 1) /\ Corr(det, P)
  BY DEF Sound, Detectors, Knows
<1>2. r = IF fed.detected THEN fed ELSE [fed EXCEPT !.held = (hold = 1)]
  BY Zenon DEF Feed, Half
<1>3. /\ data \in Seq(Symbols) /\ Held(u) = Held(data)
      /\ Given(u) = Given(s) \o Given(data) /\ ~Crosses(Given(s), Given(data))
  BY <1>1, GivenGoesOn
<1> HIDE DEF data, u
<1>4. hold = Held(data) /\ contents = Q
  BY <1>3, HeldIsLast
<1>5. Given(s) \in Seq(Symbols) /\ Given(data) \in Seq(Symbols)
  BY <1>3, HeldIs
<1>6. Pages(Given(u)) = Join(P, Q)
  BY <1>3, <1>5, PagesJoin
<1>7. /\ P \in Seq(Seq(Symbols)) /\ Len(P) \in Nat \ {0}
      /\ Q \in Seq(Seq(Symbols)) /\ Len(Q) \in Nat \ {0}
  BY <1>5, PagesOfText
<1> HIDE DEF P, Q, contents, hold, r
<1>8. free \in Sound(t) /\ ~free.detected /\ Corr(free, P)
  <2>1. free \in Detectors /\ Same(free, det) /\ ~free.detected
    BY <1>1 DEF Detectors, Same
  <2>2. free.template = det.template /\ free.repeats = det.repeats
    BY <1>1 DEF Detectors
  <2> HIDE DEF free
  <2>3. free \in Sound(t)
    BY <2>1, AlikeIsSound DEF Alike
  <2>4. Corr(free, P)
    <3>1. PageIs(det, Last(P)) /\ Markers(det) = Len(P) - 1 /\ ~IsExcessive(P, FALSE)
      BY <1>1 DEF Corr
    <3>2. PageIs(free, Last(P))
      BY <2>1, <2>2, <3>1, SumsAlike DEF PageIs, Same
    <3>3. Markers(free) = Markers(det)
      BY <2>1 DEF Markers, Same
    <3> QED BY <3>1, <3>2, <3>3 DEF Corr
  <2> QED BY <2>1, <2>3, <2>4
<1> HIDE DEF free
<1>9. Verdict(fed, Join(P, Q)) /\ fed \in Sound(t)
  <2>1. contents \in Seq(Seq(Symbols)) /\ Len(contents) \in Nat \ {0} /\ contents = Q
    BY <1>4, <1>7
  <2>2. contents # <<>>
    <3>1. Len(contents) # Len(<<>>)
      BY <2>1, EmptySeq
    <3> QED BY <3>1, Zenon
  <2>3. Verdict(fed, Join(P, contents))
    BY <1>7, <1>8, <2>1, PagesGoOn
  <2>4. fed \in Sound(t)
    BY <1>8, <2>1, <2>2, PagesAreSound
  <2> QED BY <2>1, <2>3, <2>4
<1> HIDE DEF fed
<1>10. CASE fed.detected
  BY <1>2, <1>6, <1>9, <1>10 DEF Verdict, r, u
<1>11. CASE ~fed.detected
  <2>1. r = [fed EXCEPT !.held = (hold = 1)] /\ fed \in Detectors
    BY <1>2, <1>9, <1>11 DEF Sound
  <2>2. /\ ~r.detected
        /\ r.held <=> hold = 1
        /\ r.line = fed.line /\ r.chars = fed.chars /\ r.template = fed.template
        /\ r.repeats = fed.repeats /\ Markers(r) = Markers(fed)
    BY <1>11, <2>1 DEF Detectors, Markers
  <2>3. Corr(fed, Join(P, Q))
    BY <1>9, <1>11 DEF Verdict
  <2>4. Corr(r, Join(P, Q))
    BY <2>2, <2>3, SumsAlike DEF Corr, PageIs
  <2> QED BY <1>3, <1>4, <1>6, <2>2, <2>4 DEF Knows, r, u
<1> QED BY <1>10, <1>11

\* Tokens that are counted change nothing else, or end the generation.
LEMMA TokensGoOn ==
  ASSUME NEW det \in Detectors, NEW n \in Nat
  PROVE  LET r == FeedTokens(det, n)
         IN /\ det.detected => r = det
            /\ r.detected => (det.detected \/ r.reason = "page_token_limit")
            /\ ~r.detected => \A s : Knows(det, s) => Knows(r, s)
<1> DEFINE counted == [det EXCEPT !.tokens = @ + n]
           r == FeedTokens(det, n)
<1>1. det.detected => r = det
  BY DEF FeedTokens
<1>2. ~det.detected => r = counted \/ r = Trip(counted, "page_token_limit")
  BY Zenon DEF FeedTokens
<1>3. counted \in Detectors /\ Trip(counted, "page_token_limit").detected
      /\ Trip(counted, "page_token_limit").reason = "page_token_limit"
  <2>1. det.tokens + n \in Nat
    BY DEF Detectors
  <2>2. counted \in Detectors
    BY <2>1 DEF Detectors
  <2> HIDE DEF counted
  <2> QED BY <2>2 DEF Trip, Detectors
<1>4. /\ counted.detected = det.detected /\ counted.line = det.line /\ counted.chars = det.chars
      /\ counted.template = det.template /\ counted.repeats = det.repeats
      /\ counted.held = det.held
  BY DEF Detectors
<1>5. counted.page = det.page /\ counted.sawMarker = det.sawMarker
  BY DEF Detectors
<1> HIDE DEF counted, r
<1>6. ASSUME NEW s, Knows(det, s) PROVE Knows(counted, s)
  <2> DEFINE P == Pages(Given(s))
  <2>1. (det.held <=> Held(s) = 1) /\ Corr(det, P)
    BY <1>6 DEF Knows
  <2> HIDE DEF P
  <2>2. Markers(counted) = Markers(det)
    BY <1>5 DEF Markers
  <2>3. Corr(counted, P)
    BY <1>4, <2>1, <2>2, SumsAlike DEF Corr, PageIs
  <2>4. counted.held <=> Held(s) = 1
    BY <1>4, <2>1
  <2> QED BY <2>3, <2>4 DEF Knows, P
<1>7. r.detected => (det.detected \/ r.reason = "page_token_limit")
  BY <1>2, <1>3, <1>4
<1>8. ASSUME ~r.detected, NEW s, Knows(det, s) PROVE Knows(r, s)
  BY <1>1, <1>2, <1>3, <1>6, <1>8
<1> QED BY <1>1, <1>7, <1>8 DEF r

\* At the end of the stream what was held and the last line count, too.
LEMMA EndGoesOn ==
  ASSUME NEW t \in Nat, NEW det \in Sound(t), ~det.detected, NEW s \in Seq(Symbols),
         Knows(det, s)
  PROVE  LET r == EndOfStream(det)
         IN /\ r.detected => (r.reason = "rolling_repeat" \/ IsExcessive(Pages(s), TRUE))
            /\ ~r.detected => ~IsExcessive(Pages(s), TRUE)
<1> DEFINE g == Given(s)
           P == Pages(g)
           h == Half(det.held)
           Q == Pages(h)
           W == Pages(s)
           begun == [det EXCEPT !.held = FALSE]
           x == Consume(begun, h)
           f == FinishLine(x)
           r == EndOfStream(det)
<1>1. det \in Detectors /\ det.held \in BOOLEAN /\ (det.held <=> Held(s) = 1) /\ Corr(det, P)
  BY DEF Sound, Detectors, Knows
<1>2. r = CheckRolling(f, TRUE)
  BY Zenon DEF EndOfStream, Half
<1>3. /\ h \in Seq(Symbols) /\ Len(h) \in {0, 1} /\ s = g \o h /\ g \in Seq(Symbols)
      /\ h # <<>> => h[1] = "<PA"
  <2>1. /\ h \in Seq(Symbols) /\ Len(h) \in {0, 1} /\ s = g \o h
        /\ det.held => h[1] = "<PA"
        /\ ~det.held => h = <<>>
    BY <1>1, HalfIs
  <2>2. g \in Seq(Symbols)
    BY HeldIs
  <2> HIDE DEF g, h
  <2> QED BY <2>1, <2>2
<1>4. P \in Seq(Seq(Symbols)) /\ Len(P) \in Nat \ {0}
  BY <1>3, PagesOfText
<1> HIDE DEF g, h
<1>5. Q \in Seq(Seq(Symbols)) /\ Len(Q) = 1 /\ Q[1] = h
  BY <1>3, PagesOfText, OnePage
<1>6. W = Joined(P, Q, 1)
  <2>1. ~Crosses(g, h)
    BY <1>3 DEF Crosses
  <2>2. W = Join(P, Q)
    BY <1>3, <2>1, PagesJoin
  <2> HIDE DEF P, Q, W
  <2> QED BY <1>5, <2>2 DEF Join
<1>7. W \in Seq(Seq(Symbols)) /\ Len(W) \in Nat \ {0}
  BY PagesOfText
<1> HIDE DEF P, Q, W
<1>8. begun \in Sound(t) /\ begun \in Detectors /\ ~begun.detected /\ Corr(begun, P)
  <2>1. begun \in Detectors /\ Same(begun, det) /\ ~begun.detected
    BY <1>1 DEF Detectors, Same
  <2>2. begun.template = det.template /\ begun.repeats = det.repeats
    BY <1>1 DEF Detectors
  <2> HIDE DEF begun
  <2>3. begun \in Sound(t)
    BY <2>1, AlikeIsSound DEF Alike
  <2>4. PageIs(det, Last(P)) /\ Markers(det) = Len(P) - 1 /\ ~IsExcessive(P, FALSE)
    BY <1>1 DEF Corr
  <2>5. PageIs(begun, Last(P))
    BY <2>1, <2>2, <2>4, SumsAlike DEF PageIs, Same
  <2>6. Markers(begun) = Markers(det)
    BY <2>1 DEF Markers, Same
  <2> QED BY <2>1, <2>3, <2>4, <2>5, <2>6 DEF Corr
<1> HIDE DEF begun
<1>9. Verdict(x, W) /\ x \in Sound(t)
  <2>1. Len(Q) \in Nat \ {0}
    BY <1>5
  <2>2. Verdict(x, W)
    BY <1>4, <1>5, <1>6, <1>8, <2>1, LastGoesOn
  <2> QED BY <1>3, <1>8, <2>2, ConsumeIsSound
<1> HIDE DEF x, r
<1>10. x \in Detectors /\ x.detected \in BOOLEAN
  BY <1>9 DEF Sound, Detectors
<1>11. CASE x.detected
  <2>1. f = x
    BY <1>11 DEF FinishLine
  <2>2. r = x
    BY <1>2, <1>11, <2>1 DEF CheckRolling
  <2>3. x.reason = "rolling_repeat" \/ IsExcessive(W, TRUE)
    BY <1>7, <1>9, <1>11, ExcessGoesOn DEF Verdict
  <2> QED BY <1>11, <2>2, <2>3 DEF r, W
<1>12. CASE ~x.detected
  <2> DEFINE w == Last(W)
  <2>1. w \in Seq(Symbols)
    <3>1. Len(W) \in 1..Len(W)
      BY <1>7
    <3> QED BY <1>7, <3>1, ElementOfSeq DEF Last
  <2>2. PageIs(x, w) /\ ~IsExcessive(W, FALSE)
    BY <1>9, <1>12 DEF Verdict, Corr
  <2>3. ~Earlier(W) /\ ~PageIsExcessive(w, FALSE)
    BY <1>7, <2>2, ExcessIs
  <2>4. IsExcessive(W, TRUE) <=> PageIsExcessive(w, TRUE)
    BY <1>7, <2>3, ExcessIs
  <2> HIDE DEF w
  <2>5. f \in Detectors /\ (f.detected <=> PageIsExcessive(w, TRUE))
    BY <1>10, <1>12, <2>1, <2>2, <2>3, FinishFinds
  <2> HIDE DEF f
  <2>6. CASE f.detected
    <3>1. r = f
      BY <1>2, <2>6 DEF CheckRolling
    <3> QED BY <2>4, <2>5, <2>6, <3>1 DEF r, W
  <2>7. CASE ~f.detected
    <3>1. r.detected => r.reason = "rolling_repeat"
      BY <1>2, <2>5, <2>7, CheckIs
    <3>2. ~IsExcessive(W, TRUE)
      BY <2>4, <2>5, <2>7
    <3> QED BY <3>1, <3>2 DEF r, W
  <2> QED BY <2>6, <2>7
<1> QED BY <1>11, <1>12

\* What the detector knows of an unfinished text, and what it has found.
CutInv ==
  /\ text \in Seq(Symbols) /\ ended \in BOOLEAN
  /\ (~d.detected /\ ~ended) => Knows(d, text)
  /\ d.detected => (d.reason \in {"page_token_limit", "rolling_repeat"} \/ Excessive)
  /\ (~d.detected /\ ended) => ~Excessive

\* What is excessive, of an unfinished text and of one that has ended.
Excess(s, over) == IsExcessive(Pages(SubSeq(s, 1, Len(s) - (IF over THEN 0 ELSE Held(s)))), over)

\* It is said of what is not held, or at the end of all of the text.
LEMMA ExcessiveIs ==
  ASSUME NEW s \in Seq(Symbols)
  PROVE  /\ Excess(s, FALSE) <=> IsExcessive(Pages(Given(s)), FALSE)
         /\ Excess(s, TRUE) <=> IsExcessive(Pages(s), TRUE)
<1>1. Excess(s, FALSE) <=> IsExcessive(Pages(Given(s)), FALSE)
  BY Zenon DEF Excess, Given
<1>2. Excess(s, TRUE) <=> IsExcessive(Pages(s), TRUE)
  <2>1. Len(s) - 0 = Len(s)
    BY LenProperties
  <2>2. SubSeq(s, 1, Len(s) - 0) = s
    BY <2>1, SubSeqFull
  <2> QED BY <2>2, Zenon DEF Excess
<1> QED BY <1>1, <1>2

\* At first there is no text, and the detector knows an empty page.
LEMMA CutInvInit == Init => CutInv
<1> SUFFICES ASSUME Init PROVE CutInv
  OBVIOUS
<1>1. text = <<>> /\ ended = FALSE /\ ~d.detected /\ ~d.held
  BY DEF Init
<1>2. d.line = <<>> /\ d.chars = 0 /\ d.template = "none" /\ Markers(d) = 0
  BY DEF Init, Markers
<1> DEFINE e == <<>>
           P == Pages(e)
<1>3. e \in Seq(Symbols) /\ PageIs(d, e) /\ ~PageIsExcessive(e, FALSE)
  BY <1>2, EmptyPage
<1>4. Len(e) \in {0, 1} /\ Held(e) = 0
  BY EmptySeq DEF Held
<1> HIDE DEF e
<1>5. Given(e) = e
  BY <1>3, <1>4, HeldIs
<1>6. P \in Seq(Seq(Symbols)) /\ Len(P) = 1 /\ P[1] = e
  BY <1>3, <1>4, PagesOfText, OnePage
<1> HIDE DEF P
<1>7. Last(P) = e
  BY <1>6 DEF Last
<1>8. ~Earlier(P)
  <2>1. ~(Len(P) - 1 > MaxMarkers) /\ 1..(Len(P) - 1) = {}
    <3>1. Len(P) - 1 = 0 /\ ~(0 > MaxMarkers) /\ 1..0 = {}
      BY <1>6, RepetitionAssumption
    <3> QED BY <3>1, Zenon
  <2> QED BY <2>1, Zenon DEF Earlier
<1>9. ~IsExcessive(P, FALSE)
  <2>1. Len(P) \in Nat \ {0}
    BY <1>6
  <2> QED BY <1>3, <1>6, <1>7, <1>8, <2>1, ExcessIs
<1>10. Corr(d, P)
  <2>1. Markers(d) = Len(P) - 1
    BY <1>2, <1>6
  <2> QED BY <1>3, <1>7, <1>9, <2>1 DEF Corr
<1>11. Knows(d, e)
  BY <1>1, <1>4, <1>5, <1>10 DEF Knows, P
<1> QED BY <1>1, <1>3, <1>11 DEF CutInv, e

\* A put and the end of the stream: the detector knows the text that goes on, or has found
\* what is excessive of it.
LEMMA CutInvStep == Inv /\ CutInv /\ [Next]_vars => CutInv'
<1> SUFFICES ASSUME Inv, CutInv, [Next]_vars PROVE CutInv'
  OBVIOUS
<1>1. total \in Nat /\ d \in Sound(total) /\ Block \in Nat
  BY RepetitionAssumption DEF Inv
<1>2. CASE Put
  <2>1. ~d.detected /\ ended = FALSE /\ ended' = FALSE
    BY <1>2 DEF Put, CutInv
  <2>2. PICK n \in 1..Block, k \in 0..Block :
          \E delta \in [1..k -> Symbols] :
             d' = FeedTokens(Feed(d, delta), n) /\ text' = text \o delta
    BY <1>2 DEF Put
  <2>3. PICK delta \in [1..k -> Symbols] :
          d' = FeedTokens(Feed(d, delta), n) /\ text' = text \o delta
    BY <2>2
  <2>4. n \in Nat /\ delta \in Seq(Symbols)
    <3>1. n \in Nat /\ k \in Nat
      BY <1>1
    <3> QED BY <3>1
  <2> DEFINE fed == Feed(d, delta)
             u == text \o delta
  <2>5. text \in Seq(Symbols) /\ Knows(d, text) /\ u \in Seq(Symbols)
    <3>1. text \in Seq(Symbols) /\ Knows(d, text)
      BY <2>1 DEF CutInv
    <3> QED BY <2>4, <3>1, ConcatProperties
  <2>6. /\ fed.detected => \/ fed.reason = "rolling_repeat"
                           \/ IsExcessive(Pages(Given(u)), FALSE)
        /\ ~fed.detected => Knows(fed, u)
    BY <1>1, <2>1, <2>4, <2>5, FeedGoesOn
  <2>7. fed \in Detectors
    BY <1>1, <2>4, FeedIsSound DEF Sound
  <2> HIDE DEF fed, u
  <2>8. /\ fed.detected => d' = fed
        /\ d'.detected => (fed.detected \/ d'.reason = "page_token_limit")
        /\ ~d'.detected => (Knows(fed, u) => Knows(d', u))
    BY <2>3, <2>4, <2>7, TokensGoOn DEF fed
  <2>9. text' = u /\ (Excessive' <=> IsExcessive(Pages(Given(u)), FALSE))
    <3>1. text' = u
      BY <2>3 DEF u
    <3>2. Excessive' <=> Excess(u, FALSE)
      BY <2>1, <3>1, Zenon DEF Excessive, Excess
    <3> QED BY <2>5, <3>1, <3>2, ExcessiveIs
  <2>10. d'.detected => (d'.reason \in {"page_token_limit", "rolling_repeat"} \/ Excessive')
    BY <2>6, <2>8, <2>9
  <2>11. ~d'.detected => Knows(d', text')
    BY <2>6, <2>8, <2>9
  <2> QED BY <2>1, <2>5, <2>9, <2>10, <2>11 DEF CutInv
<1>3. CASE End
  <2>1. ~d.detected /\ ended = FALSE /\ ended' = TRUE /\ text' = text /\ d' = EndOfStream(d)
    BY <1>3 DEF End, CutInv
  <2>2. text \in Seq(Symbols) /\ Knows(d, text)
    BY <2>1 DEF CutInv
  <2> DEFINE r == EndOfStream(d)
  <2>3. /\ r.detected => (r.reason = "rolling_repeat" \/ IsExcessive(Pages(text), TRUE))
        /\ ~r.detected => ~IsExcessive(Pages(text), TRUE)
    BY <1>1, <2>1, <2>2, EndGoesOn
  <2>4. Excessive' <=> IsExcessive(Pages(text), TRUE)
    <3>1. Excessive' <=> Excess(text, TRUE)
      BY <2>1, Zenon DEF Excessive, Excess
    <3> QED BY <2>2, <3>1, ExcessiveIs
  <2> HIDE DEF r
  <2>5. d' = r
    BY <2>1 DEF r
  <2> QED BY <2>1, <2>2, <2>3, <2>4, <2>5 DEF CutInv
<1>4. CASE UNCHANGED vars
  <2>1. d' = d /\ text' = text /\ ended' = ended
    BY <1>4 DEF vars
  <2>2. Excessive' <=> Excessive
    BY <2>1, Zenon DEF Excessive
  <2> QED BY <2>1, <2>2 DEF CutInv
<1> QED BY <1>2, <1>3, <1>4 DEF Next

\* The detector knows the unfinished text in every state, and what it has found is there.
THEOREM DetectorKnowsTheText == Spec => []CutInv
BY CutInvInit, CutInvStep, DetectorIsSound, PTL DEF Spec

\* However the text was cut into deltas, the detector has found just what is excessive of
\* the whole text, but for the token limit and the rolling check, which go by the deltas.
THEOREM CutsAreHarmless == Spec => []CutsDoNotMatter
<1>1. CutInv => CutsDoNotMatter
  <2> SUFFICES ASSUME CutInv, d.reason \notin {"page_token_limit", "rolling_repeat"}
               PROVE  d.detected <=> Excessive
    BY DEF CutsDoNotMatter
  <2>1. text \in Seq(Symbols) /\ ended \in BOOLEAN
    BY DEF CutInv
  <2>2. CASE d.detected
    BY <2>2 DEF CutInv
  <2>3. CASE ~d.detected /\ ended
    BY <2>3 DEF CutInv
  <2>4. CASE ~d.detected /\ ~ended
    <3>1. Knows(d, text)
      BY <2>4 DEF CutInv
    <3>2. ~IsExcessive(Pages(Given(text)), FALSE)
      BY <3>1 DEF Knows, Corr
    <3>3. Excessive <=> Excess(text, FALSE)
      <4>1. ended = FALSE
        BY <2>1, <2>4
      <4> QED BY <4>1, Zenon DEF Excessive, Excess
    <3>4. ~Excessive
      BY <2>1, <3>2, <3>3, ExcessiveIs
    <3> QED BY <2>4, <3>4
  <2> QED BY <2>2, <2>3, <2>4
<1> QED BY <1>1, DetectorKnowsTheText, PTL
=============================================================================
