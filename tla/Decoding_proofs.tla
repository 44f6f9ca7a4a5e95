-------------------------- MODULE Decoding_proofs --------------------------
(***************************************************************************)
(* Proofs about Decoding for any prompt, block, n-gram, window and limits: *)
(* the fast loop writes the text the plain one would, and the model is fed *)
(* that text.                                                              *)
(***************************************************************************)
EXTENDS Decoding, FiniteSetTheorems, SequenceTheorems, TLAPS

OnGraph == pc \in {"warm", "capture", "replay"}

\* The tokens of the text that are in the ring and not on record yet.
Missing == position - base - drained

TypeInv ==
  /\ pc \in {"eager", "warm", "capture", "replay", "ended"}
  /\ seq \in Seq(Vocabulary) /\ wants \in Seq(Vocabulary) /\ Reference \in Seq(Vocabulary)
  /\ fed \in Seq(Vocabulary \X Nat) /\ cur \in Vocabulary
  /\ goal \in Nat /\ pending \in Nat /\ left \in Nat /\ position \in Nat /\ base \in Nat
  /\ drained \in Nat /\ finishedAt \in Nat
  /\ tail \in [0..(Window - 1) -> Vocabulary] /\ pos \in 0..(Window - 1) /\ count \in 0..Window

\* What is on record is the text, or the part of it up to the tokens in the ring.
RecordInv ==
  /\ Len(Reference) = Len(Prompt) + Len(wants)
  /\ Len(Prompt) <= Len(seq) /\ Len(seq) <= Len(Reference)
  /\ \A i \in 1..Len(seq) : seq[i] = Reference[i]
  /\ pc = "eager" => Len(seq) = Len(Reference)
  /\ OnGraph => Len(seq) = base + 1 + drained

\* The model's cache holds the text, all but the last token of it.
FedInv ==
  /\ Len(fed) <= Len(Reference)
  /\ \A i \in 1..Len(fed) : fed[i] = <<Reference[i], i - 1>>
  /\ pc # "ended" =>
       IF fed = <<>> THEN pc = "eager" /\ wants = <<>>
       ELSE Len(fed) = Len(Reference) - 1 /\ position = Len(Reference) - 1
  /\ goal > Len(Prompt)

\* A ring (its buffer, write position and fill) that holds the last tokens of text, in order.
RingHolds(ring, at, fill, text) ==
  /\ Len(text) <= Window => fill = Len(text)
  /\ Len(text) > Window => fill = Window
  /\ \A i \in 0..(Window - 1) :
       i + fill >= Window => ring[(at + i) % Window] = text[Len(text) - Window + i + 1]

RingInv == OnGraph => /\ cur = Reference[Len(Reference)]
                      /\ RingHolds(tail, pos, count, Reference)

\* How many tokens the host has not seen, and that it goes on when there are some.
PaceInv ==
  /\ pc = "eager" => pending <= Block /\ Len(Prompt) + pending <= Len(seq)
  /\ pc # "eager" => pending = 0
  /\ pending > 0 => finishedAt = 0 /\ ~stopped
  /\ pc = "warm" => Missing + left = Block /\ finishedAt = 0 /\ ~stopped
  /\ pc = "capture" => Missing = 0
  /\ pc = "replay" => Missing + left <= Block

\* The end of the text is where the host has seen it first.
EndInv ==
  /\ finishedAt = 0 => \A i \in (Len(Prompt) + 1) .. (Len(seq) - pending) : seq[i] # EndOfText
  /\ finishedAt # 0 =>
       /\ Len(Prompt) < finishedAt /\ finishedAt <= Len(seq) /\ seq[finishedAt] = EndOfText
       /\ \A i \in (Len(Prompt) + 1) .. (finishedAt - 1) : seq[i] # EndOfText
  /\ pc = "ended" =>
       IF finishedAt = 0 THEN stopped \/ Len(seq) >= MaxLength ELSE Len(seq) = finishedAt

Inv == TypeInv /\ RecordInv /\ FedInv /\ RingInv /\ PaceInv /\ EndInv

-----------------------------------------------------------------------------
\* Helpers of the filter and of the host's look at a block

\* A non-empty set of numbers has a least one (the first end of text of a block).
LEMMA LeastOf ==
  ASSUME NEW S \in SUBSET Nat, S # {}
  PROVE  Min(S) \in S /\ \A y \in S : Min(S) <= y
<1>1. PICK m \in S : TRUE
  OBVIOUS
<1> DEFINE R == StrictSubsetOrdering(Nat)
           T == {0..k : k \in {k \in S : k <= m}}
<1>2. IsWellFoundedOn(R, FiniteSubsetsOf(Nat))
  BY FS_StrictSubsetOrderingWellFounded
<1>3. T \subseteq FiniteSubsetsOf(Nat)
  <2>1. \A k \in Nat : 0..k \subseteq Nat /\ IsFiniteSet(0..k)
    BY FS_Interval
  <2> QED
    BY <2>1 DEF FiniteSubsetsOf
<1>4. 0..m \in T
  BY <1>1
<1>5. \E x \in T : \A y \in T : <<y, x>> \notin R
  BY <1>2, <1>3, <1>4, WFMin
<1>6. PICK k \in S : k <= m /\ \A y \in T : <<y, 0..k>> \notin R
  BY <1>5
<1>7. ASSUME NEW y \in S, y < k PROVE FALSE
  <2>1. 0..y \in T
    BY <1>6, <1>7, <1>1
  <2>2. 0..y \subseteq 0..k /\ k \in 0..k /\ k \notin 0..y
    BY <1>7
  <2>3. <<0..y, 0..k>> \in R
    BY <2>1, <2>2 DEF StrictSubsetOrdering
  <2> QED
    BY <1>6, <2>1, <2>3
<1>8. \A y \in S : k <= y
  BY <1>7
<1> QED
  BY <1>6, <1>8 DEF Min

\* min and max of two numbers.
LEMMA MinOfTwo ==
  ASSUME NEW a \in Int, NEW b \in Int
  PROVE  Min({a, b}) = IF a <= b THEN a ELSE b
BY DEF Min

LEMMA MaxOfTwo ==
  ASSUME NEW a \in Int, NEW b \in Int
  PROVE  Max({a, b}) = IF a >= b THEN a ELSE b
BY DEF Max

\* Division by the size of the vocabulary.
LEMMA InTheVocabulary ==
  /\ VocabSize \in Nat /\ VocabSize > 0 /\ 0 \in Vocabulary /\ Vocabulary \subseteq Nat
  /\ \A x \in Nat : x % VocabSize \in Vocabulary
  /\ \A x \in Vocabulary : x % VocabSize = x /\ (x + VocabSize) % VocabSize = x
BY DecodingAssumption DEF Vocabulary

\* The filtered argmax is a token, whatever is banned.
LEMMA PickIsAToken ==
  ASSUME NEW t \in Vocabulary, NEW banned
  PROVE  Pick(t, banned) \in Vocabulary
<1> DEFINE S == {k \in Vocabulary : (t + k) % VocabSize \notin banned}
<1>1. CASE Vocabulary \subseteq banned
  BY <1>1, InTheVocabulary DEF Pick
<1>2. CASE ~(Vocabulary \subseteq banned)
  <2>1. PICK v \in Vocabulary : v \notin banned
    BY <1>2
  <2>2. \E k \in Vocabulary : (t + k) % VocabSize = v
    <3>1. CASE v >= t
      <4>1. v - t \in Vocabulary /\ t + (v - t) = v
        BY <2>1, <3>1, InTheVocabulary DEF Vocabulary
      <4> QED
        BY <2>1, <4>1, InTheVocabulary
    <3>2. CASE ~(v >= t)
      <4>1. v + VocabSize - t \in Vocabulary /\ t + (v + VocabSize - t) = v + VocabSize
        BY <2>1, <3>2, InTheVocabulary DEF Vocabulary
      <4> QED
        BY <2>1, <4>1, InTheVocabulary
    <3> QED
      BY <3>1, <3>2
  <2>3. S # {} /\ S \subseteq Nat
    <3>1. S # {}
      BY <2>1, <2>2
    <3> QED
      BY <3>1, InTheVocabulary
  <2>4. Min(S) \in Nat
    BY <2>3, LeastOf
  <2>5. t + Min(S) \in Nat
    BY <2>4, InTheVocabulary
  <2>6. (t + Min(S)) % VocabSize \in Vocabulary
    BY <2>5, InTheVocabulary
  <2> QED
    BY <1>2, <2>6 DEF Pick
<1> QED
  BY <1>1, <1>2

-----------------------------------------------------------------------------
\* The reference text, which grows by one token a pass

\* The text x after one more pass, which favours t.
TextWith(x, t) == Append(x, Pick(t, Banned(x)))

\* The reference's texts, one for each number of passes.
IsText(f, w) == f = [k \in 0..Len(w) |-> IF k = 0 THEN Prompt ELSE TextWith(f[k - 1], w[k])]

\* There is one such function, and no other.
Defined(w) == \E f : IsText(f, w) /\ \A g : IsText(g, w) => g = f

TextOf(w) == (CHOOSE f : IsText(f, w))[Len(w)]

\* Reference is the text of the passes so far.
LEMMA ReferenceIs == Reference = TextOf(wants) /\ Reference' = TextOf(wants')
BY DEF Reference, TextOf, IsText, TextWith

\* Before the first pass the text is the prompt.
LEMMA TextBegins == Defined(<<>>) /\ TextOf(<<>>) = Prompt
<1> DEFINE f == [k \in 0..0 |-> Prompt]
<1>1. \A g : IsText(g, <<>>) <=> g = f
  <2>1. ASSUME NEW g PROVE IsText(g, <<>>) <=> g = f
    BY DEF IsText
  <2> QED
    BY <2>1
<1>2. IsText(CHOOSE g : IsText(g, <<>>), <<>>)
  BY <1>1
<1>3. (CHOOSE g : IsText(g, <<>>)) = f
  BY <1>1, <1>2
<1>4. f[0] = Prompt /\ Len(<<>>) = 0
  OBVIOUS
<1> HIDE DEF f
<1> QED
  BY <1>1, <1>3, <1>4 DEF Defined, TextOf

\* One more pass appends the token it favours, filtered by the text before it.
LEMMA TextGrows ==
  ASSUME NEW w \in Seq(Vocabulary), NEW t \in Vocabulary, Defined(w)
  PROVE  /\ Defined(Append(w, t))
         /\ TextOf(Append(w, t)) = TextWith(TextOf(w), t)
<1> DEFINE n == Len(w)
           v == Append(w, t)
<1>1. PICK f : IsText(f, w) /\ \A g : IsText(g, w) => g = f
  BY DEF Defined
<1>2. TextOf(w) = f[n]
  BY <1>1 DEF TextOf
<1>3. n \in Nat /\ Len(v) = n + 1 /\ v[n + 1] = t /\ \A k \in 1..n : v[k] = w[k]
  OBVIOUS
<1> DEFINE h == [k \in 0..(n + 1) |-> IF k <= n THEN f[k] ELSE TextWith(f[n], v[n + 1])]
<1>4. f = [k \in 0..n |-> IF k = 0 THEN Prompt ELSE TextWith(f[k - 1], w[k])]
  BY <1>1 DEF IsText
<1>41. \A k \in 1..n : f[k] = TextWith(f[k - 1], w[k])
  BY <1>4
<1>42. f[0] = Prompt
  BY <1>4
<1> HIDE DEF v
<1>5. IsText(h, v)
  <2>1. ASSUME NEW k \in 0..(n + 1)
        PROVE h[k] = IF k = 0 THEN Prompt ELSE TextWith(h[k - 1], v[k])
    <3>1. CASE k = 0
      BY <1>3, <1>4, <3>1
    <3>2. CASE k > 0 /\ k <= n
      <4>1. h[k] = f[k] /\ h[k - 1] = f[k - 1] /\ v[k] = w[k]
        BY <1>3, <3>2
      <4> QED
        BY <1>41, <3>2, <4>1
    <3>3. CASE k = n + 1
      BY <1>3, <3>3
    <3> QED
      BY <1>3, <3>1, <3>2, <3>3
  <2> QED
    BY <2>1, <1>3 DEF IsText
<1>6. ASSUME NEW g, IsText(g, v) PROVE g = h
  <2> DEFINE r == [k \in 0..n |-> g[k]]
  <2>1. g = [k \in 0..(n + 1) |-> IF k = 0 THEN Prompt ELSE TextWith(g[k - 1], v[k])]
    BY <1>3, <1>6 DEF IsText
  <2>2. ASSUME NEW k \in 0..n
        PROVE r[k] = IF k = 0 THEN Prompt ELSE TextWith(r[k - 1], w[k])
    <3>1. CASE k = 0
      BY <1>3, <2>1, <3>1
    <3>2. CASE k > 0
      <4>1. r[k] = g[k] /\ r[k - 1] = g[k - 1] /\ v[k] = w[k]
        BY <1>3, <3>2
      <4>2. g[k] = TextWith(g[k - 1], v[k])
        BY <1>3, <2>1, <3>2
      <4> QED
        BY <3>2, <4>1, <4>2
    <3> QED
      BY <1>3, <3>1, <3>2
  <2>3. IsText(r, w)
    BY <2>2 DEF IsText
  <2>4. r = f
    BY <2>3, <1>1
  <2>5. \A k \in 0..n : g[k] = f[k]
    BY <2>4
  <2>6. g[n + 1] = TextWith(g[n], v[n + 1])
    <3>1. n + 1 \in 0..(n + 1) /\ n + 1 # 0 /\ (n + 1) - 1 = n
      BY <1>3
    <3> QED
      BY <2>1, <3>1
  <2>7. g[n + 1] = TextWith(f[n], v[n + 1])
    BY <1>3, <2>5, <2>6
  <2>8. g = [k \in 0..(n + 1) |-> g[k]]
    BY <2>1
  <2>9. \A k \in 0..(n + 1) : g[k] = h[k]
    BY <1>3, <2>5, <2>7
  <2> QED
    BY <2>8, <2>9
<1>7. Defined(v)
  BY <1>5, <1>6 DEF Defined
<1>8. TextOf(v) = h[n + 1]
  BY <1>5, <1>6, <1>3 DEF TextOf
<1>9. h[n + 1] = TextWith(f[n], t)
  BY <1>3
<1> QED
  BY <1>2, <1>7, <1>8, <1>9 DEF v

-----------------------------------------------------------------------------
\* The ring of the filter

RingType == tail \in [0..(Window - 1) -> Vocabulary] /\ pos \in 0..(Window - 1) /\ count \in 0..Window

\* What the constants allow.
LEMMA Sizes == /\ NgramSize \in Nat /\ 2 <= NgramSize /\ Window \in Nat /\ NgramSize <= Window
               /\ Block \in Nat /\ 1 <= Block /\ Block <= Window
BY DecodingAssumption

\* The filter's ring bans what the filter over the whole text bans.
LEMMA RingBansTheSame ==
  ASSUME NEW text \in Seq(Vocabulary), RingType, RingHolds(tail, pos, count, text)
  PROVE  RingBanned = Banned(text)
<1> DEFINE n == Len(text)
           first == IF n <= Window THEN 0 ELSE n - Window
           InRing == {k \in 0..(Window - NgramSize) :
              /\ k + count >= Window
              /\ \A d \in 0..(NgramSize - 2) : Ordered(k + d) = Ordered(Window - NgramSize + 1 + d)}
           InText == {k \in first..(n - NgramSize) :
              \A d \in 1..(NgramSize - 1) : text[k + d] = text[n - NgramSize + 1 + d]}
<1> USE Sizes
<1> HIDE DEF InRing, InText
<1>1. n \in Nat
  OBVIOUS
<1>12. first \in Nat /\ (n <= Window => first = 0) /\ (n > Window => first = n - Window)
  OBVIOUS
<1>2. Max({0, n - Window}) = first
  BY <1>1, MaxOfTwo
<1> HIDE DEF first
<1>0. count \in Nat
  BY DEF RingType
<1>3. (n <= Window => count = n) /\ (n > Window => count = Window)
  BY DEF RingHolds
<1>4. ASSUME NEW i \in 0..(Window - 1), i + count >= Window
      PROVE  Ordered(i) = text[n - Window + i + 1]
  BY <1>4 DEF RingHolds, Ordered
<1>5. ASSUME NEW k \in InRing
      PROVE  /\ n - Window + k \in InText
             /\ Ordered(k + NgramSize - 1) = text[n - Window + k + NgramSize]
  <2>1. k \in Nat /\ k <= Window - NgramSize /\ k + count >= Window
    BY <1>5 DEF InRing
  <2>7. \A d \in 0..(NgramSize - 2) : Ordered(k + d) = Ordered(Window - NgramSize + 1 + d)
    BY <1>5 DEF InRing
  <2>2. n - Window + k \in first..(n - NgramSize)
    BY <1>0, <1>1, <1>3, <1>12, <2>1
  <2>3. ASSUME NEW d \in 1..(NgramSize - 1)
        PROVE text[n - Window + k + d] = text[n - NgramSize + 1 + d]
    <3>1. d - 1 \in 0..(NgramSize - 2)
      BY <2>3
    <3>2. Ordered(k + (d - 1)) = Ordered(Window - NgramSize + 1 + (d - 1))
      BY <2>7, <3>1
    <3>7. k + (d - 1) \in 0..(Window - 1) /\ k + (d - 1) + count >= Window
      BY <1>0, <1>1, <1>3, <1>12, <2>1, <2>3
    <3>3. Ordered(k + (d - 1)) = text[n - Window + (k + (d - 1)) + 1]
      BY <1>4, <3>7
    <3>4. Window - NgramSize + 1 + (d - 1) \in 0..(Window - 1)
           /\ Window - NgramSize + 1 + (d - 1) + count >= Window
      BY <1>0, <1>1, <1>3, <1>12, <2>1, <2>3
    <3>5. Ordered(Window - NgramSize + 1 + (d - 1))
            = text[n - Window + (Window - NgramSize + 1 + (d - 1)) + 1]
      BY <1>4, <3>4
    <3>6. /\ n - Window + (k + (d - 1)) + 1 = n - Window + k + d
          /\ n - Window + (Window - NgramSize + 1 + (d - 1)) + 1 = n - NgramSize + 1 + d
      BY <1>1, <2>1, <2>3
    <3> QED
      BY <3>2, <3>3, <3>5, <3>6
  <2>4. n - Window + k \in InText
    BY <2>2, <2>3 DEF InText
  <2>5. k + NgramSize - 1 \in 0..(Window - 1) /\ k + NgramSize - 1 + count >= Window
    BY <1>0, <1>1, <1>3, <1>12, <2>1
  <2>6. n - Window + (k + NgramSize - 1) + 1 = n - Window + k + NgramSize
    BY <2>1, <1>1
  <2> QED
    BY <1>4, <2>4, <2>5, <2>6
<1>6. ASSUME NEW m \in InText
      PROVE  m + Window - n \in InRing
  <2> DEFINE k == m + Window - n
  <2>1. m \in Nat /\ first <= m /\ m <= n - NgramSize
    BY <1>1, <1>6, <1>12 DEF InText
  <2>4. \A d \in 1..(NgramSize - 1) : text[m + d] = text[n - NgramSize + 1 + d]
    BY <1>1, <1>6, <1>12 DEF InText
  <2>2. k \in 0..(Window - NgramSize) /\ k + count >= Window
    BY <1>0, <1>1, <1>3, <1>12, <2>1
  <2>3. ASSUME NEW d \in 0..(NgramSize - 2)
        PROVE Ordered(k + d) = Ordered(Window - NgramSize + 1 + d)
    <3>1. d + 1 \in 1..(NgramSize - 1)
      BY <2>3
    <3>2. text[m + (d + 1)] = text[n - NgramSize + 1 + (d + 1)]
      BY <2>4, <3>1
    <3>3. k + d \in 0..(Window - 1) /\ k + d + count >= Window
      BY <1>0, <1>1, <1>3, <1>12, <2>2, <2>3
    <3>4. Window - NgramSize + 1 + d \in 0..(Window - 1)
           /\ Window - NgramSize + 1 + d + count >= Window
      BY <1>0, <1>1, <1>3, <1>12, <2>2, <2>3
    <3>5. /\ n - Window + (k + d) + 1 = m + (d + 1)
          /\ n - Window + (Window - NgramSize + 1 + d) + 1 = n - NgramSize + 1 + (d + 1)
      BY <1>1, <2>1, <2>3
    <3>6. Ordered(k + d) = text[m + (d + 1)]
      BY <1>4, <3>3, <3>5
    <3>7. Ordered(Window - NgramSize + 1 + d) = text[n - NgramSize + 1 + (d + 1)]
      BY <1>4, <3>4, <3>5
    <3> QED
      BY <3>2, <3>6, <3>7
  <2> QED
    BY <2>2, <2>3 DEF InRing
<1>7. RingBanned = {Ordered(k + NgramSize - 1) : k \in InRing}
  BY DEF RingBanned, InRing
<1>8. Banned(text) = {text[m + NgramSize] : m \in InText}
  BY <1>2 DEF Banned, InText
<1>9. \A m \in InText : m \in Int /\ n - Window + (m + Window - n) = m
  BY <1>1, <1>12 DEF InText
<1>10. ASSUME NEW x \in RingBanned PROVE x \in Banned(text)
  <2>1. PICK k \in InRing : x = Ordered(k + NgramSize - 1)
    BY <1>7
  <2> QED
    BY <1>5, <1>8, <2>1
<1>11. ASSUME NEW x \in Banned(text) PROVE x \in RingBanned
  <2>1. PICK m \in InText : x = text[m + NgramSize]
    BY <1>8
  <2>2. m + Window - n \in InRing
    BY <1>6
  <2>3. Ordered((m + Window - n) + NgramSize - 1) = text[m + NgramSize]
    BY <1>5, <1>9, <2>2
  <2> QED
    BY <1>7, <2>1, <2>2, <2>3
<1> QED
  BY <1>10, <1>11

\* A token pushed takes the place of the oldest one.
LEMMA PushKeepsTheRing ==
  ASSUME NEW text \in Seq(Vocabulary), NEW t \in Vocabulary, RingType,
         RingHolds(tail, pos, count, text), Push(t)
  PROVE  /\ RingType'
         /\ RingHolds(tail', pos', count', Append(text, t))
<1> USE Sizes
<1> DEFINE n == Len(text)
           v == Append(text, t)
<1>1. n \in Nat /\ Len(v) = n + 1 /\ v[n + 1] = t /\ \A i \in 1..n : v[i] = text[i]
  OBVIOUS
<1>0. count \in Nat
  BY DEF RingType
<1>2. (count < Window => count' = count + 1) /\ (count >= Window => count' = Window)
  BY <1>0, MinOfTwo DEF Push
<1>3. RingType'
  BY <1>0, <1>2 DEF Push, RingType
<1>4. (n + 1 <= Window => count' = n + 1) /\ (n + 1 > Window => count' = Window)
  BY <1>0, <1>1, <1>2 DEF RingHolds
<1>5. ASSUME NEW i \in 0..(Window - 1), i + count' >= Window
      PROVE  tail'[(pos' + i) % Window] = v[n + 1 - Window + i + 1]
  <2>1. pos \in 0..(Window - 1) /\ tail \in [0..(Window - 1) -> Vocabulary]
    BY DEF RingType
  <2>2. pos' = IF pos + 1 = Window THEN 0 ELSE pos + 1
    BY <2>1 DEF Push
  <2>3. CASE i = Window - 1
    <3>1. (pos' + i) % Window = pos
      BY <2>1, <2>2, <2>3
    <3>2. tail'[pos] = t
      BY <2>1 DEF Push
    <3> QED
      BY <1>1, <2>3, <3>1, <3>2
  <2>4. CASE i < Window - 1
    <3>1. (pos' + i) % Window = (pos + (i + 1)) % Window /\ (pos + (i + 1)) % Window # pos
           /\ (pos + (i + 1)) % Window \in 0..(Window - 1)
      BY <2>1, <2>2, <2>4
    <3>2. tail'[(pos' + i) % Window] = tail[(pos + (i + 1)) % Window]
      BY <2>1, <3>1 DEF Push
    <3>3. i + 1 \in 0..(Window - 1) /\ (i + 1) + count >= Window
      BY <1>0, <1>2, <1>5, <2>4
    <3>4. tail[(pos + (i + 1)) % Window] = text[n - Window + (i + 1) + 1]
      BY <3>3 DEF RingHolds
    <3>5. n - Window + (i + 1) + 1 \in 1..n /\ n - Window + (i + 1) + 1 = n + 1 - Window + i + 1
      BY <1>0, <1>1, <3>3, <2>4 DEF RingHolds
    <3> QED
      BY <1>1, <3>2, <3>4, <3>5
  <2>5. i = Window - 1 \/ i < Window - 1
    OBVIOUS
  <2> QED
    BY <2>3, <2>4, <2>5
<1>6. count' \in Nat /\ pos' \in Nat
  BY <1>3 DEF RingType
<1> HIDE DEF v
<1>7. RingHolds(tail', pos', count', v)
  <2>1. Len(v) - Window = n + 1 - Window /\ Len(v) = n + 1
    BY <1>1
  <2>2. ASSUME NEW i \in 0..(Window - 1), i + count' >= Window
        PROVE  tail'[(pos' + i) % Window] = v[Len(v) - Window + i + 1]
    <3>1. Len(v) - Window + i + 1 = n + 1 - Window + i + 1
      BY <1>1
    <3> QED
      BY <1>5, <2>2, <3>1
  <2> QED
    BY <1>4, <2>1, <2>2 DEF RingHolds
<1> QED
  BY <1>3, <1>7 DEF v

\* prime writes the last tokens of input_ids into the ring.
LEMMA PrimeFillsTheRing ==
  ASSUME NEW text \in Seq(Vocabulary), Prime(text)
  PROVE  RingType' /\ RingHolds(tail', pos', count', text)
<1> USE Sizes
<1> DEFINE n == Len(text)
           k == IF n <= Window THEN n ELSE Window
<1>1. n \in Nat /\ Min({n, Window}) = k
  BY MinOfTwo
<1>7. k \in Nat /\ (n <= Window => k = n) /\ (n > Window => k = Window)
  BY <1>1
<1> HIDE DEF k
<1>2. /\ tail' = [i \in 0..(Window - 1) |-> IF i < k THEN text[n - k + i + 1] ELSE 0]
      /\ pos' = k % Window /\ count' = k
  BY <1>1 DEF Prime
<1>3. \A i \in 1..n : text[i] \in Vocabulary
  OBVIOUS
<1>4. k \in 0..n /\ k <= Window
  BY <1>1, <1>7
<1>5. RingType'
  <2>1. k % Window \in 0..(Window - 1)
    BY <1>4
  <2>2. ASSUME NEW i \in 0..(Window - 1)
        PROVE (IF i < k THEN text[n - k + i + 1] ELSE 0) \in Vocabulary
    <3>1. i < k => n - k + i + 1 \in 1..n
      BY <1>1, <1>4
    <3> QED
      BY <1>3, <3>1, InTheVocabulary
  <2> QED
    BY <1>2, <1>4, <2>1, <2>2 DEF RingType
<1>6. ASSUME NEW i \in 0..(Window - 1), i + k >= Window
      PROVE  tail'[(pos' + i) % Window] = text[n - Window + i + 1]
  <2>1. CASE k = Window
    <3>1. (pos' + i) % Window = i
      BY <1>2, <2>1
    <3> QED
      BY <1>2, <2>1, <3>1
  <2>2. CASE k < Window
    <3>1. k = n /\ (pos' + i) % Window = i + k - Window
      <4>0. k % Window = k
        BY <1>7, <2>2
      <4>1. k = n /\ pos' = k
        BY <1>1, <1>2, <1>7, <2>2, <4>0
      <4>2. i + k - Window \in 0..(Window - 1)
        BY <1>6, <1>7, <2>2
      <4>3. k + i = (i + k - Window) + Window
        BY <1>7
      <4>4. ((i + k - Window) + Window) % Window = i + k - Window
        BY <4>2
      <4> QED
        BY <4>1, <4>3, <4>4
    <3>2. i + k - Window \in 0..(Window - 1) /\ i + k - Window < k
      BY <1>4, <1>6, <2>2
    <3> QED
      BY <1>1, <1>2, <3>1, <3>2
  <2> QED
    BY <1>4, <2>1, <2>2
<1> QED
  BY <1>1, <1>2, <1>5, <1>6, <1>7 DEF RingHolds

\* recent: the last k tokens, for a k the ring is filled up to.
LEMMA RecentIsTheTail ==
  ASSUME NEW text \in Seq(Vocabulary), RingType, RingHolds(tail, pos, count, text),
         NEW k \in Nat, k <= count
  PROVE  /\ Recent(k) \in Seq(Vocabulary) /\ Len(Recent(k)) = k
         /\ \A i \in 1..k : Recent(k)[i] = text[Len(text) - k + i]
<1> USE Sizes
<1> DEFINE n == Len(text)
<1>1. n \in Nat /\ count \in 0..Window /\ count <= n
  BY DEF RingType, RingHolds
<1>2. ASSUME NEW i \in 1..k PROVE Ordered(Window - k + i - 1) = text[n - k + i]
  <2>1. Window - k + i - 1 \in 0..(Window - 1) /\ Window - k + i - 1 + count >= Window
    BY <1>1, <1>2
  <2>2. n - Window + (Window - k + i - 1) + 1 = n - k + i
    BY <1>1, <1>2
  <2> QED
    BY <2>1, <2>2 DEF RingHolds, Ordered
<1>3. \A i \in 1..k : n - k + i \in 1..n
  BY <1>1
<1>4. \A i \in 1..n : text[i] \in Vocabulary
  OBVIOUS
<1>5. Recent(k) \in [1..k -> Vocabulary]
  BY <1>2, <1>3, <1>4 DEF Recent
<1>6. Recent(k) \in Seq(Vocabulary) /\ Len(Recent(k)) = k
  BY <1>5
<1> QED
  BY <1>2, <1>6 DEF Recent

-----------------------------------------------------------------------------
\* The host's look at the tokens it has not seen

\* It finds the first end of text, wherever in the block that is.
LEMMA HostSees ==
  ASSUME NEW s \in Seq(Vocabulary), NEW new \in Seq(Vocabulary), NEW p \in Nat,
         p + Len(new) <= Len(s),
         \A i \in 1..Len(new) : new[i] = s[Len(s) - Len(new) + i],
         \A i \in (p + 1)..(Len(s) - Len(new)) : s[i] # EndOfText,
         HostReads(s, new)
  PROVE  /\ finishedAt' \in Nat
         /\ finishedAt' = 0 => \A i \in (p + 1)..Len(s) : s[i] # EndOfText
         /\ finishedAt' # 0 =>
              /\ p < finishedAt' /\ finishedAt' <= Len(s) /\ s[finishedAt'] = EndOfText
              /\ \A i \in (p + 1)..(finishedAt' - 1) : s[i] # EndOfText
<1> DEFINE n == Len(s)
           m == Len(new)
           end == {i \in 1..m : new[i] = EndOfText}
<1>1. n \in Nat /\ m \in Nat /\ p + m <= n
  OBVIOUS
<1>2. \A i \in 1..m : new[i] = s[n - m + i]
  OBVIOUS
<1>3. \A i \in (p + 1)..(n - m) : s[i] # EndOfText
  OBVIOUS
<1>4. finishedAt' = IF end = {} THEN 0 ELSE n - m + Min(end)
  BY DEF HostReads
<1> HIDE DEF n, m
<1>5. CASE end = {}
  <2>1. ASSUME NEW i \in (p + 1)..n PROVE s[i] # EndOfText
    <3>1. CASE i <= n - m
      BY <1>1, <1>3, <3>1
    <3>2. CASE i > n - m
      <4>1. i - (n - m) \in 1..m /\ n - m + (i - (n - m)) = i
        BY <1>1, <3>2
      <4>2. new[i - (n - m)] # EndOfText
        BY <1>5, <4>1
      <4> QED
        BY <1>2, <4>1, <4>2
    <3> QED
      BY <1>1, <3>1, <3>2
  <2> QED
    BY <1>4, <1>5, <2>1 DEF n
<1>6. CASE end # {}
  <2>1. end \in SUBSET Nat
    BY <1>1
  <2>2. Min(end) \in end /\ \A y \in end : Min(end) <= y
    BY <1>6, <2>1, LeastOf
  <2> DEFINE e == Min(end)
  <2>3. e \in 1..m /\ new[e] = EndOfText /\ \A y \in 1..m : new[y] = EndOfText => e <= y
    BY <2>2
  <2>4. finishedAt' = n - m + e
    BY <1>4, <1>6
  <2> HIDE DEF e, end
  <2>5. finishedAt' \in Nat /\ finishedAt' # 0 /\ p < finishedAt' /\ finishedAt' <= n
    BY <1>1, <2>3, <2>4
  <2>6. s[finishedAt'] = EndOfText
    BY <1>2, <2>3, <2>4
  <2>7. ASSUME NEW i \in (p + 1)..(n - m + e - 1) PROVE s[i] # EndOfText
    <3>1. CASE i <= n - m
      BY <1>1, <1>3, <3>1
    <3>2. CASE i > n - m
      <4>1. i - (n - m) \in 1..m /\ n - m + (i - (n - m)) = i /\ ~(e <= i - (n - m))
        BY <1>1, <2>3, <3>2
      <4>2. new[i - (n - m)] # EndOfText
        BY <2>3, <4>1
      <4> QED
        BY <1>2, <4>1, <4>2
    <3> QED
      BY <1>1, <3>1, <3>2
  <2>8. \A i \in (p + 1)..(finishedAt' - 1) : s[i] # EndOfText
    BY <1>1, <2>3, <2>4, <2>7
  <2> QED
    BY <2>5, <2>6, <2>8 DEF n
<1> QED
  BY <1>5, <1>6

-----------------------------------------------------------------------------
\* The reference from one state to the next

\* A forward pass that favours t appends one token to the reference.
LEMMA ReferenceGrows ==
  ASSUME TypeInv, Defined(wants), NEW t \in Vocabulary, wants' = Append(wants, t)
  PROVE  /\ Pick(t, Banned(Reference)) \in Vocabulary
         /\ Reference' = Append(Reference, Pick(t, Banned(Reference)))
         /\ wants' \in Seq(Vocabulary) /\ Reference' \in Seq(Vocabulary) /\ Defined(wants')
         /\ wants' # <<>> /\ Len(wants') = Len(wants) + 1 /\ Len(Reference') = Len(Reference) + 1
<1>1. wants \in Seq(Vocabulary) /\ Reference \in Seq(Vocabulary)
  BY DEF TypeInv
<1>2. Pick(t, Banned(Reference)) \in Vocabulary
  BY PickIsAToken
<1>3. Defined(Append(wants, t)) /\ TextOf(Append(wants, t)) = TextWith(TextOf(wants), t)
  BY <1>1, TextGrows
<1>4. Reference' = Append(Reference, Pick(t, Banned(Reference)))
  BY <1>3, ReferenceIs DEF TextWith
<1> QED
  BY <1>1, <1>2, <1>3, <1>4

\* Without a pass it stays.
LEMMA ReferenceStays == wants' = wants => Reference' = Reference
BY ReferenceIs

IInv == Inv /\ Defined(wants)

\* One call begins with the prompt, an empty cache and an empty ring.
LEMMA IInvInit == Init => IInv
<1> SUFFICES ASSUME Init PROVE IInv
  OBVIOUS
<1>1. Reference = Prompt /\ Defined(wants)
  BY TextBegins, ReferenceIs DEF Init
<1>2. Prompt \in Seq(Vocabulary) /\ Len(Prompt) \in Nat /\ MaxLength \in Nat
       /\ Len(Prompt) < MaxLength /\ RingWindow \in Nat \ {0}
  BY DecodingAssumption
<1>3. pc = "eager" /\ seq = Prompt /\ fed = <<>> /\ wants = <<>> /\ pending = 0 /\ finishedAt = 0
  BY DEF Init
<1>4. goal \in Nat /\ goal > Len(Prompt)
  BY <1>2, Sizes DEF Init
<1>5. TypeInv
  <2>1. cur \in Vocabulary /\ tail \in [0..(Window - 1) -> Vocabulary]
    BY InTheVocabulary DEF Init
  <2>2. pos \in 0..(Window - 1) /\ count \in 0..Window
    BY Sizes DEF Init
  <2>3. left = 0 /\ position = 0 /\ base = 0 /\ drained = 0
    BY DEF Init
  <2> QED
    BY <1>1, <1>2, <1>3, <1>4, <2>1, <2>2, <2>3 DEF TypeInv
<1>6. RecordInv
  BY <1>1, <1>2, <1>3 DEF RecordInv, OnGraph
<1>7. FedInv
  BY <1>1, <1>2, <1>3, <1>4 DEF FedInv
<1>8. RingInv
  BY <1>3 DEF RingInv, OnGraph
<1>9. PaceInv
  BY <1>2, <1>3, Sizes DEF PaceInv
<1>10. EndInv
  BY <1>2, <1>3 DEF EndInv
<1> QED
  BY <1>1, <1>5, <1>6, <1>7, <1>8, <1>9, <1>10 DEF IInv, Inv

\* On record in the step-by-step loop is the whole text.
LEMMA EagerHasTheText == TypeInv /\ RecordInv /\ pc = "eager" => seq = Reference
<1> SUFFICES ASSUME TypeInv, RecordInv, pc = "eager" PROVE seq = Reference
  OBVIOUS
<1>1. seq \in Seq(Vocabulary) /\ Reference \in Seq(Vocabulary)
  BY DEF TypeInv
<1>2. Len(seq) = Len(Reference) /\ \A i \in 1..Len(seq) : seq[i] = Reference[i]
  BY DEF RecordInv
<1> QED
  BY <1>1, <1>2, SeqEqual

\* The model's cache after a pass that fed the last token of the text.
LEMMA CacheGrows ==
  ASSUME NEW text \in Seq(Vocabulary), NEW cache \in Seq(Vocabulary \X Nat), NEW next \in Vocabulary,
         Len(cache) = Len(text) - 1, \A i \in 1..Len(cache) : cache[i] = <<text[i], i - 1>>,
         NEW new, new = cache \o <<<<text[Len(text)], Len(text) - 1>>>>
  PROVE  /\ new \in Seq(Vocabulary \X Nat) /\ new # <<>>
         /\ Len(new) = Len(Append(text, next)) - 1
         /\ \A i \in 1..Len(new) : new[i] = <<Append(text, next)[i], i - 1>>
<1> DEFINE n == Len(text)
           x == <<text[n], n - 1>>
<1>1. n \in Nat /\ n >= 1 /\ Len(cache) = n - 1
  OBVIOUS
<1>2. text[n] \in Vocabulary
  BY <1>1
<1>3. x \in Vocabulary \X Nat
  BY <1>1, <1>2
<1> HIDE DEF x
<1>4. <<x>> \in Seq(Vocabulary \X Nat) /\ Len(<<x>>) = 1 /\ <<x>>[1] = x
  BY <1>3
<1>5. new = cache \o <<x>>
  BY DEF x
<1>6. new \in Seq(Vocabulary \X Nat) /\ Len(new) = n
  BY <1>1, <1>4, <1>5, ConcatProperties
<1>7. Len(Append(text, next)) = n + 1 /\ \A i \in 1..n : Append(text, next)[i] = text[i]
  OBVIOUS
<1>8. ASSUME NEW i \in 1..n PROVE new[i] = <<text[i], i - 1>>
  <2>1. CASE i < n
    <3>1. new[i] = cache[i]
      BY <1>1, <1>4, <1>5, <2>1, ConcatProperties
    <3> QED
      BY <1>1, <2>1, <3>1
  <2>2. CASE i = n
    <3>2. i - Len(cache) = 1 /\ i > Len(cache) /\ i \in 1..(Len(cache) + Len(<<x>>))
      BY <1>1, <1>4, <2>2
    <3>1. new[i] = <<x>>[i - Len(cache)]
      BY <1>4, <1>5, <3>2, ConcatProperties
    <3> QED
      BY <1>4, <2>2, <3>1, <3>2 DEF x
  <2> QED
    BY <1>1, <2>1, <2>2
<1>9. new # <<>>
  BY <1>1, <1>6
<1> QED
  BY <1>1, <1>6, <1>7, <1>8, <1>9

\* prefill, and a step of the step-by-step loop.
LEMMA EagerStepKeeps == IInv /\ EagerStep => IInv'
<1> SUFFICES ASSUME IInv, EagerStep PROVE IInv'
  OBVIOUS
<1>0. TypeInv /\ RecordInv /\ FedInv /\ PaceInv /\ EndInv /\ Defined(wants) /\ Sizes
  BY Sizes DEF IInv, Inv
<1>1. PICK t \in Vocabulary :
        /\ Forward(IF fed = <<>> THEN [i \in 1..Len(seq) |-> <<seq[i], i - 1>>]
                   ELSE <<<<Last(seq), position>>>>, t)
        /\ seq' = Append(seq, Pick(t, Banned(seq)))
  BY DEF EagerStep
<1>2. /\ pc = "eager" /\ pc' = "eager" /\ pending < Block /\ pending' = pending + 1
      /\ finishedAt = 0 /\ finishedAt' = 0 /\ ~stopped /\ stopped' = stopped
      /\ goal' = goal /\ left' = left /\ cur' = cur /\ base' = base /\ drained' = drained
      /\ tail' = tail /\ pos' = pos /\ count' = count
      /\ position' = IF fed = <<>> THEN Len(seq) ELSE position + 1
  BY DEF EagerStep, Done, graphVars, ringVars, hostVars
<1>3. seq = Reference
  BY <1>0, <1>2, EagerHasTheText
<1> DEFINE next == Pick(t, Banned(Reference))
           text == Append(Reference, next)
<1>4. wants' = Append(wants, t)
  BY <1>1 DEF Forward
<1>5. /\ next \in Vocabulary /\ Reference' = text /\ seq' = text
      /\ wants' \in Seq(Vocabulary) /\ text \in Seq(Vocabulary) /\ Defined(wants')
      /\ wants' # <<>> /\ Len(wants') = Len(wants) + 1 /\ Len(text) = Len(Reference) + 1
  BY <1>0, <1>1, <1>3, <1>4, ReferenceGrows
<1>6. Reference \in Seq(Vocabulary) /\ seq \in Seq(Vocabulary) /\ Len(Reference) \in Nat
       /\ fed \in Seq(Vocabulary \X Nat) /\ wants \in Seq(Vocabulary) /\ Len(wants) \in Nat
       /\ goal \in Nat /\ pending \in Nat /\ position \in Nat
  BY <1>0 DEF TypeInv
<1>7. Len(Prompt) \in Nat /\ 0 < Len(Prompt) /\ Len(Reference) = Len(Prompt) + Len(wants)
  BY <1>0, DecodingAssumption DEF RecordInv
<1>8. /\ fed' \in Seq(Vocabulary \X Nat) /\ fed' # <<>> /\ Len(fed') = Len(text) - 1
      /\ \A i \in 1..Len(fed') : fed'[i] = <<text[i], i - 1>>
      /\ position' = Len(text) - 1
  <2>1. CASE fed = <<>>
    <3> DEFINE all == [i \in 1..Len(Reference) |-> <<Reference[i], i - 1>>]
    <3>1. fed' = <<>> \o all
      BY <1>1, <1>3, <2>1 DEF Forward
    <3>2. all \in Seq(Vocabulary \X Nat) /\ Len(all) = Len(Reference)
           /\ \A i \in 1..Len(Reference) : all[i] = <<Reference[i], i - 1>>
      BY <1>6
    <3> HIDE DEF all
    <3>3. fed' = all
      BY <3>1, <3>2, ConcatEmptySeq
    <3>4. \A i \in 1..Len(Reference) : text[i] = Reference[i]
      BY <1>5, <1>6
    <3>5. position' = Len(Reference)
      BY <1>2, <1>3, <2>1
    <3> HIDE DEF text
    <3>6. Len(all) >= 1
      BY <1>6, <1>7, <3>2
    <3>7. all # <<>>
      BY <3>6
    <3> QED
      BY <1>5, <1>6, <3>2, <3>3, <3>4, <3>5, <3>7
  <2>2. CASE fed # <<>>
    <3>1. Len(fed) = Len(Reference) - 1 /\ position = Len(Reference) - 1
           /\ \A i \in 1..Len(fed) : fed[i] = <<Reference[i], i - 1>>
      BY <1>0, <1>2, <2>2 DEF FedInv
    <3>2. fed' = fed \o <<<<Reference[Len(Reference)], Len(Reference) - 1>>>>
      BY <1>1, <1>3, <2>2, <3>1 DEF Forward, Last
    <3>3. position' = Len(text) - 1
      BY <1>2, <1>5, <1>6, <2>2, <3>1
    <3>4. /\ fed' \in Seq(Vocabulary \X Nat) /\ fed' # <<>> /\ Len(fed') = Len(text) - 1
          /\ \A i \in 1..Len(fed') : fed'[i] = <<text[i], i - 1>>
      BY <1>5, <1>6, <3>1, <3>2, CacheGrows
    <3> QED
      BY <3>3, <3>4
  <2> QED
    BY <2>1, <2>2
<1>9. TypeInv'
  <2>1. position' \in Nat /\ pending' \in Nat
    BY <1>2, <1>5, <1>6, <1>8
  <2> HIDE DEF text
  <2> QED
    BY <1>0, <1>2, <1>5, <1>8, <2>1 DEF TypeInv
<1> HIDE DEF text
<1>10. RecordInv'
  BY <1>2, <1>5, <1>6, <1>7 DEF RecordInv, OnGraph
<1>11. FedInv'
  BY <1>0, <1>2, <1>5, <1>6, <1>8 DEF FedInv
<1>12. RingInv'
  BY <1>2 DEF RingInv, OnGraph
<1>13. PaceInv'
  BY <1>0, <1>2, <1>3, <1>5, <1>6, <1>7, Sizes DEF PaceInv
<1>14. EndInv'
  <2>1. \A i \in (Len(Prompt) + 1)..(Len(seq) - pending) : seq[i] # EndOfText
    BY <1>0, <1>2 DEF EndInv
  <2>2. Len(seq) - pending = Len(seq') - pending' /\ Len(seq) - pending <= Len(Reference)
    BY <1>2, <1>3, <1>5, <1>6
  <2>3. \A i \in 1..Len(Reference) : seq'[i] = seq[i]
    BY <1>3, <1>5, <1>6 DEF text
  <2> QED
    <3>1. ASSUME NEW i \in (Len(Prompt) + 1)..(Len(seq) - pending) PROVE seq'[i] # EndOfText
      <4>1. i \in 1..Len(Reference)
        BY <1>3, <1>6, <1>7, <2>2
      <4> QED
        BY <2>1, <2>3, <4>1
    <3>2. \A i \in (Len(Prompt) + 1)..(Len(seq') - pending') : seq'[i] # EndOfText
      BY <2>2, <3>1
    <3> QED
      BY <1>2, <3>2 DEF EndInv
<1> QED
  BY <1>5, <1>9, <1>10, <1>11, <1>12, <1>13, <1>14 DEF IInv, Inv

\* The tokens of a block reach the streamer and the stop criteria.
LEMMA EagerFlushKeeps == IInv /\ EagerFlush => IInv'
<1> SUFFICES ASSUME IInv, EagerFlush PROVE IInv'
  OBVIOUS
<1>0. TypeInv /\ RecordInv /\ FedInv /\ PaceInv /\ EndInv /\ Defined(wants)
  BY DEF IInv, Inv
<1>1. /\ pc = "eager" /\ pc' = "eager" /\ pending > 0 /\ pending' = 0 /\ HostReads(seq, Unseen)
      /\ seq' = seq /\ goal' = goal /\ position' = position /\ left' = left /\ cur' = cur
      /\ base' = base /\ drained' = drained /\ tail' = tail /\ pos' = pos /\ count' = count
      /\ fed' = fed /\ wants' = wants
  BY DEF EagerFlush, graphVars, ringVars
<1>2. Reference' = Reference
  BY <1>1, ReferenceStays
<1>3. /\ seq \in Seq(Vocabulary) /\ Len(seq) \in Nat /\ pending \in Nat /\ Len(Prompt) \in Nat
      /\ Len(Prompt) + pending <= Len(seq) /\ finishedAt = 0
  BY <1>0, <1>1, DecodingAssumption DEF TypeInv, PaceInv
<1>4. /\ Unseen \in Seq(Vocabulary) /\ Len(Unseen) = pending
      /\ \A i \in 1..pending : Unseen[i] = seq[Len(seq) - pending + i]
  <2>1. Len(seq) - pending + 1 \in 1..(Len(seq) + 1) /\ Len(seq) \in 0..Len(seq)
         /\ Len(seq) - pending + 1 <= Len(seq)
    BY <1>1, <1>3
  <2>2. \A i \in 1..pending : Len(seq) - pending + 1 + i - 1 = Len(seq) - pending + i
    BY <1>3
  <2> QED
    <3>1. /\ Unseen \in Seq(Vocabulary) /\ Len(Unseen) = Len(seq) - (Len(seq) - pending + 1) + 1
          /\ \A i \in 1..(Len(seq) - (Len(seq) - pending + 1) + 1) :
               Unseen[i] = seq[(Len(seq) - pending + 1) + i - 1]
      BY <1>3, <2>1, SubSeqProperties DEF Unseen
    <3>2. Len(seq) - (Len(seq) - pending + 1) + 1 = pending
      BY <1>3
    <3> QED
      BY <2>2, <3>1, <3>2
<1>5. \A i \in (Len(Prompt) + 1)..(Len(seq) - pending) : seq[i] # EndOfText
  BY <1>0, <1>3 DEF EndInv
<1>6. /\ finishedAt' \in Nat
      /\ finishedAt' = 0 => \A i \in (Len(Prompt) + 1)..Len(seq) : seq[i] # EndOfText
      /\ finishedAt' # 0 =>
           /\ Len(Prompt) < finishedAt' /\ finishedAt' <= Len(seq) /\ seq[finishedAt'] = EndOfText
           /\ \A i \in (Len(Prompt) + 1)..(finishedAt' - 1) : seq[i] # EndOfText
  BY <1>1, <1>3, <1>4, <1>5, HostSees
<1>7. TypeInv'
  BY <1>0, <1>1, <1>2, <1>6 DEF TypeInv
<1>8. RecordInv'
  BY <1>0, <1>1, <1>2 DEF RecordInv, OnGraph
<1>9. FedInv'
  BY <1>0, <1>1, <1>2 DEF FedInv
<1>10. RingInv'
  BY <1>1 DEF RingInv, OnGraph
<1>11. PaceInv'
  BY <1>1, <1>3, Sizes DEF PaceInv
<1>12. EndInv'
  <2>1. Len(seq') - pending' = Len(seq)
    BY <1>1, <1>3
  <2> QED
    BY <1>1, <1>6, <2>1 DEF EndInv
<1> QED
  BY <1>0, <1>1, <1>7, <1>8, <1>9, <1>10, <1>11, <1>12 DEF IInv, Inv

\* The result is what is on record, up to the end of text.
LEMMA FinalizeKeeps ==
  IInv /\ Finalize /\ pc # "ended" /\ pending = 0 /\ Done => IInv'
<1> SUFFICES ASSUME IInv, Finalize, pc # "ended", pending = 0, Done PROVE IInv'
  OBVIOUS
<1>0. TypeInv /\ RecordInv /\ FedInv /\ PaceInv /\ EndInv /\ Defined(wants)
  BY DEF IInv, Inv
<1>1. /\ pc' = "ended" /\ seq' = IF finishedAt = 0 THEN seq ELSE SubSeq(seq, 1, finishedAt)
      /\ goal' = goal /\ pending' = 0 /\ position' = position /\ left' = left /\ cur' = cur
      /\ base' = base /\ drained' = drained /\ tail' = tail /\ pos' = pos /\ count' = count
      /\ fed' = fed /\ wants' = wants /\ finishedAt' = finishedAt /\ stopped' = stopped
  BY DEF Finalize, graphVars, ringVars, hostVars
<1>2. Reference' = Reference
  BY <1>1, ReferenceStays
<1>3. /\ seq \in Seq(Vocabulary) /\ Len(seq) \in Nat /\ Len(Prompt) \in Nat /\ finishedAt \in Nat
      /\ MaxLength \in Nat
  BY <1>0, DecodingAssumption DEF TypeInv
<1>4. finishedAt # 0 =>
        /\ Len(Prompt) < finishedAt /\ finishedAt <= Len(seq) /\ seq[finishedAt] = EndOfText
        /\ \A i \in (Len(Prompt) + 1)..(finishedAt - 1) : seq[i] # EndOfText
  BY <1>0 DEF EndInv
<1>5. finishedAt = 0 => \A i \in (Len(Prompt) + 1)..Len(seq) : seq[i] # EndOfText
  BY <1>0, <1>3 DEF EndInv
<1>6. /\ seq' \in Seq(Vocabulary) /\ Len(seq') = (IF finishedAt = 0 THEN Len(seq) ELSE finishedAt)
      /\ \A i \in 1..Len(seq') : seq'[i] = seq[i]
  <2>1. CASE finishedAt = 0
    BY <1>1, <1>3, <2>1
  <2>2. CASE finishedAt # 0
    <3>1. 1 \in 1..(Len(seq) + 1) /\ finishedAt \in 0..Len(seq) /\ 1 <= finishedAt
      BY <1>3, <1>4, <2>2
    <3>2. seq' = SubSeq(seq, 1, finishedAt)
      BY <1>1, <2>2
    <3>3. \A i \in 1..finishedAt : 1 + i - 1 = i
      BY <1>3
    <3> QED
      BY <1>3, <2>2, <3>1, <3>2, <3>3, SubSeqProperties
  <2> QED
    BY <2>1, <2>2
<1>7. /\ Len(seq') \in Nat /\ Len(Prompt) <= Len(seq') /\ Len(seq') <= Len(seq)
      /\ finishedAt = 0 => Len(seq') = Len(seq)
      /\ finishedAt # 0 => Len(seq') = finishedAt
  BY <1>0, <1>3, <1>4, <1>6 DEF RecordInv
<1>8. TypeInv'
  BY <1>0, <1>1, <1>2, <1>6 DEF TypeInv
<1>9. RecordInv'
  <2>1. Len(seq) <= Len(Reference) /\ Len(Reference) = Len(Prompt) + Len(wants)
         /\ \A i \in 1..Len(seq) : seq[i] = Reference[i]
    BY <1>0 DEF RecordInv
  <2>2. Len(Reference) \in Nat
    BY <1>0 DEF TypeInv
  <2>3. Len(seq') <= Len(Reference)
    BY <1>3, <1>7, <2>1, <2>2
  <2>4. \A i \in 1..Len(seq') : seq'[i] = Reference[i]
    BY <1>3, <1>6, <1>7, <2>1
  <2> QED
    BY <1>1, <1>2, <1>7, <2>1, <2>3, <2>4 DEF RecordInv, OnGraph
<1>10. FedInv'
  BY <1>0, <1>1, <1>2 DEF FedInv
<1>11. RingInv'
  BY <1>1 DEF RingInv, OnGraph
<1>12. PaceInv'
  BY <1>1 DEF PaceInv
<1>13. EndInv'
  <2>1. CASE finishedAt = 0
    <3>1. ~stopped => Len(seq') >= MaxLength
      BY <1>7, <2>1 DEF Done
    <3>2. \A i \in (Len(Prompt) + 1)..(Len(seq') - pending') : seq'[i] # EndOfText
      BY <1>1, <1>3, <1>5, <1>6, <1>7, <2>1
    <3> QED
      BY <1>1, <2>1, <3>1, <3>2 DEF EndInv
  <2>2. CASE finishedAt # 0
    <3>1. Len(seq') = finishedAt /\ Len(Prompt) < finishedAt
      BY <1>4, <1>7, <2>2
    <3>2. seq'[finishedAt] = EndOfText
      BY <1>3, <1>4, <1>6, <2>2, <3>1
    <3>3. \A i \in (Len(Prompt) + 1)..(finishedAt - 1) : seq'[i] # EndOfText
      BY <1>3, <1>4, <1>6, <2>2, <3>1
    <3> QED
      BY <1>1, <1>3, <2>2, <3>1, <3>2, <3>3 DEF EndInv
  <2> QED
    BY <2>1, <2>2
<1> QED
  BY <1>0, <1>1, <1>8, <1>9, <1>10, <1>11, <1>12, <1>13 DEF IInv, Inv

\* The static buffers and the ring take over from input_ids.
LEMMA PrepareKeeps == IInv /\ Prepare => IInv'
<1> SUFFICES ASSUME IInv, Prepare PROVE IInv'
  OBVIOUS
<1>0. TypeInv /\ RecordInv /\ FedInv /\ PaceInv /\ EndInv /\ Defined(wants)
  BY DEF IInv, Inv
<1>1. /\ pc = "eager" /\ pc' = "warm" /\ pending = 0 /\ pending' = 0 /\ ~Done /\ LoopOver
      /\ cur' = Last(seq) /\ position' = Len(seq) - 1 /\ base' = Len(seq) - 1 /\ drained' = 0
      /\ left' = Block /\ seq' = seq /\ goal' = goal /\ fed' = fed /\ wants' = wants
      /\ finishedAt' = finishedAt /\ stopped' = stopped /\ Prime(seq)
  BY DEF Prepare, hostVars
<1>2. Reference' = Reference
  BY <1>1, ReferenceStays
<1>3. seq = Reference
  BY <1>0, <1>1, EagerHasTheText
<1>4. finishedAt = 0 /\ ~stopped /\ Len(seq) < MaxLength
  BY <1>0, <1>1, DecodingAssumption DEF Done, TypeInv
<1>5. /\ seq \in Seq(Vocabulary) /\ Len(seq) \in Nat /\ Len(Prompt) \in Nat /\ goal \in Nat
      /\ MaxLength \in Nat /\ goal > Len(Prompt) /\ Len(seq) = Len(Prompt) + Len(wants)
      /\ Len(Prompt) > 0
  BY <1>0, <1>3, DecodingAssumption DEF TypeInv, FedInv, RecordInv
<1>6. Len(seq) >= goal
  <2>1. Min({goal, MaxLength}) = IF goal <= MaxLength THEN goal ELSE MaxLength
    BY <1>5, MinOfTwo
  <2> QED
    BY <1>1, <1>4, <1>5, <2>1 DEF LoopOver
<1>7. wants # <<>>
  BY <1>5, <1>6
<1>8. fed # <<>> /\ Len(fed) = Len(Reference) - 1
  BY <1>0, <1>1, <1>7 DEF FedInv
<1>9. RingType' /\ RingHolds(tail', pos', count', Reference)
  BY <1>1, <1>3, <1>5, PrimeFillsTheRing
<1>10. cur' = Reference[Len(Reference)] /\ cur' \in Vocabulary
  BY <1>1, <1>3, <1>5 DEF Last
<1>11. TypeInv'
  <2>1. position' \in Nat /\ base' \in Nat /\ drained' \in Nat /\ left' \in Nat
    BY <1>1, <1>5, Sizes
  <2> QED
    BY <1>0, <1>1, <1>2, <1>9, <1>10, <2>1 DEF TypeInv, RingType
<1>12. RecordInv'
  BY <1>0, <1>1, <1>2, <1>3, <1>5 DEF RecordInv, OnGraph
<1>13. FedInv'
  BY <1>0, <1>1, <1>2, <1>3, <1>8 DEF FedInv
<1>14. RingInv'
  BY <1>2, <1>9, <1>10 DEF RingInv
<1>15. PaceInv'
  <2>1. Missing' = 0
    BY <1>1, <1>5 DEF Missing
  <2> QED
    BY <1>1, <1>4, <2>1, Sizes DEF PaceInv
<1>16. EndInv'
  BY <1>0, <1>1, <1>4 DEF EndInv
<1> QED
  BY <1>0, <1>1, <1>11, <1>12, <1>13, <1>14, <1>15, <1>16 DEF IInv, Inv

\* A step on the side stream, or a replay of the captured one.
LEMMA GraphStepKeeps == IInv /\ GraphStep => IInv'
<1> SUFFICES ASSUME IInv, GraphStep PROVE IInv'
  OBVIOUS
<1>0. TypeInv /\ RecordInv /\ FedInv /\ RingInv /\ PaceInv /\ EndInv /\ Defined(wants)
  BY DEF IInv, Inv
<1>1. PICK t \in Vocabulary :
        /\ Forward(<<<<cur, position>>>>, t)
        /\ cur' = Pick(t, RingBanned) /\ Push(Pick(t, RingBanned))
  BY DEF GraphStep
<1>2. /\ pc \in {"warm", "replay"} /\ pc' = pc /\ left > 0 /\ left' = left - 1
      /\ position' = position + 1 /\ seq' = seq /\ goal' = goal /\ pending' = pending
      /\ base' = base /\ drained' = drained /\ finishedAt' = finishedAt /\ stopped' = stopped
  BY DEF GraphStep, hostVars
<1>3. OnGraph /\ OnGraph'
  BY <1>2 DEF OnGraph
<1>4. RingType /\ RingHolds(tail, pos, count, Reference) /\ cur = Reference[Len(Reference)]
  BY <1>0, <1>3 DEF RingInv, RingType, TypeInv
<1>5. Reference \in Seq(Vocabulary)
  BY <1>0 DEF TypeInv
<1>6. RingBanned = Banned(Reference)
  BY <1>4, <1>5, RingBansTheSame
<1> DEFINE next == Pick(t, Banned(Reference))
           text == Append(Reference, next)
<1>7. wants' = Append(wants, t) /\ fed' = fed \o <<<<cur, position>>>>
  BY <1>1 DEF Forward
<1>8. /\ next \in Vocabulary /\ Reference' = text /\ wants' \in Seq(Vocabulary)
      /\ text \in Seq(Vocabulary) /\ Defined(wants') /\ Len(wants') = Len(wants) + 1
      /\ Len(text) = Len(Reference) + 1
  BY <1>0, <1>7, ReferenceGrows
<1>9. cur' = next /\ Push(next)
  BY <1>1, <1>6
<1>10. RingType' /\ RingHolds(tail', pos', count', text)
  BY <1>4, <1>5, <1>8, <1>9, PushKeepsTheRing
<1>11. /\ seq \in Seq(Vocabulary) /\ Len(seq) \in Nat /\ Len(Reference) \in Nat /\ Len(wants) \in Nat
       /\ fed \in Seq(Vocabulary \X Nat) /\ position \in Nat /\ base \in Nat /\ drained \in Nat
       /\ left \in Nat /\ Len(Prompt) \in Nat /\ Len(Reference) = Len(Prompt) + Len(wants)
       /\ Len(seq) = base + 1 + drained /\ Len(seq) <= Len(Reference)
  BY <1>0, <1>3, DecodingAssumption DEF TypeInv, RecordInv
<1>12. /\ Len(fed) = Len(Reference) - 1 /\ position = Len(Reference) - 1 /\ fed # <<>>
       /\ \A i \in 1..Len(fed) : fed[i] = <<Reference[i], i - 1>>
  BY <1>0, <1>2 DEF FedInv
<1>13. /\ fed' \in Seq(Vocabulary \X Nat) /\ fed' # <<>> /\ Len(fed') = Len(text) - 1
       /\ \A i \in 1..Len(fed') : fed'[i] = <<text[i], i - 1>>
  BY <1>4, <1>5, <1>7, <1>8, <1>11, <1>12, CacheGrows
<1>14. text[Len(text)] = next /\ \A i \in 1..Len(Reference) : text[i] = Reference[i]
  BY <1>5, <1>8
<1> HIDE DEF next, text
<1>15. position' = Len(text) - 1 /\ position' \in Nat /\ left' \in Nat
  BY <1>2, <1>8, <1>11, <1>12
<1>16. Missing \in Nat /\ Missing' = Missing + 1
  BY <1>2, <1>11, <1>12 DEF Missing
<1>17. TypeInv'
  BY <1>0, <1>2, <1>8, <1>9, <1>10, <1>13, <1>15 DEF TypeInv, RingType
<1>18. RecordInv'
  <2>1. \A i \in 1..Len(seq) : seq[i] = text[i]
    BY <1>0, <1>11, <1>14 DEF RecordInv
  <2> QED
    BY <1>0, <1>2, <1>8, <1>11, <2>1 DEF RecordInv, OnGraph
<1>19. FedInv'
  BY <1>0, <1>2, <1>8, <1>11, <1>13, <1>15 DEF FedInv
<1>20. RingInv'
  BY <1>8, <1>9, <1>10, <1>14 DEF RingInv
<1>21. PaceInv'
  BY <1>0, <1>2, <1>11, <1>16, Sizes DEF PaceInv
<1>22. EndInv'
  BY <1>0, <1>2 DEF EndInv
<1> QED
  BY <1>8, <1>17, <1>18, <1>19, <1>20, <1>21, <1>22 DEF IInv, Inv

\* A drain brings the record up to the text.
LEMMA DrainBringsTheText ==
  ASSUME IInv, OnGraph, finishedAt = 0, pc' # "ended", DrainRing(Missing), Missing <= Block,
         wants' = wants, position' \in {position, Len(seq') - 1}, fed' = fed, goal' \in Nat,
         goal' > Len(Prompt), pending' = pending, seq' \in Seq(Vocabulary) => left' \in Nat, cur' = cur, base' = base, UNCHANGED ringVars,
         pc' \in {"eager", "capture", "replay"}
  PROVE  /\ TypeInv' /\ RecordInv' /\ FedInv' /\ RingInv' /\ EndInv' /\ Defined(wants')
         /\ Missing' = 0
<1>0. TypeInv /\ RecordInv /\ FedInv /\ RingInv /\ PaceInv /\ EndInv /\ Defined(wants)
  BY DEF IInv, Inv
<1>1. Reference' = Reference
  BY ReferenceStays
<1>2. RingType /\ RingHolds(tail, pos, count, Reference) /\ cur = Reference[Len(Reference)]
  BY <1>0 DEF RingInv, RingType, TypeInv
<1>3. /\ Reference \in Seq(Vocabulary) /\ seq \in Seq(Vocabulary) /\ Len(seq) \in Nat
      /\ Len(Reference) \in Nat /\ position \in Nat /\ base \in Nat /\ drained \in Nat
      /\ Len(Prompt) \in Nat /\ count \in Nat
  BY <1>0, DecodingAssumption DEF TypeInv
<1>4. /\ Len(fed) = Len(Reference) - 1 /\ position = Len(Reference) - 1 /\ fed # <<>> /\ pending = 0
      /\ Len(seq) = base + 1 + drained /\ Len(seq) <= Len(Reference) /\ Len(Prompt) <= Len(seq)
      /\ \A i \in 1..Len(seq) : seq[i] = Reference[i]
  BY <1>0 DEF FedInv, RecordInv, PaceInv, OnGraph
<1> DEFINE k == Missing
<1>5. k = Len(Reference) - Len(seq) /\ k \in Nat
  BY <1>3, <1>4 DEF Missing
<1>6. k <= count
  BY <1>2, <1>3, <1>5, Sizes DEF RingHolds
<1>7. /\ Recent(k) \in Seq(Vocabulary) /\ Len(Recent(k)) = k
      /\ \A i \in 1..k : Recent(k)[i] = Reference[Len(Reference) - k + i]
  BY <1>2, <1>3, <1>5, <1>6, RecentIsTheTail
<1>8. seq' = seq \o Recent(k) /\ drained' = drained + k /\ HostReads(seq', Recent(k))
  BY DEF DrainRing
<1> HIDE DEF k
<1>9. /\ seq' \in Seq(Vocabulary) /\ Len(seq') = Len(Reference)
      /\ \A i \in 1..Len(Reference) : seq'[i] = IF i <= Len(seq) THEN seq[i] ELSE Recent(k)[i - Len(seq)]
  <2>1. Len(seq) + Len(Recent(k)) = Len(Reference)
    BY <1>3, <1>5, <1>7
  <2> QED
    BY <1>3, <1>7, <1>8, <2>1, ConcatProperties
<1>10. ASSUME NEW i \in 1..Len(Reference) PROVE seq'[i] = Reference[i]
  <2>1. CASE i <= Len(seq)
    BY <1>3, <1>4, <1>9, <2>1
  <2>2. CASE i > Len(seq)
    <3>1. i - Len(seq) \in 1..k /\ Len(Reference) - k + (i - Len(seq)) = i
      BY <1>3, <1>5, <2>2
    <3>2. seq'[i] = Recent(k)[i - Len(seq)]
      BY <1>3, <1>9, <2>2
    <3> QED
      BY <1>7, <3>1, <3>2
  <2> QED
    BY <1>3, <2>1, <2>2
<1>11. /\ \A i \in 1..Len(Recent(k)) : Recent(k)[i] = seq'[Len(seq') - Len(Recent(k)) + i]
       /\ Len(Prompt) + Len(Recent(k)) <= Len(seq')
       /\ Len(seq') - Len(Recent(k)) = Len(seq)
  <2>1. Len(Prompt) + Len(Recent(k)) <= Len(seq') /\ Len(seq') - Len(Recent(k)) = Len(seq)
    BY <1>3, <1>4, <1>5, <1>7, <1>9
  <2>2. ASSUME NEW i \in 1..k PROVE Recent(k)[i] = seq'[Len(seq') - k + i]
    <3>1. Len(Reference) - k + i \in 1..Len(Reference)
      BY <1>3, <1>5
    <3> QED
      BY <1>7, <1>9, <1>10, <3>1
  <2> QED
    BY <1>7, <2>1, <2>2
<1>12. \A i \in (Len(Prompt) + 1)..Len(seq) : seq'[i] # EndOfText
  <2>1. \A i \in (Len(Prompt) + 1)..Len(seq) : seq[i] # EndOfText
    BY <1>0, <1>3, <1>4 DEF EndInv
  <2>2. \A i \in (Len(Prompt) + 1)..Len(seq) : i \in 1..Len(Reference) /\ i \in 1..Len(seq)
    BY <1>3, <1>4
  <2> QED
    BY <1>4, <1>10, <2>1, <2>2
<1>13. /\ finishedAt' \in Nat
       /\ finishedAt' = 0 => \A i \in (Len(Prompt) + 1)..Len(seq') : seq'[i] # EndOfText
       /\ finishedAt' # 0 =>
            /\ Len(Prompt) < finishedAt' /\ finishedAt' <= Len(seq') /\ seq'[finishedAt'] = EndOfText
            /\ \A i \in (Len(Prompt) + 1)..(finishedAt' - 1) : seq'[i] # EndOfText
  BY <1>3, <1>7, <1>8, <1>9, <1>11, <1>12, HostSees
<1>14. drained' \in Nat /\ position' \in Nat /\ Missing' = 0 /\ Len(seq') = base' + 1 + drained'
  <2>1. drained' \in Nat /\ drained' = drained + k
    BY <1>3, <1>5, <1>8
  <2>2. position' = Len(Reference) - 1 /\ position' \in Nat
    BY <1>3, <1>4, <1>9, DecodingAssumption
  <2>3. base' = base
    OBVIOUS
  <2>4. position' - base' - drained' = 0 /\ Len(seq') = base' + 1 + drained'
    BY <1>3, <1>4, <1>5, <1>9, <2>1, <2>2, <2>3
  <2> QED
    BY <2>1, <2>2, <2>4 DEF Missing
<1>15. tail' = tail /\ pos' = pos /\ count' = count
  BY DEF ringVars
<1>16. TypeInv'
  BY <1>0, <1>1, <1>9, <1>13, <1>14, <1>15 DEF TypeInv
<1>17. RecordInv'
  BY <1>0, <1>1, <1>3, <1>4, <1>9, <1>10, <1>14 DEF RecordInv
<1>18. FedInv'
  BY <1>0, <1>1, <1>4, <1>9 DEF FedInv
<1>19. RingInv'
  BY <1>1, <1>2, <1>15 DEF RingInv
<1>20. EndInv'
  <2>1. Len(seq') - pending' = Len(seq')
    BY <1>3, <1>4, <1>9
  <2> QED
    BY <1>13, <2>1 DEF EndInv
<1> QED
  BY <1>0, <1>14, <1>16, <1>17, <1>18, <1>19, <1>20

\* A round of replays is a block at most.
LEMMA RoundIsABlock ==
  ASSUME NEW s \in Seq(Vocabulary), ~(Len(s) >= MaxLength)
  PROVE  Round(s) \in Nat /\ Round(s) <= Block
<1>1. Len(s) \in Nat /\ MaxLength \in Nat
  BY DecodingAssumption
<1>2. MaxLength - Len(s) \in Nat
  BY <1>1
<1>3. Round(s) = IF Block <= MaxLength - Len(s) THEN Block ELSE MaxLength - Len(s)
  BY <1>2, Sizes, MinOfTwo DEF Round
<1> QED
  BY <1>2, <1>3, Sizes

\* The first block on the side stream reaches the record.
LEMMA WarmDrainKeeps == IInv /\ WarmDrain => IInv'
<1> SUFFICES ASSUME IInv, WarmDrain PROVE IInv'
  OBVIOUS
<1>0. TypeInv /\ RecordInv /\ FedInv /\ PaceInv
  BY DEF IInv, Inv
<1>1. /\ pc = "warm" /\ pc' = "capture" /\ left = 0 /\ DrainRing(Block)
      /\ goal' = goal /\ pending' = pending /\ position' = position /\ left' = left /\ cur' = cur
      /\ base' = base /\ UNCHANGED ringVars /\ fed' = fed /\ wants' = wants
  BY DEF WarmDrain
<1>2. Missing + left = Block /\ finishedAt = 0 /\ pending = 0 /\ left \in Nat /\ OnGraph
  BY <1>0, <1>1 DEF PaceInv, TypeInv, OnGraph
<1>3. Missing = Block
  <2>1. position \in Nat /\ base \in Nat /\ drained \in Nat
    BY <1>0 DEF TypeInv
  <2> QED
    BY <1>1, <1>2, <2>1 DEF Missing
<1>4. goal' > Len(Prompt) /\ goal' \in Nat
  BY <1>0, <1>1 DEF FedInv, TypeInv
<1>5. /\ TypeInv' /\ RecordInv' /\ FedInv' /\ RingInv' /\ EndInv' /\ Defined(wants')
      /\ Missing' = 0
  BY <1>1, <1>2, <1>3, <1>4, Sizes, DrainBringsTheText
<1>6. PaceInv'
  BY <1>1, <1>2, <1>5 DEF PaceInv
<1> QED
  BY <1>5, <1>6 DEF IInv, Inv

\* Capturing runs nothing.
LEMMA CaptureKeeps == IInv /\ Capture => IInv'
<1> SUFFICES ASSUME IInv, Capture PROVE IInv'
  OBVIOUS
<1>0. TypeInv /\ RecordInv /\ FedInv /\ RingInv /\ PaceInv /\ EndInv /\ Defined(wants)
  BY DEF IInv, Inv
<1>1. /\ pc = "capture" /\ pc' = "replay" /\ left' = Round(seq) /\ ~Done
      /\ seq' = seq /\ goal' = goal /\ pending' = pending /\ position' = position /\ cur' = cur
      /\ base' = base /\ drained' = drained /\ tail' = tail /\ pos' = pos /\ count' = count
      /\ fed' = fed /\ wants' = wants /\ finishedAt' = finishedAt /\ stopped' = stopped
  BY DEF Capture, ringVars, hostVars
<1>2. Reference' = Reference
  BY <1>1, ReferenceStays
<1>3. Round(seq) \in Nat /\ Round(seq) <= Block
  BY <1>0, <1>1, RoundIsABlock DEF Done, TypeInv
<1>4. Missing = 0 /\ Missing' = Missing
  BY <1>0, <1>1 DEF PaceInv, Missing
<1>5. TypeInv'
  BY <1>0, <1>1, <1>2, <1>3 DEF TypeInv
<1>6. RecordInv' /\ FedInv' /\ RingInv' /\ EndInv'
  <2>1. RecordInv'
    BY <1>0, <1>1, <1>2 DEF RecordInv, OnGraph
  <2>2. FedInv'
    BY <1>0, <1>1, <1>2 DEF FedInv
  <2>3. RingInv'
    BY <1>0, <1>1, <1>2 DEF RingInv, OnGraph
  <2>4. EndInv'
    BY <1>0, <1>1 DEF EndInv
  <2> QED
    BY <2>1, <2>2, <2>3, <2>4
<1>7. PaceInv'
  BY <1>0, <1>1, <1>3, <1>4 DEF PaceInv
<1> QED
  BY <1>0, <1>1, <1>5, <1>6, <1>7 DEF IInv, Inv

\* The next round is planned once the last one is on record.
LEMMA ReplayDrainKeeps == IInv /\ ReplayDrain => IInv'
<1> SUFFICES ASSUME IInv, ReplayDrain PROVE IInv'
  OBVIOUS
<1>0. TypeInv /\ RecordInv /\ FedInv /\ PaceInv
  BY DEF IInv, Inv
<1>1. /\ pc = "replay" /\ pc' = "replay" /\ left = 0 /\ ~Done /\ DrainRing(Missing)
      /\ goal' = goal /\ pending' = pending /\ position' = position /\ cur' = cur
      /\ base' = base /\ UNCHANGED ringVars /\ fed' = fed /\ wants' = wants
      /\ left' = IF Done' THEN 0 ELSE Round(seq')
  BY DEF ReplayDrain, Missing
<1>2. Missing <= Block /\ finishedAt = 0 /\ pending = 0 /\ OnGraph
  <2>1. position \in Nat /\ base \in Nat /\ drained \in Nat /\ left \in Nat
    BY <1>0 DEF TypeInv
  <2> QED
    BY <1>0, <1>1, <2>1, Sizes DEF PaceInv, OnGraph, Missing, Done
<1>3. goal' > Len(Prompt) /\ goal' \in Nat
  BY <1>0, <1>1 DEF FedInv, TypeInv
<1>4. seq' \in Seq(Vocabulary) => left' \in Nat /\ left' <= Block
  <2>1. CASE Done'
    BY <1>1, <2>1, Sizes
  <2>2. CASE ~Done'
    BY <1>1, <2>2, RoundIsABlock DEF Done
  <2> QED
    BY <2>1, <2>2
<1>5. /\ TypeInv' /\ RecordInv' /\ FedInv' /\ RingInv' /\ EndInv' /\ Defined(wants')
      /\ Missing' = 0
  BY <1>1, <1>2, <1>3, <1>4, DrainBringsTheText
<1>6. PaceInv'
  <2>1. left' \in Nat /\ left' <= Block
    BY <1>4, <1>5 DEF TypeInv
  <2> QED
    BY <1>1, <1>2, <1>5, <2>1 DEF PaceInv
<1> QED
  BY <1>5, <1>6 DEF IInv, Inv

\* A failure leaves the graph path with everything on record.
LEMMA GraphFailsKeeps == IInv /\ GraphFails => IInv'
<1> SUFFICES ASSUME IInv, GraphFails PROVE IInv'
  OBVIOUS
<1>0. TypeInv /\ RecordInv /\ FedInv /\ RingInv /\ PaceInv /\ EndInv /\ Defined(wants)
  BY DEF IInv, Inv
<1>1. /\ pc \in {"warm", "capture", "replay"} /\ pc' = "eager" /\ ~Done /\ goal' = MaxLength
      /\ position' = Len(seq') - 1
      /\ IF Missing > 0 THEN DrainRing(Missing) ELSE UNCHANGED <<seq, drained, hostVars>>
      /\ pending' = pending /\ left' = left /\ cur' = cur /\ base' = base
      /\ UNCHANGED ringVars /\ fed' = fed /\ wants' = wants
  BY DEF GraphFails, Missing
<1>2. finishedAt = 0 /\ ~stopped /\ OnGraph /\ pending = 0
  BY <1>0, <1>1 DEF Done, OnGraph, PaceInv
<1>3. /\ Missing \in Nat /\ Missing <= Block /\ position \in Nat /\ base \in Nat /\ drained \in Nat
      /\ Len(seq) \in Nat /\ Len(Reference) \in Nat /\ left \in Nat
      /\ MaxLength \in Nat /\ Len(Prompt) < MaxLength
  <2>1. /\ position \in Nat /\ base \in Nat /\ drained \in Nat /\ left \in Nat
        /\ Len(seq) \in Nat /\ Len(Reference) \in Nat
    BY <1>0 DEF TypeInv
  <2>2. position = Len(Reference) - 1 /\ Len(seq) = base + 1 + drained /\ Len(seq) <= Len(Reference)
    BY <1>0, <1>1, <1>2 DEF RecordInv, FedInv
  <2>3. Missing \in Nat
    BY <2>1, <2>2 DEF Missing
  <2>4. Missing <= Block
    BY <1>0, <1>1, <2>1, <2>3, Sizes DEF PaceInv
  <2> QED
    BY <2>1, <2>3, <2>4, DecodingAssumption
<1>4. CASE Missing > 0
  <2>1. DrainRing(Missing)
    BY <1>1, <1>4
  <2>2. goal' > Len(Prompt) /\ goal' \in Nat
    BY <1>1, <1>3
  <2>3. /\ TypeInv' /\ RecordInv' /\ FedInv' /\ RingInv' /\ EndInv' /\ Defined(wants')
        /\ Missing' = 0
    BY <1>1, <1>2, <1>3, <2>1, <2>2, DrainBringsTheText
  <2>4. PaceInv'
    <3>1. Len(Prompt) <= Len(seq') /\ Len(Prompt) \in Nat
      BY <2>3, DecodingAssumption DEF RecordInv
    <3> QED
      BY <1>1, <1>2, <3>1, Sizes DEF PaceInv
  <2> QED
    BY <2>3, <2>4 DEF IInv, Inv
<1>5. CASE Missing = 0
  <2>1. seq' = seq /\ drained' = drained /\ finishedAt' = finishedAt /\ stopped' = stopped
    BY <1>1, <1>5 DEF hostVars
  <2>2. Reference' = Reference
    BY <1>1, ReferenceStays
  <2>3. Len(seq) = Len(Reference) /\ position = Len(Reference) - 1 /\ position' = position
         /\ Len(Prompt) <= Len(seq) /\ Len(Prompt) \in Nat
    <3>1. position = Len(Reference) - 1 /\ Len(seq) = base + 1 + drained
      BY <1>0, <1>1, <1>2 DEF RecordInv, FedInv
    <3>2. Len(seq) = Len(Reference)
      BY <1>3, <1>5, <3>1 DEF Missing
    <3> QED
      BY <1>0, <1>1, <2>1, <3>1, <3>2, DecodingAssumption DEF RecordInv
  <2>4. tail' = tail /\ pos' = pos /\ count' = count
    BY <1>1 DEF ringVars
  <2>5. TypeInv'
    BY <1>0, <1>1, <1>3, <2>1, <2>2, <2>3, <2>4 DEF TypeInv
  <2>6. RecordInv'
    BY <1>0, <1>1, <2>1, <2>2, <2>3 DEF RecordInv, OnGraph
  <2>7. FedInv'
    BY <1>0, <1>1, <1>3, <2>1, <2>2, <2>3 DEF FedInv
  <2>8. RingInv'
    BY <1>1 DEF RingInv, OnGraph
  <2>9. PaceInv'
    BY <1>1, <1>2, <2>1, <2>3, Sizes DEF PaceInv
  <2>10. EndInv'
    BY <1>0, <1>1, <2>1 DEF EndInv
  <2> QED
    BY <1>0, <1>1, <2>5, <2>6, <2>7, <2>8, <2>9, <2>10 DEF IInv, Inv
<1> QED
  BY <1>3, <1>4, <1>5

\* No step of the loops, of the graph or of the user breaks the invariant.
LEMMA IInvStep == IInv /\ [Next]_vars => IInv'
<1> SUFFICES ASSUME IInv, [Next]_vars PROVE IInv'
  OBVIOUS
<1>0. PaceInv
  BY DEF IInv, Inv
<1>1. CASE EagerStep
  BY <1>1, EagerStepKeeps
<1>2. CASE EagerFlush
  BY <1>2, EagerFlushKeeps
<1>3. CASE EagerEnds
  BY <1>3, FinalizeKeeps DEF EagerEnds
<1>4. CASE Prepare
  BY <1>4, PrepareKeeps
<1>5. CASE GraphStep
  BY <1>5, GraphStepKeeps
<1>6. CASE WarmDrain
  BY <1>6, WarmDrainKeeps
<1>7. CASE Capture
  BY <1>7, CaptureKeeps
<1>8. CASE ReplayDrain
  BY <1>8, ReplayDrainKeeps
<1>9. CASE GraphEnds
  BY <1>0, <1>9, FinalizeKeeps DEF GraphEnds, PaceInv
<1>10. CASE GraphFails
  BY <1>10, GraphFailsKeeps
<1>11. CASE RequestCancel \/ UNCHANGED vars
  <2>1. /\ pc' = pc /\ seq' = seq /\ goal' = goal /\ pending' = pending /\ position' = position
        /\ left' = left /\ cur' = cur /\ base' = base /\ drained' = drained /\ tail' = tail
        /\ pos' = pos /\ count' = count /\ fed' = fed /\ finishedAt' = finishedAt
        /\ stopped' = stopped /\ wants' = wants
    BY <1>11 DEF RequestCancel, vars, graphVars, ringVars, hostVars
  <2>2. Reference' = Reference
    BY <2>1, ReferenceStays
  <2>3. TypeInv'
    BY <2>1, <2>2 DEF IInv, Inv, TypeInv
  <2>4. RecordInv'
    BY <2>1, <2>2 DEF IInv, Inv, RecordInv, OnGraph
  <2>5. FedInv'
    BY <2>1, <2>2 DEF IInv, Inv, FedInv
  <2>6. RingInv'
    BY <2>1, <2>2 DEF IInv, Inv, RingInv, OnGraph
  <2>7. PaceInv'
    BY <2>1 DEF IInv, Inv, PaceInv, Missing
  <2>8. EndInv'
    BY <2>1 DEF IInv, Inv, EndInv
  <2> QED
    BY <2>1, <2>3, <2>4, <2>5, <2>6, <2>7, <2>8 DEF IInv, Inv
<1> QED
  BY <1>1, <1>2, <1>3, <1>4, <1>5, <1>6, <1>7, <1>8, <1>9, <1>10, <1>11 DEF Next, DecodeStep

\* The invariant holds at every step of a call.
LEMMA IInvHolds == Spec => []IInv
BY IInvInit, IInvStep, PTL DEF Spec

-----------------------------------------------------------------------------
\* The streamer

\* It was given the tokens on record that the host has seen, up to the end of text.
StreamInv ==
  /\ streamed \in Seq(Vocabulary)
  /\ Len(streamed) = (IF finishedAt = 0 THEN Len(seq) - pending ELSE finishedAt) - Len(Prompt)
  /\ \A i \in 1..Len(streamed) : streamed[i] = seq[Len(Prompt) + i]

\* One sequence behind another.
LEMMA Joined ==
  ASSUME NEW a \in Seq(Vocabulary), NEW b \in Seq(Vocabulary), NEW k \in Nat, Len(a) = k
  PROVE  /\ a \o b \in Seq(Vocabulary) /\ Len(a \o b) = k + Len(b)
         /\ \A i \in 1..(k + Len(b)) : (a \o b)[i] = IF i <= k THEN a[i] ELSE b[i - k]
BY ConcatProperties

\* The host's look hands on the new tokens, the end of text being the last.
LEMMA HostStreams ==
  ASSUME NEW s \in Seq(Vocabulary), NEW new \in Seq(Vocabulary), NEW p \in Nat,
         p + Len(new) <= Len(s),
         \A i \in 1..Len(new) : new[i] = s[Len(s) - Len(new) + i],
         streamed \in Seq(Vocabulary), Len(streamed) = Len(s) - Len(new) - p,
         \A i \in 1..Len(streamed) : streamed[i] = s[p + i],
         HostReads(s, new)
  PROVE  /\ streamed' \in Seq(Vocabulary)
         /\ Len(streamed') = (IF finishedAt' = 0 THEN Len(s) ELSE finishedAt') - p
         /\ \A i \in 1..Len(streamed') : streamed'[i] = s[p + i]
<1> DEFINE n == Len(s)
           m == Len(new)
           end == {i \in 1..m : new[i] = EndOfText}
           emit == IF end = {} THEN new ELSE SubSeq(new, 1, Min(end))
           e == Min(end)
<1>1. n \in Nat /\ m \in Nat /\ p + m <= n /\ Len(streamed) = n - m - p
  OBVIOUS
<1>2. finishedAt' = (IF end = {} THEN 0 ELSE n - m + e) /\ streamed' = streamed \o emit
  BY DEF HostReads
<1>3. end # {} => e \in 1..m
  <2>1. end \in SUBSET Nat
    BY <1>1
  <2>2. end # {} => e \in end
    BY <2>1, LeastOf
  <2> QED
    BY <2>2
<1>4. /\ emit \in Seq(Vocabulary) /\ Len(emit) = (IF end = {} THEN m ELSE e)
      /\ \A i \in 1..Len(emit) : i \in 1..m /\ emit[i] = new[i]
  <2>1. CASE end = {}
    BY <2>1
  <2>2. CASE end # {}
    <3>1. emit = SubSeq(new, 1, e)
      BY <2>2
    <3> HIDE DEF emit, e, end
    <3>2. 1 \in 1..(m + 1) /\ e \in 0..m /\ 1 <= e /\ e - 1 + 1 = e
      BY <1>1, <1>3, <2>2
    <3>3. \A i \in 1..e : 1 + i - 1 = i /\ i \in 1..m
      BY <1>1, <3>2
    <3>4. /\ SubSeq(new, 1, e) \in Seq(Vocabulary) /\ Len(SubSeq(new, 1, e)) = e
          /\ \A i \in 1..e : SubSeq(new, 1, e)[i] = new[i]
      BY <3>2, <3>3, SubSeqProperties
    <3> QED
      BY <2>2, <3>1, <3>3, <3>4
  <2> QED
    BY <2>1, <2>2
<1>5. finishedAt' = 0 <=> end = {}
  BY <1>1, <1>2, <1>3
<1>6. \A i \in 1..m : new[i] = s[n - m + i]
  OBVIOUS
<1>7. \A i \in 1..(n - m - p) : streamed[i] = s[p + i]
  OBVIOUS
<1>8. Len(emit) \in Nat
  BY <1>4
<1> HIDE DEF n, m, end, emit, e
<1>9. /\ streamed' \in Seq(Vocabulary) /\ Len(streamed') = n - m - p + Len(emit)
      /\ \A i \in 1..(n - m - p + Len(emit)) :
           streamed'[i] = IF i <= n - m - p THEN streamed[i] ELSE emit[i - (n - m - p)]
  <2>1. streamed \in Seq(Vocabulary) /\ emit \in Seq(Vocabulary) /\ Len(streamed) = n - m - p
         /\ n - m - p \in Nat
    BY <1>1, <1>4
  <2>2. /\ streamed \o emit \in Seq(Vocabulary) /\ Len(streamed \o emit) = n - m - p + Len(emit)
        /\ \A i \in 1..(n - m - p + Len(emit)) :
             (streamed \o emit)[i] = IF i <= n - m - p THEN streamed[i] ELSE emit[i - (n - m - p)]
    BY <2>1, Joined
  <2> QED
    BY <1>2, <2>2
<1>10. Len(streamed') = (IF finishedAt' = 0 THEN n ELSE finishedAt') - p
  <2>1. CASE end = {}
    <3>1. Len(emit) = m /\ finishedAt' = 0
      BY <1>2, <1>4, <2>1
    <3> QED
      BY <1>1, <1>9, <3>1
  <2>2. CASE end # {}
    <3>1. Len(emit) = e /\ finishedAt' = n - m + e /\ finishedAt' # 0 /\ e \in Nat
      BY <1>2, <1>3, <1>4, <1>5, <2>2
    <3> QED
      BY <1>1, <1>9, <3>1
  <2> QED
    BY <2>1, <2>2
<1>11. ASSUME NEW i \in 1..Len(streamed') PROVE streamed'[i] = s[p + i]
  <2>0. i \in 1..(n - m - p + Len(emit)) /\ n - m - p \in Nat
    BY <1>1, <1>9
  <2>1. CASE i <= n - m - p
    BY <1>1, <1>7, <1>9, <2>0, <2>1
  <2>2. CASE i > n - m - p
    <3>1. i - (n - m - p) \in 1..Len(emit) /\ n - m + (i - (n - m - p)) = p + i
      BY <1>1, <1>8, <2>0, <2>2
    <3>2. streamed'[i] = emit[i - (n - m - p)]
      BY <1>9, <2>0, <2>2
    <3> QED
      BY <1>4, <1>6, <3>1, <3>2
  <2> QED
    BY <1>1, <2>0, <2>1, <2>2
<1> QED
  BY <1>9, <1>10, <1>11 DEF n

\* So does a drain of the ring.
LEMMA DrainStreams ==
  ASSUME IInv, IInv', StreamInv, OnGraph, finishedAt = 0, pending' = pending,
         NEW k \in Nat, k <= Window, DrainRing(k)
  PROVE  StreamInv'
<1>1. /\ seq' = seq \o Recent(k) /\ HostReads(seq', Recent(k))
  BY DEF DrainRing
<1>2. /\ seq \in Seq(Vocabulary) /\ seq' \in Seq(Vocabulary) /\ pending = 0
      /\ Len(Prompt) \in Nat /\ Len(Prompt) <= Len(seq)
  <2>1. seq \in Seq(Vocabulary) /\ seq' \in Seq(Vocabulary)
    BY DEF IInv, Inv, TypeInv
  <2>2. pending = 0
    BY DEF IInv, Inv, PaceInv, OnGraph
  <2>3. Len(Prompt) <= Len(seq)
    BY DEF IInv, Inv, RecordInv
  <2> QED
    BY <2>1, <2>2, <2>3, DecodingAssumption
<1>3. Recent(k) \in Seq(Vocabulary) /\ Len(Recent(k)) = k
  <2>1. \A i \in 1..k : Ordered(Window - k + i - 1) \in Vocabulary
    <3> SUFFICES ASSUME NEW i \in 1..k PROVE Ordered(Window - k + i - 1) \in Vocabulary
      OBVIOUS
    <3>1. tail \in [0..(Window - 1) -> Vocabulary] /\ pos \in 0..(Window - 1)
      BY DEF IInv, Inv, TypeInv
    <3>2. Window - k + i - 1 \in Nat /\ Window \in Nat /\ Window > 0
      BY Sizes
    <3>3. (pos + (Window - k + i - 1)) % Window \in 0..(Window - 1)
      BY <3>1, <3>2
    <3> QED
      BY <3>1, <3>3 DEF Ordered
  <2> QED
    BY <2>1, IsASeq DEF Recent
<1>4. /\ Len(seq') = Len(seq) + k
      /\ \A i \in 1..(Len(seq) + k) : seq'[i] = IF i <= Len(seq) THEN seq[i] ELSE Recent(k)[i - Len(seq)]
  BY <1>1, <1>2, <1>3, ConcatProperties
<1>5. /\ Len(Prompt) + Len(Recent(k)) <= Len(seq')
      /\ \A i \in 1..Len(Recent(k)) : Recent(k)[i] = seq'[Len(seq') - Len(Recent(k)) + i]
  <2>1. Len(seq) \in Nat
    BY <1>2
  <2>2. \A i \in 1..k : Len(seq') - k + i \in 1..(Len(seq) + k)
                        /\ ~(Len(seq') - k + i <= Len(seq)) /\ Len(seq') - k + i - Len(seq) = i
    BY <1>4, <2>1
  <2> QED
    BY <1>2, <1>3, <1>4, <2>1, <2>2
<1>6. /\ streamed \in Seq(Vocabulary)
      /\ Len(streamed) = Len(seq') - Len(Recent(k)) - Len(Prompt)
      /\ \A i \in 1..Len(streamed) : streamed[i] = seq'[Len(Prompt) + i]
  <2>1. streamed \in Seq(Vocabulary) /\ Len(streamed) = Len(seq) - Len(Prompt)
    BY <1>2 DEF StreamInv
  <2>0. Len(seq) \in Nat /\ \A i \in 1..Len(streamed) : streamed[i] = seq[Len(Prompt) + i]
    BY <1>2 DEF StreamInv
  <2>2. Len(streamed) = Len(seq') - Len(Recent(k)) - Len(Prompt)
    BY <1>2, <1>3, <1>4, <2>0, <2>1
  <2>3. ASSUME NEW i \in 1..Len(streamed) PROVE streamed[i] = seq'[Len(Prompt) + i]
    <3>1. Len(Prompt) + i \in 1..(Len(seq) + k) /\ Len(Prompt) + i <= Len(seq)
      BY <1>2, <2>0, <2>1
    <3> QED
      BY <1>4, <2>0, <3>1
  <2> QED
    BY <2>1, <2>2, <2>3
<1>7. /\ streamed' \in Seq(Vocabulary)
      /\ Len(streamed') = (IF finishedAt' = 0 THEN Len(seq') ELSE finishedAt') - Len(Prompt)
      /\ \A i \in 1..Len(streamed') : streamed'[i] = seq'[Len(Prompt) + i]
  BY <1>1, <1>2, <1>3, <1>5, <1>6, HostStreams
<1>8. Len(seq') - pending' = Len(seq')
  BY <1>2
<1> QED
  BY <1>7, <1>8 DEF StreamInv

\* Every step keeps to it.
LEMMA StreamStep == IInv /\ IInv' /\ StreamInv /\ [Next]_vars => StreamInv'
<1> SUFFICES ASSUME IInv, IInv', StreamInv, [Next]_vars PROVE StreamInv'
  OBVIOUS
<1>0. /\ seq \in Seq(Vocabulary) /\ pending \in Nat /\ finishedAt \in Nat /\ Len(seq) \in Nat
      /\ Len(Prompt) \in Nat /\ Len(Prompt) <= Len(seq)
      /\ pc = "eager" => Len(Prompt) + pending <= Len(seq)
      /\ pending > 0 => finishedAt = 0
      /\ (OnGraph \/ pc = "ended") => pending = 0
  <2>1. seq \in Seq(Vocabulary) /\ pending \in Nat /\ finishedAt \in Nat
    BY DEF IInv, Inv, TypeInv
  <2>2. Len(Prompt) <= Len(seq)
    BY DEF IInv, Inv, RecordInv
  <2>3. /\ pc = "eager" => Len(Prompt) + pending <= Len(seq)
        /\ pending > 0 => finishedAt = 0
        /\ (OnGraph \/ pc = "ended") => pending = 0
    BY DEF IInv, Inv, PaceInv, OnGraph
  <2> QED
    BY <2>1, <2>2, <2>3, DecodingAssumption
<1>1. CASE UNCHANGED <<seq, pending, finishedAt, streamed>>
  BY <1>1 DEF StreamInv
<1>2. CASE EagerStep
  <2>1. PICK t \in Vocabulary : seq' = Append(seq, Pick(t, Banned(seq)))
    BY <1>2 DEF EagerStep
  <2>2. pending' = pending + 1 /\ finishedAt' = finishedAt /\ finishedAt = 0 /\ streamed' = streamed
    BY <1>0, <1>2 DEF EagerStep, hostVars, Done
  <2>3. /\ Len(seq') = Len(seq) + 1 /\ \A i \in 1..Len(seq) : seq'[i] = seq[i]
    BY <1>0, <2>1, PickIsAToken, AppendProperties
  <2>4. Len(seq') - pending' = Len(seq) - pending
    BY <1>0, <2>2, <2>3
  <2>5. \A i \in 1..Len(streamed) : Len(Prompt) + i \in 1..Len(seq)
    BY <1>0, <2>2 DEF StreamInv
  <2> QED
    BY <2>2, <2>3, <2>4, <2>5 DEF StreamInv
<1>3. CASE EagerFlush
  <2>1. /\ pc = "eager" /\ pending > 0 /\ HostReads(seq, Unseen) /\ pending' = 0 /\ seq' = seq
    BY <1>3 DEF EagerFlush
  <2>2. finishedAt = 0 /\ Len(Prompt) + pending <= Len(seq)
    BY <1>0, <2>1
  <2>3. /\ Unseen \in Seq(Vocabulary) /\ Len(Unseen) = pending
        /\ \A i \in 1..pending : Unseen[i] = seq[Len(seq) - pending + i]
    <3>1. Len(seq) - pending + 1 \in 1..(Len(seq) + 1) /\ Len(seq) \in 0..Len(seq)
          /\ Len(seq) - pending + 1 <= Len(seq)
      BY <1>0, <2>1, <2>2
    <3>2. /\ Unseen \in Seq(Vocabulary) /\ Len(Unseen) = Len(seq) - (Len(seq) - pending + 1) + 1
          /\ \A i \in 1..(Len(seq) - (Len(seq) - pending + 1) + 1) :
               Unseen[i] = seq[(Len(seq) - pending + 1) + i - 1]
      BY <1>0, <3>1, SubSeqProperties DEF Unseen
    <3>3. Len(seq) - (Len(seq) - pending + 1) + 1 = pending
          /\ \A i \in 1..pending : Len(seq) - pending + 1 + i - 1 = Len(seq) - pending + i
      BY <1>0
    <3> QED
      BY <3>2, <3>3
  <2>4. /\ streamed \in Seq(Vocabulary) /\ Len(streamed) = Len(seq) - Len(Unseen) - Len(Prompt)
        /\ \A i \in 1..Len(streamed) : streamed[i] = seq[Len(Prompt) + i]
    BY <2>2, <2>3 DEF StreamInv
  <2>5. /\ streamed' \in Seq(Vocabulary)
        /\ Len(streamed') = (IF finishedAt' = 0 THEN Len(seq) ELSE finishedAt') - Len(Prompt)
        /\ \A i \in 1..Len(streamed') : streamed'[i] = seq[Len(Prompt) + i]
    BY <1>0, <2>1, <2>2, <2>3, <2>4, HostStreams
  <2>6. Len(seq') - pending' = Len(seq)
    BY <1>0, <2>1
  <2> QED
    BY <2>1, <2>5, <2>6 DEF StreamInv
<1>4. ASSUME Finalize, pending = 0 PROVE StreamInv'
  <2>1. /\ seq' = (IF finishedAt = 0 THEN seq ELSE SubSeq(seq, 1, finishedAt))
        /\ pending' = 0 /\ finishedAt' = finishedAt /\ streamed' = streamed
    BY <1>4 DEF Finalize, hostVars
  <2>2. CASE finishedAt = 0
    BY <1>0, <1>4, <2>1, <2>2 DEF StreamInv
  <2>3. CASE finishedAt # 0
    <3>1. Len(Prompt) < finishedAt /\ finishedAt <= Len(seq)
      BY <2>3 DEF IInv, Inv, EndInv
    <3>2. 1 \in 1..(Len(seq) + 1) /\ finishedAt \in 0..Len(seq) /\ 1 <= finishedAt
      BY <1>0, <3>1
    <3>3. \A i \in 1..finishedAt : seq'[i] = seq[i]
      <4>1. \A i \in 1..(finishedAt - 1 + 1) : SubSeq(seq, 1, finishedAt)[i] = seq[1 + i - 1]
        BY <1>0, <3>2, SubSeqProperties
      <4>2. finishedAt - 1 + 1 = finishedAt /\ \A i \in 1..finishedAt : 1 + i - 1 = i
        BY <1>0
      <4> QED
        BY <2>1, <2>3, <4>1, <4>2
    <3>4. \A i \in 1..Len(streamed) : Len(Prompt) + i \in 1..finishedAt
      BY <1>0, <2>3, <3>1 DEF StreamInv
    <3> QED
      BY <2>1, <2>3, <3>3, <3>4 DEF StreamInv
  <2> QED
    BY <2>2, <2>3
<1>5. CASE EagerEnds
  BY <1>4, <1>5 DEF EagerEnds
<1>6. CASE GraphEnds
  <2>1. pending = 0
    BY <1>0, <1>6 DEF GraphEnds, OnGraph
  <2> QED
    BY <1>4, <1>6, <2>1 DEF GraphEnds
<1>7. CASE WarmDrain
  <2>1. OnGraph /\ DrainRing(Block) /\ pending' = pending
    BY <1>7 DEF WarmDrain, OnGraph
  <2>2. finishedAt = 0
    BY <1>7 DEF WarmDrain, IInv, Inv, PaceInv
  <2> QED
    BY <2>1, <2>2, Sizes, DrainStreams
<1>8. ASSUME OnGraph, DrainRing(Missing), pending' = pending, ~Done PROVE StreamInv'
  <2>1. finishedAt = 0
    BY <1>0, <1>8 DEF Done
  <2>2. position \in Nat /\ base \in Nat /\ drained \in Nat /\ left \in Nat /\ Len(Reference) \in Nat
    BY DEF IInv, Inv, TypeInv
  <2>3. position = Len(Reference) - 1 /\ Len(seq) = base + 1 + drained /\ Len(seq) <= Len(Reference)
    BY <1>8 DEF IInv, Inv, RecordInv, FedInv, OnGraph
  <2>4. Missing \in Nat /\ Missing <= Block
    <3>1. Missing \in Nat
      BY <1>0, <2>2, <2>3 DEF Missing
    <3>2. Missing = 0 \/ Missing + left <= Block
      <4>1. /\ pc = "warm" => Missing + left = Block
            /\ pc = "capture" => Missing = 0
            /\ pc = "replay" => Missing + left <= Block
        BY DEF IInv, Inv, PaceInv
      <4>2. pc = "warm" => Missing + left <= Block
        BY <4>1, Sizes
      <4> QED
        BY <1>8, <4>1, <4>2 DEF OnGraph
    <3> QED
      BY <2>2, <3>1, <3>2, Sizes
  <2> QED
    BY <1>8, <2>1, <2>4, Sizes, DrainStreams
<1>9. CASE ReplayDrain
  BY <1>8, <1>9 DEF ReplayDrain, OnGraph, Missing
<1>10. CASE GraphFails
  <2>1. OnGraph /\ ~Done /\ pending' = pending
    BY <1>10 DEF GraphFails, OnGraph
  <2>2. CASE Missing > 0
    BY <1>8, <1>10, <2>1, <2>2 DEF GraphFails, Missing
  <2>3. CASE ~(Missing > 0)
    BY <1>1, <1>10, <2>1, <2>3 DEF GraphFails, Missing, hostVars
  <2> QED
    BY <2>2, <2>3
<1>11. CASE Prepare \/ GraphStep \/ Capture \/ RequestCancel \/ UNCHANGED vars
  BY <1>1, <1>11 DEF Prepare, GraphStep, Capture, RequestCancel, vars, hostVars
<1> QED
  BY <1>2, <1>3, <1>5, <1>6, <1>7, <1>9, <1>10, <1>11 DEF Next, DecodeStep

\* The streamer is in step with the record.
LEMMA StreamHolds == Spec => []StreamInv
<1>1. Init => StreamInv
  <2> SUFFICES ASSUME Init PROVE StreamInv
    OBVIOUS
  <2>1. streamed = <<>> /\ seq = Prompt /\ pending = 0 /\ finishedAt = 0 /\ Len(Prompt) \in Nat
    BY DecodingAssumption DEF Init
  <2>2. streamed \in Seq(Vocabulary) /\ Len(streamed) = 0
    BY <2>1
  <2> QED
    BY <2>1, <2>2 DEF StreamInv
<1> QED
  BY <1>1, StreamStep, IInvHolds, PTL DEF Spec

\* The fast loop writes the text the plain one would, and ends it where the
\* plain one ends it, for any prompt, n-gram, window, block and limit (fast_decode.py).
THEOREM FastIsGreedy == Spec => []OutputIsGreedy
<1>1. IInv /\ StreamInv => OutputIsGreedy
  <2> SUFFICES ASSUME IInv, StreamInv PROVE OutputIsGreedy
    OBVIOUS
  <2>0. TypeInv /\ RecordInv /\ PaceInv /\ EndInv
    BY DEF IInv, Inv
  <2>1. /\ seq \in Seq(Vocabulary) /\ Len(seq) \in Nat /\ Reference \in Seq(Vocabulary)
        /\ Len(Reference) \in Nat /\ Len(Prompt) \in Nat /\ finishedAt \in Nat
    BY <2>0, DecodingAssumption DEF TypeInv
  <2>2. /\ Len(seq) <= Len(Reference) /\ Len(Prompt) <= Len(seq)
        /\ \A i \in 1..Len(seq) : seq[i] = Reference[i]
    BY <2>0 DEF RecordInv
  <2>3. IsPrefix(seq, Reference)
    <3>1. /\ SubSeq(seq, 1, Len(seq)) \in Seq(Vocabulary) /\ Len(SubSeq(seq, 1, Len(seq))) = Len(seq)
          /\ \A i \in 1..Len(seq) : SubSeq(seq, 1, Len(seq))[i] = seq[i]
      BY <2>1
    <3>2. /\ SubSeq(Reference, 1, Len(seq)) \in Seq(Vocabulary)
          /\ Len(SubSeq(Reference, 1, Len(seq))) = Len(seq)
          /\ \A i \in 1..Len(seq) : SubSeq(Reference, 1, Len(seq))[i] = Reference[i]
      BY <2>1, <2>2
    <3>3. \A i \in 1..Len(seq) : SubSeq(seq, 1, Len(seq))[i] = SubSeq(Reference, 1, Len(seq))[i]
      BY <2>2, <3>1, <3>2
    <3>4. SubSeq(seq, 1, Len(seq)) = SubSeq(Reference, 1, Len(seq))
      BY <3>1, <3>2, <3>3, SeqEqual
    <3> QED
      BY <2>2, <3>4 DEF IsPrefix
  <2> DEFINE g == Generated
             p == Len(Prompt)
  <2>4. /\ g \in Seq(Vocabulary) /\ Len(g) = Len(seq) - p
        /\ \A i \in 1..(Len(seq) - p) : g[i] = seq[p + i]
    <3>1. \A i \in (p + 1)..Len(seq) : seq[i] \in Vocabulary
      BY <2>1
    <3>2. /\ g \in Seq(Vocabulary)
          /\ Len(g) = IF p + 1 <= Len(seq) THEN Len(seq) - (p + 1) + 1 ELSE 0
          /\ \A i \in 1..(Len(seq) - (p + 1) + 1) : g[i] = seq[(p + 1) + i - 1]
      BY <2>1, <3>1, SubSeqProperties DEF Generated
    <3>3. Len(seq) - (p + 1) + 1 = Len(seq) - p /\ \A i \in Nat : (p + 1) + i - 1 = p + i
      BY <2>1
    <3>4. Len(g) = Len(seq) - p
      BY <2>1, <2>2, <3>2
    <3>5. \A i \in 1..(Len(seq) - (p + 1) + 1) : g[i] = seq[(p + 1) + i - 1]
      BY <3>2
    <3>6. g \in Seq(Vocabulary)
      BY <3>2
    <3> HIDE DEF g, p
    <3> QED
      BY <3>3, <3>4, <3>5, <3>6
  <2> HIDE DEF g, p
  <2>5. ASSUME pc = "ended", ~stopped
        PROVE IF \E i \in 1..Len(g) : g[i] = EndOfText
              THEN /\ Last(g) = EndOfText
                   /\ \A i \in 1..(Len(g) - 1) : g[i] # EndOfText
              ELSE Len(seq) >= MaxLength
    <3>1. pending = 0
      BY <2>0, <2>5 DEF PaceInv
    <3>2. CASE finishedAt = 0
      <4>1. Len(seq) >= MaxLength
        BY <2>0, <2>5, <3>2 DEF EndInv
      <4>2. \A i \in (p + 1)..Len(seq) : seq[i] # EndOfText
        BY <2>0, <2>1, <3>1, <3>2 DEF EndInv, p
      <4>3. ASSUME NEW i \in 1..Len(g) PROVE g[i] # EndOfText
        <5>1. p + i \in (p + 1)..Len(seq)
          BY <2>1, <2>4 DEF p
        <5> QED
          BY <2>4, <4>2, <5>1
      <4> QED
        BY <4>1, <4>3
    <3>3. CASE finishedAt # 0
      <4>1. /\ Len(seq) = finishedAt /\ p < finishedAt /\ seq[finishedAt] = EndOfText
            /\ \A i \in (p + 1)..(finishedAt - 1) : seq[i] # EndOfText
        BY <2>0, <2>5, <3>3 DEF EndInv, p
      <4>2. p + Len(g) = finishedAt /\ Len(g) \in 1..(Len(seq) - p)
        BY <2>1, <2>2, <2>4, <4>1 DEF p
      <4>3. g[Len(g)] = EndOfText
        BY <2>4, <4>1, <4>2
      <4>4. ASSUME NEW i \in 1..(Len(g) - 1) PROVE g[i] # EndOfText
        <5>1. p + i \in (p + 1)..(finishedAt - 1) /\ i \in 1..(Len(seq) - p)
          BY <2>1, <2>4, <4>1, <4>2 DEF p
        <5> QED
          BY <2>4, <4>1, <5>1
      <4>5. Len(g) \in 1..Len(g)
        BY <4>2
      <4> QED
        BY <4>3, <4>4, <4>5 DEF Last
    <3> QED
      BY <3>2, <3>3
  <2>6. ASSUME pc = "ended" PROVE streamed = g
    <3>1. Len(streamed) = Len(seq) - p
      <4>1. pending = 0
        BY <2>0, <2>6 DEF PaceInv
      <4>2. finishedAt # 0 => Len(seq) = finishedAt
        BY <2>0, <2>6 DEF EndInv, p
      <4> QED
        BY <2>1, <4>1, <4>2 DEF StreamInv, p
    <3>2. \A i \in 1..Len(streamed) : streamed[i] = g[i]
      BY <2>4, <3>1 DEF StreamInv, p
    <3>3. streamed \in Seq(Vocabulary)
      BY DEF StreamInv
    <3> QED
      BY <2>4, <3>1, <3>2, <3>3, SeqEqual
  <2> QED
    BY <2>3, <2>5, <2>6 DEF OutputIsGreedy, g
<1> QED
  BY <1>1, IInvHolds, StreamHolds, PTL

\* The model's cache holds each token of the text once, in order and at its
\* position, also when the loop changes hands.
THEOREM ModelIsFedTheText == Spec => []ModelSeesTheText
<1>1. IInv => ModelSeesTheText
  BY DEF IInv, Inv, FedInv, ModelSeesTheText
<1> QED
  BY <1>1, IInvHolds, PTL
=============================================================================
