------------------------ MODULE TranslateCall_proofs ------------------------
(***************************************************************************)
(* Proofs about TranslateCall for any number of units and retries, any     *)
(* texts, answers of any length and any server: in auto mode a server that *)
(* has chat is found to have it; a text that was received is never         *)
(* replaced by an error; a unit that is translated has each of its         *)
(* formulas, next to what the model wrote itself; the document has the     *)
(* pages of the original.  The first two need nothing of the constants,    *)
(* the others that no formula looks like a placeholder and that there is a *)
(* number for each token of a unit.                                        *)
(***************************************************************************)
EXTENDS TranslateCall, FiniteSetTheorems, SequenceTheorems, WellFoundedInduction, TLAPS

Stages == {"idle", "pick", "send", "got", "fallback", "text", "failed", "unsupported"}
CallType == [at : Stages, mode : Modes \cup {"none"}, fallback : BOOLEAN, attempt : Nat,
             doubled : BOOLEAN, partial : BOOLEAN, truncated : BOOLEAN, full : BOOLEAN]

CallsTyped == /\ call \in [Units -> CallType]
              /\ apiMode \in Modes \cup {"auto"}
              /\ latched \in Modes \cup {"none"}

\* What a client in auto mode knows and does is right for a server that has chat: a mode
\* that is latched is one the server has, and so is the mode of a request that may not
\* fall back.
LatchIsRight ==
  apiMode = "auto" /\ "chat" \in supports =>
    /\ latched \in supports \cup {"none"}
    /\ \A u \in Units : /\ call[u].at = "send" => call[u].mode \in supports \/ call[u].fallback
                        /\ call[u].at = "got" => call[u].mode \in supports
                        /\ call[u].at # "unsupported"

\* Where a text that was received is: with the caller, in the answer at hand, or kept while
\* the longer one is asked for.
TextIsKept ==
  \A u \in Units : u \in received =>
    \/ call[u].at = "text"
    \/ call[u].at = "got" /\ call[u].full
    \/ call[u].at \in {"pick", "send", "fallback", "got"} /\ call[u].doubled /\ call[u].partial

Inv == CallsTyped /\ LatchIsRight /\ TextIsKept

-----------------------------------------------------------------------------
\* The values of a call that the ladder may put in the place of another.
Begun == {Idle, [Idle EXCEPT !.at = "pick"]}

\* What a step of the ladder does to its own call, and to what is known of the client.
BeginsCall(u) == /\ \E c \in Begun : call' = [call EXCEPT ![u] = c]
                 /\ received' = received \ {u}

\* Asking for a text begins a call.
LEMMA AsksBegins ==
  ASSUME NEW u \in Units, NEW to, Asks(u, to)
  PROVE  BeginsCall(u)
BY DEF Asks, Set, BeginsCall, Begun

\* A unit that is at its end has no call.
LEMMA EndsBegins ==
  ASSUME NEW u \in Units, NEW o, NEW s, Ends(u, o, s)
  PROVE  BeginsCall(u)
BY DEF Ends, Set, BeginsCall, Begun

\* A step of the ladder begins a new call of its unit, or none, leaves the others alone,
\* and knows nothing of modes.
LEMMA UnitStepBegins ==
  ASSUME NEW u \in Units, UnitStep(u)
  PROVE  BeginsCall(u) /\ UNCHANGED <<apiMode, supports, latched>>
<1>1. UNCHANGED <<apiMode, supports, latched>>
  BY Zenon DEF UnitStep, Begin, Judge, Errs, UnitFrame, clientVars
<1>2. ASSUME Parts(u) PROVE BeginsCall(u)
  BY <1>2, AsksBegins, EndsBegins, Zenon DEF Parts
<1>3. ASSUME Begin(u) PROVE BeginsCall(u)
  BY <1>3, AsksBegins, EndsBegins, Zenon DEF Begin
<1>4. ASSUME Judge(u) PROVE BeginsCall(u)
  <2>1. PICK raw \in Answers :
           \/ Succeeds(u, Translated(PartOf(u), raw))
           \/ Fails(u)
    BY <1>4, Zenon DEF Judge
  <2>2. CASE Succeeds(u, Translated(PartOf(u), raw))
    BY <2>2, AsksBegins, EndsBegins, Zenon DEF Succeeds
  <2>3. CASE Fails(u)
    BY <2>3, <1>2, AsksBegins, EndsBegins, Zenon DEF Fails
  <2> QED BY <2>1, <2>2, <2>3
<1>5. ASSUME Errs(u) PROVE BeginsCall(u)
  BY <1>5, <1>2, AsksBegins, EndsBegins, Zenon DEF Errs
<1> QED BY <1>1, <1>3, <1>4, <1>5, Zenon DEF UnitStep

\* The calling thread has no part in the calls.
LEMMA MainStepLeaves ==
  ASSUME Assemble \/ \E u \in Units : Collect(u)
  PROVE  UNCHANGED <<apiMode, supports, latched, call, received>>
BY Zenon DEF Assemble, Collect, MainFrame, clientVars

-----------------------------------------------------------------------------
\* A client that was just made.
LEMMA InvInit == Init => Inv
<1> SUFFICES ASSUME Init PROVE Inv
  OBVIOUS
<1>1. Idle \in CallType
  BY DEF Idle, CallType, Stages
<1>2. CallsTyped
  BY <1>1 DEF Init, CallsTyped
<1>3. LatchIsRight
  BY DEF Init, LatchIsRight, Idle
<1>4. TextIsKept
  BY DEF Init, TextIsKept
<1> QED BY <1>2, <1>3, <1>4 DEF Inv

\* A step that begins a call, or none, leaves nothing behind of the one before.
LEMMA InvUnitStep ==
  ASSUME Inv, NEW u \in Units, UnitStep(u)
  PROVE  Inv'
<1> USE DEF Inv, CallsTyped
<1>1. PICK c \in Begun : call' = [call EXCEPT ![u] = c]
  BY UnitStepBegins, Zenon DEF BeginsCall
<1>2. received' = received \ {u} /\ apiMode' = apiMode /\ supports' = supports /\ latched' = latched
  BY UnitStepBegins, Zenon DEF BeginsCall
<1>3. c \in CallType /\ c.at \in {"idle", "pick"}
  <2>1. CASE c = Idle
    BY <2>1 DEF Idle, CallType, Stages
  <2>2. CASE c = [Idle EXCEPT !.at = "pick"]
    BY <2>2 DEF Idle, CallType, Stages
  <2> QED BY <2>1, <2>2 DEF Begun
<1>4. CallsTyped'
  BY <1>1, <1>2, <1>3
<1>5. LatchIsRight'
  BY <1>1, <1>2, <1>3 DEF LatchIsRight
<1>6. TextIsKept'
  BY <1>1, <1>2, <1>3 DEF TextIsKept
<1> QED BY <1>4, <1>5, <1>6

-----------------------------------------------------------------------------
\* The steps of a call.

\* The mode is chosen: the latched one, or responses with the way back.
LEMMA InvPick ==
  ASSUME Inv, NEW u \in Units, Pick(u)
  PROVE  Inv'
<1> USE DEF Inv, CallsTyped, Pick, Set, ClientFrame, clientVars
<1> DEFINE c == call[u]
           d == call'[u]
<1>1. /\ c.at = "pick" /\ c \in CallType
      /\ call' = [call EXCEPT ![u] = d]
      /\ d = [c EXCEPT !.at = "send", !.attempt = 0,
                !.mode = IF apiMode # "auto" THEN apiMode
                         ELSE IF latched # "none" THEN latched ELSE "responses",
                !.fallback = apiMode = "auto" /\ latched = "none"]
      /\ UNCHANGED <<apiMode, supports, latched, received>>
  OBVIOUS
<1>2. d \in CallType
  BY <1>1 DEF CallType, Stages, Modes
<1>3. CallsTyped'
  BY <1>1, <1>2
<1>4. /\ d.at = "send" /\ d.doubled = c.doubled /\ d.partial = c.partial
      /\ apiMode = "auto" => \/ d.fallback
                             \/ latched # "none" /\ d.mode = latched
  BY <1>1 DEF CallType
<1>5. LatchIsRight'
  BY <1>1, <1>4 DEF LatchIsRight
<1>6. TextIsKept'
  BY <1>1, <1>4 DEF TextIsKept
<1> QED BY <1>3, <1>5, <1>6

\* The server does not have responses: it is chat from now on.
LEMMA InvFallBack ==
  ASSUME Inv, NEW u \in Units, FallBack(u)
  PROVE  Inv'
<1> USE DEF Inv, CallsTyped, FallBack, Set, ClientFrame, clientVars
<1> DEFINE c == call[u]
           d == call'[u]
<1>1. /\ c.at = "fallback" /\ c \in CallType
      /\ call' = [call EXCEPT ![u] = d]
      /\ d = [c EXCEPT !.at = "send", !.mode = "chat", !.fallback = FALSE, !.attempt = 0]
      /\ latched' = "chat"
      /\ UNCHANGED <<apiMode, supports, received>>
  OBVIOUS
<1>2. d \in CallType
  BY <1>1 DEF CallType, Stages, Modes
<1>3. CallsTyped'
  BY <1>1, <1>2 DEF Modes
<1>4. /\ d.at = "send" /\ d.doubled = c.doubled /\ d.partial = c.partial /\ d.mode = "chat"
  BY <1>1 DEF CallType
<1>5. LatchIsRight'
  BY <1>1, <1>4 DEF LatchIsRight
<1>6. TextIsKept'
  BY <1>1, <1>4 DEF TextIsKept
<1> QED BY <1>3, <1>5, <1>6

\* What an error makes of a call: with a first text it is a text.
LEMMA RaisedCall ==
  ASSUME NEW c \in CallType, NEW why \in {"failed", "unsupported"}
  PROVE  /\ Raised(c, why) \in CallType
         /\ Raised(c, why).at = IF c.doubled /\ c.partial THEN "text" ELSE why
BY DEF Raised, Over, Idle, CallType, Stages

\* One request, with or without an answer.
LEMMA InvSend ==
  ASSUME Inv, NEW u \in Units, Send(u)
  PROVE  Inv'
<1> USE DEF Inv, CallsTyped
<1> DEFINE c == call[u]
<1>1. c.at = "send" /\ c \in CallType /\ UNCHANGED <<apiMode, supports, latched>>
  BY DEF Send, ClientFrame, clientVars
<1>2. CASE call' = [call EXCEPT ![u] = Waits(c)] /\ UNCHANGED received
  <2>1. /\ Waits(c) \in CallType /\ Waits(c).at = "send"
        /\ Waits(c).mode = c.mode /\ Waits(c).fallback = c.fallback
        /\ Waits(c).doubled = c.doubled /\ Waits(c).partial = c.partial
    BY <1>1 DEF Waits, CallType, Stages
  <2>2. CallsTyped'
    BY <1>1, <1>2, <2>1
  <2>3. LatchIsRight'
    BY <1>1, <1>2, <2>1 DEF LatchIsRight
  <2>4. TextIsKept'
    BY <1>1, <1>2, <2>1 DEF TextIsKept
  <2> QED BY <2>2, <2>3, <2>4
<1>3. ASSUME NEW why \in {"failed", "unsupported"},
             call' = [call EXCEPT ![u] = Raised(c, why)], UNCHANGED received,
             why = "unsupported" => c.mode \notin supports /\ ~c.fallback
      PROVE Inv'
  <2>1. /\ Raised(c, why) \in CallType
        /\ Raised(c, why).at = IF c.doubled /\ c.partial THEN "text" ELSE why
    BY <1>1, <1>3, RaisedCall
  <2>2. CallsTyped'
    BY <1>1, <1>3, <2>1
  <2>3. LatchIsRight'
    BY <1>1, <1>3, <2>1 DEF LatchIsRight
  <2>4. TextIsKept'
    BY <1>1, <1>3, <2>1 DEF TextIsKept
  <2> QED BY <2>2, <2>3, <2>4
<1>4. CASE /\ c.fallback /\ call' = [call EXCEPT ![u] = [c EXCEPT !.at = "fallback"]]
           /\ UNCHANGED received
  <2> DEFINE d == [c EXCEPT !.at = "fallback"]
  <2>1. /\ d \in CallType /\ d.at = "fallback"
        /\ d.doubled = c.doubled /\ d.partial = c.partial
    BY <1>1 DEF CallType, Stages
  <2>2. CallsTyped'
    BY <1>1, <1>4, <2>1
  <2>3. LatchIsRight'
    BY <1>1, <1>4, <2>1 DEF LatchIsRight
  <2>4. TextIsKept'
    BY <1>1, <1>4, <2>1 DEF TextIsKept
  <2> QED BY <2>2, <2>3, <2>4
<1>5. ASSUME c.mode \in supports, NEW truncated \in BOOLEAN, NEW full \in BOOLEAN,
             call' = [call EXCEPT ![u] =
                        [c EXCEPT !.at = "got", !.truncated = truncated, !.full = full]],
             received' = IF full THEN received \cup {u} ELSE received
      PROVE Inv'
  <2> DEFINE d == [c EXCEPT !.at = "got", !.truncated = truncated, !.full = full]
  <2>1. /\ d \in CallType /\ d.at = "got" /\ d.mode = c.mode /\ d.full = full
        /\ d.doubled = c.doubled /\ d.partial = c.partial
    BY <1>1 DEF CallType, Stages
  <2>2. CallsTyped'
    BY <1>1, <1>5, <2>1
  <2>3. LatchIsRight'
    BY <1>1, <1>5, <2>1 DEF LatchIsRight
  <2>4. TextIsKept'
    BY <1>1, <1>5, <2>1 DEF TextIsKept
  <2> QED BY <2>2, <2>3, <2>4
<1> QED BY <1>2, <1>3, <1>4, <1>5 DEF Send, Set

\* What complete makes of an answer: a text that came in this request or the first one is
\* kept or handed on.
LEMMA JudgedCall ==
  ASSUME NEW c \in CallType
  PROVE  /\ Judged(c) \in CallType
         /\ Judged(c).at \in {"pick", "text", "failed"}
         /\ c.full \/ (c.doubled /\ c.partial) =>
              \/ Judged(c).at = "text"
              \/ Judged(c).at = "pick" /\ Judged(c).doubled /\ Judged(c).partial
BY DEF Judged, Over, Idle, CallType, Stages

\* An answer: the first in auto mode latches its mode.
LEMMA InvReceive ==
  ASSUME Inv, NEW u \in Units, Receive(u)
  PROVE  Inv'
<1> USE DEF Inv, CallsTyped
<1> DEFINE c == call[u]
           d == Judged(c)
<1>1. /\ c.at = "got" /\ c \in CallType
      /\ call' = [call EXCEPT ![u] = d]
      /\ latched' = IF apiMode = "auto" /\ latched = "none" THEN c.mode ELSE latched
      /\ UNCHANGED <<apiMode, supports, received>>
  BY DEF Receive, Set, ClientFrame, clientVars
<1>2. /\ d \in CallType /\ d.at \in {"pick", "text", "failed"}
      /\ c.full \/ (c.doubled /\ c.partial) =>
           d.at = "text" \/ (d.at = "pick" /\ d.doubled /\ d.partial)
  BY <1>1, JudgedCall
<1> HIDE DEF d
<1>3. CallsTyped'
  BY <1>1, <1>2 DEF CallType
<1>4. LatchIsRight'
  BY <1>1, <1>2 DEF LatchIsRight
<1>5. TextIsKept'
  BY <1>1, <1>2 DEF TextIsKept
<1> QED BY <1>3, <1>4, <1>5

-----------------------------------------------------------------------------
\* No step of a thread breaks the invariant.
LEMMA InvStep == Inv /\ [Next]_vars => Inv'
<1> SUFFICES ASSUME Inv, [Next]_vars PROVE Inv'
  OBVIOUS
<1>1. CASE UNCHANGED <<apiMode, supports, latched, call, received>>
  BY <1>1 DEF Inv, CallsTyped, LatchIsRight, TextIsKept
<1>2. ASSUME NEW u \in Units, ClientStep(u) PROVE Inv'
  BY <1>2, InvPick, InvSend, InvFallBack, InvReceive, Zenon DEF ClientStep
<1>3. CASE UNCHANGED vars
  BY <1>1, <1>3, Zenon DEF vars, clientVars
<1> QED BY <1>1, <1>2, <1>3, InvUnitStep, MainStepLeaves, Zenon DEF Next

\* The invariant holds in every state of a translation.
THEOREM CallsAreRight == Spec => []Inv
BY InvInit, InvStep, PTL DEF Spec

\* A server that has chat is found to have it, for any number of threads, whoever asks
\* first and however their calls overlap (client.py:94-115).
THEOREM ChatIsReached == Spec => []FallbackReachesChat
<1>1. Inv => FallbackReachesChat
  BY DEF Inv, LatchIsRight, FallbackReachesChat
<1> QED BY <1>1, CallsAreRight, PTL

\* No call ends with an error after it received a text, whatever fails afterwards
\* (client.py:70-92).
THEOREM ReceivedTextIsReturned == Spec => []TextIsNotLost
<1>1. Inv => TextIsNotLost
  BY DEF Inv, TextIsKept, TextIsNotLost
<1> QED BY <1>1, CallsAreRight, PTL

-----------------------------------------------------------------------------
\* The texts: what a thread makes of its unit.

Lines == Tokens \cup Plain

\* A text that an outcome may have: it is not blank.
Solid(s) == s \in Seq(Lines) /\ \E i \in DOMAIN s : s[i] # "blank"

\* There is a placeholder for each token of a text.
Fits(src) == /\ Cardinality(TokenPlaces(src)) <= Len(MathNames)
             /\ Cardinality(TokenPlaces(src)) <= Len(TagNames)

\* A text has the formulas of another, next to some of its own, and no placeholder.
KeepsTokens(s, src, o) == /\ \A t \in Formulas : Count(s, t) = Count(src, t) + o[t]
                          /\ \A p \in Names : Count(s, p) = 0

Ladder == {"begin", "first", "repair", "left", "leftRepair", "right", "rightRepair"}

TextsTyped == /\ stage \in [Units -> Ladder \cup Outcomes]
              /\ text \in [Units -> Seq(Lines)] /\ left \in [Units -> Seq(Lines)]
              /\ own \in [Units -> [Formulas -> Nat]]

\* A half that is translated has the formulas of its half of the source, and so has the
\* whole.
TokensKept ==
  \A u \in Units :
    /\ stage[u] \in {"left", "leftRepair", "right", "rightRepair"} => Splittable(Sources[u])
    /\ stage[u] \in {"right", "rightRepair"} =>
         Solid(left[u]) /\ KeepsTokens(left[u], Halves(Sources[u])[1], own[u])
    /\ stage[u] = "translated" => KeepsTokens(text[u], Sources[u], own[u])

\* What goes into the document, or comes from the cache, is not blank.
TextsSolid == /\ \A u \in Units : stage[u] \in Outcomes \ {"raised"} => Solid(text[u])
              /\ \A e \in cache : Solid(e.text)

TextInv == TextsTyped /\ TokensKept /\ TextsSolid /\ PagesSurvive

-----------------------------------------------------------------------------
\* Texts.

\* A set of numbers has a least one.
LEMMA LeastIsThere ==
  ASSUME NEW S \in SUBSET Nat, S # {}
  PROVE  \E k \in S : \A y \in S : k <= y
<1>1. PICK m \in S : TRUE
  OBVIOUS
<1> DEFINE R == StrictSubsetOrdering(Nat)
           T == {0..k : k \in {k \in S : k <= m}}
<1>2. IsWellFoundedOn(R, FiniteSubsetsOf(Nat))
  BY FS_StrictSubsetOrderingWellFounded
<1>3. T \subseteq FiniteSubsetsOf(Nat)
  <2>1. \A k \in Nat : 0..k \subseteq Nat /\ IsFiniteSet(0..k)
    BY FS_Interval
  <2> QED
    BY <2>1 DEF FiniteSubsetsOf
<1>4. 0..m \in T
  BY <1>1
<1>5. \E x \in T : \A y \in T : <<y, x>> \notin R
  BY <1>2, <1>3, <1>4, WFMin
<1>6. PICK k \in S : k <= m /\ \A y \in T : <<y, 0..k>> \notin R
  BY <1>5
<1>7. ASSUME NEW y \in S, y < k PROVE FALSE
  <2>1. 0..y \in T
    BY <1>6, <1>7, <1>1
  <2>2. 0..y \subseteq 0..k /\ k \in 0..k /\ k \notin 0..y
    BY <1>7
  <2>3. <<0..y, 0..k>> \in R
    BY <2>1, <2>2 DEF StrictSubsetOrdering
  <2> QED
    BY <1>6, <2>1, <2>3
<1>8. \A y \in S : k <= y
  BY <1>7
<1> QED BY <1>8

\* The places of a text are finitely many numbers, and so are some of them.
LEMMA PlacesAreFinite ==
  ASSUME NEW S, NEW s \in Seq(S), NEW places \in SUBSET (DOMAIN s)
  PROVE  /\ places \in SUBSET Nat /\ IsFiniteSet(places)
         /\ Cardinality(places) \in Nat /\ Cardinality(places) <= Len(s)
<1>1. DOMAIN s = 1..Len(s) /\ Len(s) \in Nat
  BY LenProperties
<1>2. IsFiniteSet(1..Len(s)) /\ Cardinality(1..Len(s)) = Len(s)
  <2>1. Len(s) \in Nat
    BY <1>1
  <2> QED BY <2>1, FS_Interval
<1>3. IsFiniteSet(places) /\ Cardinality(places) <= Len(s)
  BY <1>1, <1>2, FS_Subset
<1> QED BY <1>1, <1>3, FS_CardinalityType

\* The ranks of some places are the numbers from one to how many they are, and a later
\* place has a higher one.
LEMMA RanksAreNumbers ==
  ASSUME NEW places \in SUBSET Nat, IsFiniteSet(places)
  PROVE  /\ \A i \in places : Rank(places, i) \in 1..Cardinality(places)
         /\ \A i \in places, j \in places : i < j => Rank(places, i) < Rank(places, j)
         /\ \A k \in 1..Cardinality(places) : \E i \in places : Rank(places, i) = k
<1> DEFINE upTo(i) == {j \in places : j <= i}
           n == Cardinality(places)
<1>1. \A i \in places : IsFiniteSet(upTo(i)) /\ Rank(places, i) = Cardinality(upTo(i))
  BY FS_Subset DEF Rank
<1>2. ASSUME NEW i \in places PROVE Rank(places, i) \in 1..n
  <2>1. upTo(i) # {} /\ upTo(i) \subseteq places
    BY <1>2
  <2>2. Cardinality(upTo(i)) \in Nat /\ Cardinality(upTo(i)) # 0 /\ n \in Nat
    BY <1>1, <2>1, FS_EmptySet, FS_CardinalityType
  <2>3. Cardinality(upTo(i)) <= n
    BY <2>1, FS_Subset
  <2> QED BY <1>1, <2>2, <2>3
<1>3. ASSUME NEW i \in places, NEW j \in places, i < j
      PROVE  Rank(places, i) < Rank(places, j)
  <2>1. upTo(i) \subseteq upTo(j) /\ j \in upTo(j) /\ j \notin upTo(i)
    <3>1. i \in Nat /\ j \in Nat
      OBVIOUS
    <3>2. ASSUME NEW k \in places, k <= i PROVE k <= j
      <4>1. k \in Nat
        OBVIOUS
      <4> QED BY <1>3, <3>1, <3>2, <4>1
    <3>3. j <= j /\ ~(j <= i)
      BY <1>3, <3>1
    <3> QED BY <3>2, <3>3, Zenon
  <2>2. Cardinality(upTo(i)) <= Cardinality(upTo(j))
        /\ Cardinality(upTo(i)) # Cardinality(upTo(j))
    BY <1>1, <2>1, FS_Subset
  <2>3. Rank(places, i) \in Nat /\ Rank(places, j) \in Nat
    BY <1>2
  <2> QED BY <1>1, <2>2, <2>3
<1>4. \A k \in 1..n : \E i \in places : Rank(places, i) = k
  <2> DEFINE f == [i \in places |-> Rank(places, i)]
  <2>1. f \in [places -> 1..n]
    BY <1>2
  <2>2. ASSUME NEW i \in places, NEW j \in places, f[i] = f[j] PROVE i = j
    <3>1. Rank(places, i) = Rank(places, j)
      BY <2>2
    <3>2. Rank(places, i) \in Nat
      BY <1>2
    <3>3. ~(i < j) /\ ~(j < i)
      BY <1>3, <3>1, <3>2
    <3> QED BY <3>3
  <2>3. f \in Injection(places, 1..n)
    BY <2>1, <2>2 DEF Injection, IsInjective
  <2>4. n \in Nat
    BY FS_CardinalityType
  <2>5. IsFiniteSet(1..n) /\ Cardinality(1..n) = n
    BY <2>4, FS_Interval
  <2>6. f \in Surjection(places, 1..n)
    BY <2>3, <2>5, FS_Injection
  <2> QED BY <2>6 DEF Surjection
<1> QED BY <1>2, <1>3, <1>4

\* The lines at some places of a text are those, at their ranks.
LEMMA LinesAreThere ==
  ASSUME NEW S, NEW s \in Seq(S), NEW places \in SUBSET (DOMAIN s)
  PROVE  /\ LinesAt(s, places) \in Seq(S)
         /\ Len(LinesAt(s, places)) = Cardinality(places)
         /\ \A i \in places : /\ Rank(places, i) \in DOMAIN LinesAt(s, places)
                              /\ LinesAt(s, places)[Rank(places, i)] = s[i]
         /\ \A k \in DOMAIN LinesAt(s, places) :
              \E i \in places : Rank(places, i) = k /\ LinesAt(s, places)[k] = s[i]
<1> DEFINE n == Cardinality(places)
           at(k) == CHOOSE i \in places : Rank(places, i) = k
<1>1. places \in SUBSET Nat /\ IsFiniteSet(places) /\ n \in Nat
  BY PlacesAreFinite
<1>2. /\ \A i \in places : Rank(places, i) \in 1..n
      /\ \A i \in places, j \in places : i < j => Rank(places, i) < Rank(places, j)
      /\ \A k \in 1..n : \E i \in places : Rank(places, i) = k
  BY <1>1, RanksAreNumbers
<1>3. \A k \in 1..n : at(k) \in places /\ Rank(places, at(k)) = k
  BY <1>2
<1>4. \A i \in places, j \in places : Rank(places, i) = Rank(places, j) => i = j
  BY <1>1, <1>2
<1>5. LinesAt(s, places) = [k \in 1..n |-> s[at(k)]]
  BY DEF LinesAt
<1>6. \A i \in DOMAIN s : s[i] \in S
  BY LenProperties
<1> HIDE DEF at, n
<1>7. \A k \in 1..n : s[at(k)] \in S
  BY <1>3, <1>6
<1>8. LinesAt(s, places) \in Seq(S) /\ DOMAIN LinesAt(s, places) = 1..n
      /\ Len(LinesAt(s, places)) = n
  BY <1>1, <1>5, <1>7, IsASeq, LenProperties
<1>9. \A i \in places : at(Rank(places, i)) = i
  BY <1>2, <1>3, <1>4
<1> QED BY <1>2, <1>3, <1>5, <1>8, <1>9 DEF n

\* A sanitized answer is a text.
LEMMA SanitizedIsAText ==
  ASSUME NEW raw \in Answers
  PROVE  Sanitize(raw) \in Seq(Lines)
<1> DEFINE places == {i \in DOMAIN raw : raw[i] # "delimiter"}
           kept == LinesAt(raw, places)
           Own == {"word", "rule", "blank", "delimiter"} \cup Tokens
<1>1. PICK n \in 1..MaxLines : raw \in [1..n -> Own]
  BY DEF Answers
<1>2. \A x \in Own : x \in Lines
  BY DEF Lines, Plain
<1> HIDE DEF Own
<1>3. raw \in Seq(Lines)
  <2>1. n \in Nat /\ raw = [i \in 1..n |-> raw[i]] /\ \A i \in 1..n : raw[i] \in Lines
    BY <1>1, <1>2
  <2> QED BY <2>1, IsASeq
<1>4. places \in SUBSET (DOMAIN raw)
  OBVIOUS
<1> HIDE DEF places
<1>5. kept \in Seq(Lines)
  BY <1>3, <1>4, LinesAreThere
<1>6. DOMAIN kept = 1..Len(kept) /\ Len(kept) \in Nat /\ \A k \in DOMAIN kept : kept[k] \in Lines
  <2> HIDE DEF kept
  <2>1. DOMAIN kept = 1..Len(kept) /\ Len(kept) \in Nat
    BY <1>5, LenProperties
  <2> QED BY <1>5, <2>1, ElementOfSeq
<1> DEFINE line(k) == IF kept[k] \in Display THEN "damaged" ELSE kept[k]
<1>7. Sanitize(raw) = [k \in 1..Len(kept) |-> line(k)]
  BY <1>6 DEF Sanitize, places
<1>8. "damaged" \in Lines
  BY DEF Lines, Plain
<1> HIDE DEF kept
<1>9. \A k \in 1..Len(kept) : line(k) \in Lines
  BY <1>6, <1>8
<1> HIDE DEF line
<1> QED BY <1>6, <1>7, <1>9, IsASeq

\* The tokens of a text: each has a placeholder, which is a name.
LEMMA MappingIsThere ==
  ASSUME NEW src \in Seq(Lines), Fits(src)
  PROVE  /\ DOMAIN Mapping(src) = 1..Len(Mapping(src)) /\ Len(Mapping(src)) \in Nat
         /\ \A k \in DOMAIN Mapping(src) : /\ Mapping(src)[k] \in Tokens
                                           /\ Placeholder(Mapping(src)[k], k) \in Names
<1> DEFINE places == TokenPlaces(src)
           m == Mapping(src)
<1>1. places \in SUBSET (DOMAIN src)
  BY DEF TokenPlaces
<1>2. m \in Seq(Lines) /\ Len(m) = Cardinality(places)
  BY <1>1, LinesAreThere DEF Mapping
<1>3. DOMAIN m = 1..Len(m) /\ Len(m) \in Nat
  <2> HIDE DEF m
  <2> QED BY <1>2, LenProperties
<1>4. /\ DOMAIN MathNames = 1..Len(MathNames) /\ Len(MathNames) \in Nat
      /\ DOMAIN TagNames = 1..Len(TagNames) /\ Len(TagNames) \in Nat
  BY PlaceholdersAreTags, LenProperties
<1>5. \A k \in DOMAIN m : k \in DOMAIN MathNames /\ k \in DOMAIN TagNames
  <2> HIDE DEF m
  <2>1. Len(m) <= Len(MathNames) /\ Len(m) <= Len(TagNames)
    BY <1>2 DEF Fits
  <2> QED BY <1>3, <1>4, <2>1
<1>6. \A k \in DOMAIN m : m[k] \in Tokens
  <2>1. \A k \in DOMAIN m : \E i \in places : m[k] = src[i]
    BY <1>1, LinesAreThere DEF Mapping
  <2> QED BY <2>1 DEF TokenPlaces
<1>7. \A k \in DOMAIN m : Placeholder(m[k], k) \in Names
  <2> HIDE DEF m
  <2>1. \A k \in DOMAIN m : MathNames[k] \in Names /\ TagNames[k] \in Names
    BY <1>5 DEF Names, Range
  <2> QED BY <2>1 DEF Placeholder
<1> QED BY <1>3, <1>6, <1>7

\* unmask's texts, one for each placeholder it has looked for: the definition is recursive,
\* so that it has a value has to be shown.
Unmasks(out, src, s) ==
  out = [k \in 0..Len(Mapping(src)) |->
           IF k = 0 THEN s
           ELSE Put(out[k - 1], Placeholder(Mapping(src)[k], k), Mapping(src)[k])]

\* There are such texts.
LEMMA UnmaskedExists ==
  ASSUME NEW src, NEW s, Len(Mapping(src)) \in Nat
  PROVE  \E out : Unmasks(out, src, s)
<1> DEFINE n == Len(Mapping(src))
           Next1(t, k) == Put(t, Placeholder(Mapping(src)[k], k), Mapping(src)[k])
           Upto(f, k) == /\ f = [i \in 0..k |-> f[i]] /\ f[0] = s
                         /\ \A i \in 1..k : f[i] = Next1(f[i - 1], i)
           Bad == {k \in Nat : ~\E f : Upto(f, k)}
<1> HIDE DEF n, Next1
<1>1. n \in Nat
  BY DEF n
<1>2. Bad = {}
  <2> SUFFICES ASSUME Bad # {} PROVE FALSE
    OBVIOUS
  <2>1. PICK k \in Bad : \A y \in Bad : k <= y
    <3>1. Bad \in SUBSET Nat
      OBVIOUS
    <3> QED BY <3>1, LeastIsThere
  <2>2. k \in Nat /\ ~\E f : Upto(f, k)
    OBVIOUS
  <2>3. CASE k = 0
    <3> DEFINE f == [i \in 0..0 |-> s]
    <3>1. f = [i \in 0..0 |-> f[i]] /\ f[0] = s /\ \A i \in 1..0 : FALSE
      OBVIOUS
    <3> HIDE DEF f
    <3>2. Upto(f, 0)
      BY <3>1
    <3> QED BY <2>2, <2>3, <3>2
  <2>4. CASE k # 0
    <3>1. k - 1 \in Nat /\ ~(k <= k - 1)
      BY <2>2, <2>4
    <3>2. k - 1 \notin Bad
      BY <2>1, <3>1
    <3>3. PICK g : Upto(g, k - 1)
      BY <3>1, <3>2
    <3> DEFINE f == [i \in 0..k |-> IF i = k THEN Next1(g[k - 1], k) ELSE g[i]]
    <3>4. f = [i \in 0..k |-> f[i]] /\ f[0] = s
      <4>1. 0 \in 0..k /\ 0 # k
        BY <2>2, <2>4
      <4> QED BY <3>3, <4>1
    <3>5. ASSUME NEW i \in 1..k PROVE f[i] = Next1(f[i - 1], i)
      <4>1. i \in 0..k /\ i - 1 \in 0..k /\ i - 1 # k
        BY <2>2
      <4>2. f[i - 1] = g[i - 1]
        BY <4>1
      <4>3. CASE i = k
        BY <4>1, <4>2, <4>3
      <4>4. CASE i # k
        <5>1. i \in 1..(k - 1)
          BY <2>2, <4>4
        <5>2. g[i] = Next1(g[i - 1], i)
          BY <3>3, <5>1
        <5> QED BY <4>1, <4>2, <4>4, <5>2
      <4> QED BY <4>3, <4>4
    <3> HIDE DEF f
    <3>6. Upto(f, k)
      BY <3>4, <3>5
    <3> QED BY <2>2, <3>6
  <2> QED BY <2>3, <2>4
<1>3. PICK f : Upto(f, n)
  BY <1>1, <1>2, Zenon
<1>4. ASSUME NEW k \in 0..n PROVE f[k] = IF k = 0 THEN s ELSE Next1(f[k - 1], k)
  <2>1. k # 0 => k \in 1..n
    BY <1>1
  <2> QED BY <1>3, <2>1
<1>5. f = [k \in 0..n |-> IF k = 0 THEN s ELSE Next1(f[k - 1], k)]
  BY <1>3, <1>4
<1> QED BY <1>5 DEF Unmasks, n, Next1

\* unmask's texts are the answer and, for each placeholder, what putting its token in makes
\* of the text before.
LEMMA UnmaskedIs ==
  ASSUME NEW src, NEW s, Len(Mapping(src)) \in Nat
  PROVE  /\ Unmasked(src, s)[0] = s
         /\ \A k \in 1..Len(Mapping(src)) :
              Unmasked(src, s)[k] =
                Put(Unmasked(src, s)[k - 1], Placeholder(Mapping(src)[k], k), Mapping(src)[k])
<1> DEFINE out == CHOOSE f : Unmasks(f, src, s)
           n == Len(Mapping(src))
<1>1. Unmasks(out, src, s)
  BY UnmaskedExists
<1>2. Unmasked(src, s) = out
  BY Zenon DEF Unmasked, Unmasks
<1> HIDE DEF out
<1>3. out = [k \in 0..n |->
               IF k = 0 THEN s
               ELSE Put(out[k - 1], Placeholder(Mapping(src)[k], k), Mapping(src)[k])]
  BY <1>1, Zenon DEF Unmasks
<1> HIDE DEF n
<1>4. n \in Nat
  BY DEF n
<1>5. 0 \in 0..n /\ \A k \in 1..n : k \in 0..n /\ k # 0
  BY <1>4
<1>6. out[0] = s
  BY <1>3, <1>5
<1>7. \A k \in 1..n :
        out[k] = Put(out[k - 1], Placeholder(Mapping(src)[k], k), Mapping(src)[k])
  BY <1>3, <1>5
<1> QED BY <1>2, <1>6, <1>7 DEF n

\* A line is there a number of times.
LEMMA CountIsANumber ==
  ASSUME NEW s \in Seq(Lines), NEW x
  PROVE  Count(s, x) \in Nat
<1>1. {i \in DOMAIN s : s[i] = x} \in SUBSET (DOMAIN s)
  OBVIOUS
<1> QED BY <1>1, PlacesAreFinite DEF Count

\* Where a name is there once, putting a token in for it adds the token, and leaves how
\* often any line is there that is not a name.
LEMMA PutCounts ==
  ASSUME NEW s \in Seq(Lines), NEW name, NEW token \in Lines, NEW t, name # t,
         Count(s, name) = 1
  PROVE  /\ Put(s, name, token) \in Seq(Lines)
         /\ Count(Put(s, name, token), t) = Count(s, t) + IF token = t THEN 1 ELSE 0
<1> DEFINE I == {i \in DOMAIN s : s[i] = name}
           A == {i \in DOMAIN s : s[i] = t}
           p == Put(s, name, token)
           B == {i \in DOMAIN p : p[i] = t}
<1>1. DOMAIN s = 1..Len(s) /\ Len(s) \in Nat /\ \A i \in DOMAIN s : s[i] \in Lines
  <2>1. DOMAIN s = 1..Len(s) /\ Len(s) \in Nat
    BY LenProperties
  <2> QED BY <2>1, ElementOfSeq
<1>2. /\ DOMAIN p = DOMAIN s
      /\ \A i \in DOMAIN s : p[i] = IF s[i] = name THEN token ELSE s[i]
  BY DEF Put
<1>3. p \in Seq(Lines)
  <2>1. \A i \in 1..Len(s) : p[i] \in Lines
    BY <1>1, <1>2
  <2>2. p = [i \in 1..Len(s) |-> p[i]]
    BY <1>1 DEF Put
  <2> HIDE DEF p
  <2> QED BY <1>1, <2>1, <2>2, IsASeq
<1>4. IsFiniteSet(I) /\ IsFiniteSet(A)
  <2>1. I \in SUBSET (DOMAIN s) /\ A \in SUBSET (DOMAIN s)
    OBVIOUS
  <2> QED BY <2>1, PlacesAreFinite
<1>5. PICK i : I = {i}
  <2>1. Cardinality(I) = 1
    BY DEF Count
  <2> QED BY <1>4, <2>1, FS_Singleton
<1>6. i \in DOMAIN s /\ s[i] = name /\ \A j \in DOMAIN s : s[j] = name => j = i
  BY <1>5
<1>7. i \notin A
  BY <1>6
<1>8. CASE token = t
  <2>1. B = A \cup {i}
    BY <1>2, <1>6, <1>8
  <2>2. Cardinality(A \cup {i}) = Cardinality(A) + 1
    BY <1>4, <1>7, FS_AddElement
  <2> QED BY <1>3, <1>8, <2>1, <2>2 DEF Count
<1>9. CASE token # t
  <2>1. B = A
    BY <1>2, <1>6, <1>9
  <2>2. Count(s, t) \in Nat
    BY CountIsANumber
  <2>3. Count(p, t) = Count(s, t)
    BY <2>1 DEF Count
  <2> HIDE DEF p
  <2>4. Count(p, t) = Count(s, t) + 0
    BY <2>2, <2>3
  <2>5. Put(s, name, token) = p
    BY DEF p
  <2> QED BY <1>3, <1>9, <2>4, <2>5
<1> QED BY <1>8, <1>9

\* The tokens of a text are, in the order of their placeholders, what they are in the text:
\* each is there as often.
LEMMA MappingHasTheTokens ==
  ASSUME NEW src \in Seq(Lines), NEW t \in Tokens
  PROVE  /\ IsFiniteSet({k \in DOMAIN Mapping(src) : Mapping(src)[k] = t})
         /\ Cardinality({k \in DOMAIN Mapping(src) : Mapping(src)[k] = t}) = Count(src, t)
<1> DEFINE m == Mapping(src)
           places == TokenPlaces(src)
           A == {i \in DOMAIN src : src[i] = t}
           K == {k \in DOMAIN m : m[k] = t}
           f == [i \in A |-> Rank(places, i)]
<1>1. places \in SUBSET (DOMAIN src) /\ A \subseteq places
  BY DEF TokenPlaces
<1>2. /\ places \in SUBSET Nat /\ IsFiniteSet(places)
      /\ A \in SUBSET (DOMAIN src)
  BY <1>1, PlacesAreFinite
<1>3. IsFiniteSet(A)
  BY <1>2, PlacesAreFinite
<1>4. /\ \A i \in places : Rank(places, i) \in DOMAIN m /\ m[Rank(places, i)] = src[i]
      /\ \A k \in DOMAIN m : \E i \in places : Rank(places, i) = k /\ m[k] = src[i]
  BY <1>1, LinesAreThere DEF Mapping
<1>5. \A i \in places, j \in places : Rank(places, i) = Rank(places, j) => i = j
  <2>1. /\ \A i \in places : Rank(places, i) \in 1..Cardinality(places)
        /\ \A i \in places, j \in places : i < j => Rank(places, i) < Rank(places, j)
    BY <1>2, RanksAreNumbers
  <2> SUFFICES ASSUME NEW i \in places, NEW j \in places, Rank(places, i) = Rank(places, j)
               PROVE  i = j
    OBVIOUS
  <2>2. i \in Nat /\ j \in Nat /\ Rank(places, i) \in Nat
    BY <1>2, <2>1
  <2>3. ~(i < j) /\ ~(j < i)
    BY <2>1, <2>2
  <2> QED BY <2>2, <2>3
<1>6. f \in Bijection(A, K)
  <2>1. f \in [A -> K]
    BY <1>1, <1>4
  <2>2. \A i \in A, j \in A : f[i] = f[j] => i = j
    BY <1>1, <1>5
  <2>3. \A k \in K : \E i \in A : f[i] = k
    <3> SUFFICES ASSUME NEW k \in K PROVE \E i \in A : f[i] = k
      OBVIOUS
    <3>1. PICK i \in places : Rank(places, i) = k /\ m[k] = src[i]
      BY <1>4
    <3>2. i \in A
      BY <1>1, <3>1
    <3> QED BY <3>1, <3>2
  <2> HIDE DEF f, A, K
  <2> QED BY <2>1, <2>2, <2>3, Zenon DEF Bijection, Injection, Surjection, IsInjective
<1>7. IsFiniteSet(K) /\ Cardinality(K) = Cardinality(A)
  BY <1>3, <1>6, FS_Bijection DEF ExistsBijection
<1> QED BY <1>7 DEF Count

\* While placeholders are found once when their turn comes, the texts of unmask have the
\* formulas of the answer and of what was put in so far.
LEMMA UnmaskedCounts ==
  ASSUME NEW src \in Seq(Lines), Fits(src), NEW s \in Seq(Lines), NEW t \in Formulas,
         \A k \in DOMAIN Mapping(src) :
           Count(Unmasked(src, s)[k - 1], Placeholder(Mapping(src)[k], k)) = 1
  PROVE  /\ Restore(src, s) \in Seq(Lines)
         /\ Count(Restore(src, s), t) = Count(s, t) + Count(src, t)
<1> DEFINE m == Mapping(src)
           n == Len(Mapping(src))
           out == Unmasked(src, s)
           name(k) == Placeholder(m[k], k)
           upto(k) == {j \in 1..k : m[j] = t}
           Good(k) == /\ out[k] \in Seq(Lines)
                      /\ IsFiniteSet(upto(k))
                      /\ Count(out[k], t) = Count(s, t) + Cardinality(upto(k))
           Bad == {k \in 0..n : ~Good(k)}
<1>1. /\ DOMAIN m = 1..n /\ n \in Nat
      /\ \A k \in 1..n : m[k] \in Tokens /\ name(k) \in Names
  BY MappingIsThere
<1>2. out[0] = s /\ \A k \in 1..n : out[k] = Put(out[k - 1], name(k), m[k])
  BY <1>1, UnmaskedIs
<1>3. \A k \in 1..n : Count(out[k - 1], name(k)) = 1
  BY <1>1
<1>4. t \notin Names /\ \A x \in Tokens : x \in Lines
  BY PlaceholdersAreTags DEF Lines
<1>5. Count(s, t) \in Nat
  BY CountIsANumber
<1> HIDE DEF m, n, out, name
<1>6. Bad = {}
  <2> SUFFICES ASSUME Bad # {} PROVE FALSE
    OBVIOUS
  <2>1. PICK k \in Bad : \A y \in Bad : k <= y
    <3>1. Bad \in SUBSET Nat
      BY <1>1
    <3> HIDE DEF Bad
    <3> QED BY <3>1, LeastIsThere
  <2>2. k \in 0..n /\ k \in Nat /\ ~Good(k)
    BY <1>1, <2>1
  <2>3. CASE k = 0
    <3>1. upto(0) = {}
      OBVIOUS
    <3>2. IsFiniteSet(upto(0)) /\ Cardinality(upto(0)) = 0
      BY <3>1, FS_EmptySet
    <3> HIDE DEF upto
    <3>3. Good(0)
      BY <1>2, <1>5, <3>2
    <3> QED BY <2>2, <2>3, <3>3
  <2>4. CASE k # 0
    <3>1. k \in 1..n /\ k - 1 \in 0..n /\ ~(k <= k - 1) /\ k - 1 \in Nat
      BY <1>1, <2>2, <2>4
    <3>2. Good(k - 1)
      BY <2>1, <3>1
    <3>3. name(k) # t /\ m[k] \in Lines
      BY <1>1, <1>4, <3>1
    <3>4. /\ out[k] \in Seq(Lines)
          /\ Count(out[k], t) = Count(out[k - 1], t) + IF m[k] = t THEN 1 ELSE 0
      <4>1. out[k - 1] \in Seq(Lines)
        BY <3>2
      <4>2. Count(out[k - 1], name(k)) = 1 /\ out[k] = Put(out[k - 1], name(k), m[k])
        BY <1>2, <1>3, <3>1
      <4> QED BY <3>3, <4>1, <4>2, PutCounts
    <3>5. IsFiniteSet(upto(k - 1)) /\ k \notin upto(k - 1) /\ Cardinality(upto(k - 1)) \in Nat
      <4>1. k \notin upto(k - 1)
        BY <3>1
      <4> HIDE DEF upto
      <4>2. IsFiniteSet(upto(k - 1))
        BY <3>2
      <4> QED BY <4>1, <4>2, FS_CardinalityType
    <3>6. upto(k) = IF m[k] = t THEN upto(k - 1) \cup {k} ELSE upto(k - 1)
      <4>1. \A j : j \in 1..k <=> j \in 1..(k - 1) \/ j = k
        BY <2>2, <3>1
      <4> QED BY <4>1
    <3> HIDE DEF upto
    <3>7. /\ IsFiniteSet(upto(k))
          /\ Cardinality(upto(k)) = Cardinality(upto(k - 1)) + IF m[k] = t THEN 1 ELSE 0
      <4>1. CASE m[k] = t
        <5>1. upto(k) = upto(k - 1) \cup {k}
          BY <3>6, <4>1
        <5>2. /\ IsFiniteSet(upto(k - 1) \cup {k})
              /\ Cardinality(upto(k - 1) \cup {k}) = Cardinality(upto(k - 1)) + 1
          BY <3>5, FS_AddElement
        <5> QED BY <4>1, <5>1, <5>2
      <4>2. CASE m[k] # t
        BY <3>5, <3>6, <4>2
      <4> QED BY <4>1, <4>2
    <3>8. Count(out[k - 1], t) = Count(s, t) + Cardinality(upto(k - 1))
      BY <3>2
    <3>9. Count(out[k], t) = Count(s, t) + Cardinality(upto(k))
      BY <1>5, <3>4, <3>5, <3>7, <3>8
    <3>10. Good(k)
      BY <3>4, <3>7, <3>9
    <3> QED BY <2>2, <3>10
  <2> QED BY <2>3, <2>4
<1>7. Good(n)
  <2>1. n \in 0..n
    BY <1>1
  <2> HIDE DEF Good
  <2> QED BY <1>6, <2>1
<1>8. Cardinality(upto(n)) = Count(src, t)
  <2>1. t \in Tokens
    BY DEF Tokens
  <2>2. upto(n) = {k \in DOMAIN Mapping(src) : Mapping(src)[k] = t}
    BY <1>1 DEF m
  <2> HIDE DEF upto
  <2> QED BY <2>1, <2>2, MappingHasTheTokens
<1>9. Restore(src, s) = out[n]
  BY DEF Restore, out, n
<1> QED BY <1>7, <1>8, <1>9

\* What is accepted of an answer: it is not blank and has the formulas of the source next to
\* the answer's own, and no placeholder is left.
LEMMA RestoredHasTheTokens ==
  ASSUME NEW src \in Seq(Lines), Fits(src), NEW s \in Seq(Lines), Complete(src, s)
  PROVE  /\ Solid(Restore(src, s))
         /\ KeepsTokens(Restore(src, s), src, [t \in Formulas |-> Count(s, t)])
<1> DEFINE r == Restore(src, s)
           o == [t \in Formulas |-> Count(s, t)]
<1>1. /\ \A k \in DOMAIN Mapping(src) :
           Count(Unmasked(src, s)[k - 1], Placeholder(Mapping(src)[k], k)) = 1
      /\ \A p \in Names : Count(r, p) = 0
      /\ \E i \in DOMAIN r : r[i] # "blank"
  BY Zenon DEF Complete
<1>2. \A t \in Formulas : r \in Seq(Lines) /\ Count(r, t) = Count(s, t) + Count(src, t)
  BY <1>1, UnmaskedCounts
<1>3. r \in Seq(Lines)
  <2>1. "fa" \in Formulas
    BY DEF Formulas
  <2> QED BY <1>2, <2>1
<1> HIDE DEF r
<1>4. ASSUME NEW t \in Formulas PROVE Count(r, t) = Count(src, t) + o[t]
  <2>1. Count(s, t) \in Nat /\ Count(src, t) \in Nat
    BY CountIsANumber
  <2>2. o[t] = Count(s, t)
    OBVIOUS
  <2> QED BY <1>2, <2>1, <2>2
<1> HIDE DEF o
<1>5. Solid(r) /\ KeepsTokens(r, src, o)
  BY <1>1, <1>3, <1>4 DEF Solid, KeepsTokens
<1> QED BY <1>5 DEF r, o

\* In two texts together there is as much of a line as in both.
LEMMA CountsAdd ==
  ASSUME NEW s \in Seq(Lines), NEW t \in Seq(Lines), NEW x
  PROVE  Count(s \o t, x) = Count(s, x) + Count(t, x)
<1> DEFINE A == {i \in DOMAIN s : s[i] = x}
           B == {i \in DOMAIN t : t[i] = x}
           n == Len(s)
           C == {n + i : i \in B}
           D == {i \in DOMAIN (s \o t) : (s \o t)[i] = x}
           f == [i \in B |-> n + i]
<1>1. /\ DOMAIN s = 1..n /\ DOMAIN t = 1..Len(t) /\ n \in Nat /\ Len(t) \in Nat
  BY LenProperties
<1>2. /\ DOMAIN (s \o t) = 1..(n + Len(t))
      /\ \A i \in 1..n : (s \o t)[i] = s[i]
      /\ \A i \in 1..Len(t) : (s \o t)[n + i] = t[i]
  BY <1>1
<1>3. IsFiniteSet(A) /\ IsFiniteSet(B)
  <2>1. A \in SUBSET (DOMAIN s) /\ B \in SUBSET (DOMAIN t)
    OBVIOUS
  <2> QED BY <2>1, PlacesAreFinite
<1>4. D = A \cup C
  <2>1. ASSUME NEW i \in D PROVE i \in A \cup C
    <3>1. i \in 1..(n + Len(t))
      BY <1>2
    <3>2. CASE i <= n
      <4>1. i \in 1..n
        BY <1>1, <3>1, <3>2
      <4> QED BY <1>1, <1>2, <4>1
    <3>3. CASE i > n
      <4>1. i - n \in 1..Len(t) /\ i = n + (i - n)
        BY <1>1, <3>1, <3>3
      <4>2. i - n \in B
        BY <1>1, <1>2, <4>1
      <4> QED BY <4>1, <4>2
    <3> QED BY <1>1, <3>1, <3>2, <3>3
  <2>2. A \subseteq D
    <3>1. \A i \in 1..n : i \in 1..(n + Len(t))
      BY <1>1
    <3> QED BY <1>1, <1>2, <3>1
  <2>3. C \subseteq D
    <3>1. \A i \in 1..Len(t) : n + i \in 1..(n + Len(t))
      BY <1>1
    <3> QED BY <1>1, <1>2, <3>1
  <2> QED BY <2>1, <2>2, <2>3
<1>5. A \cap C = {}
  <2>1. \A i \in 1..n, j \in 1..Len(t) : i # n + j
    BY <1>1
  <2> QED BY <1>1, <2>1
<1>6. f \in Bijection(B, C)
  <2>1. f \in [B -> C]
    OBVIOUS
  <2>2. \A i \in B, j \in B : f[i] = f[j] => i = j
    <3>1. \A i \in 1..Len(t), j \in 1..Len(t) : n + i = n + j => i = j
      BY <1>1
    <3> QED BY <1>1, <3>1
  <2>3. \A k \in C : \E i \in B : f[i] = k
    OBVIOUS
  <2> HIDE DEF f, B, C
  <2> QED BY <2>1, <2>2, <2>3, Zenon DEF Bijection, Injection, Surjection, IsInjective
<1>7. IsFiniteSet(C) /\ Cardinality(C) = Cardinality(B)
  BY <1>3, <1>6, FS_Bijection DEF ExistsBijection
<1>8. Cardinality(A) \in Nat /\ Cardinality(C) \in Nat
  BY <1>3, <1>7, FS_CardinalityType
<1> HIDE DEF A, B, C, D
<1>9. Cardinality(A \cup C) = Cardinality(A) + Cardinality(C) - Cardinality(A \cap C)
  BY <1>3, <1>7, FS_Union
<1>10. Cardinality(A \cap C) = 0
  BY <1>5, FS_EmptySet
<1>11. Cardinality(D) = Cardinality(A) + Cardinality(B)
  BY <1>4, <1>7, <1>8, <1>9, <1>10
<1> QED BY <1>11 DEF Count, A, B, D

\* A source is a text, and it has a placeholder for each of its tokens.
LEMMA SourceIsAText ==
  ASSUME NEW u \in Units
  PROVE  /\ Sources[u] \in Seq(Lines) /\ Solid(Sources[u])
         /\ Fits(Sources[u])
         /\ \A i \in DOMAIN Sources[u] : Sources[u][i] \in Tokens \cup {"word", "blank"}
<1>1. Sources[u] \in Seq(Tokens \cup {"word", "blank"})
  <2>1. Units = 1..Len(Sources)
    BY SourcesAreUnits, LenProperties DEF Units
  <2> QED BY <2>1, SourcesAreUnits, ElementOfSeq
<1>2. Tokens \cup {"word", "blank"} \subseteq Lines
  BY DEF Lines, Plain
<1>3. Sources[u] \in Seq(Lines)
  BY <1>1, <1>2, SeqMonotonic
<1>4. \A i \in DOMAIN Sources[u] : Sources[u][i] \in Tokens \cup {"word", "blank"}
  BY <1>1, LenProperties
<1> QED BY <1>3, <1>4, SourcesAreUnits DEF Solid, Fits

\* The halves of a text make it up, and neither has more tokens.
LEMMA HalvesAreTexts ==
  ASSUME NEW src \in Seq(Lines), Splittable(src)
  PROVE  /\ Halves(src)[1] \in Seq(Lines) /\ Halves(src)[2] \in Seq(Lines)
         /\ Halves(src)[1] \o Halves(src)[2] = src
         /\ Cardinality(TokenPlaces(Halves(src)[1])) <= Cardinality(TokenPlaces(src))
         /\ Cardinality(TokenPlaces(Halves(src)[2])) <= Cardinality(TokenPlaces(src))
<1> DEFINE a == SubSeq(src, 1, 2)
           b == SubSeq(src, 3, 4)
<1>1. Halves(src)[1] = a /\ Halves(src)[2] = b
  BY DEF Halves
<1>2. Len(src) = 4 /\ DOMAIN src = 1..4 /\ \A i \in 1..4 : src[i] \in Lines
  <2>1. Len(src) = 4 /\ DOMAIN src = 1..Len(src)
    BY LenProperties DEF Splittable
  <2> QED BY <2>1, ElementOfSeq
<1>3. /\ a \in Seq(Lines) /\ Len(a) = 2 /\ \A i \in 1..2 : a[i] = src[i]
      /\ b \in Seq(Lines) /\ Len(b) = 2 /\ \A i \in 1..2 : b[i] = src[2 + i]
  BY <1>2
<1>4. DOMAIN a = 1..2 /\ DOMAIN b = 1..2
  BY <1>3, LenProperties
<1>5. a \o b = src
  <2>1. /\ a \o b \in Seq(Lines) /\ Len(a \o b) = 4
        /\ \A i \in 1..2 : (a \o b)[i] = a[i]
        /\ \A i \in 1..2 : (a \o b)[2 + i] = b[i]
    <3> HIDE DEF a, b
    <3>1. a \in Seq(Lines) /\ b \in Seq(Lines) /\ Len(a) = 2 /\ Len(b) = 2
      BY <1>3
    <3>2. /\ a \o b \in Seq(Lines) /\ Len(a \o b) = Len(a) + Len(b)
          /\ \A i \in 1..Len(a) : (a \o b)[i] = a[i]
          /\ \A i \in 1..Len(b) : (a \o b)[Len(a) + i] = b[i]
      <4>1. a \in Seq(Lines) /\ b \in Seq(Lines)
        BY <3>1
      <4> QED BY <4>1, LenProperties
    <3> QED BY <3>1, <3>2
  <2>2. \A i \in 1..4 : (a \o b)[i] = src[i]
    <3>1. \A i \in 1..2 : (a \o b)[i] = src[i] /\ (a \o b)[2 + i] = src[2 + i]
      BY <1>3, <2>1
    <3>2. \A i \in 1..4 : i \in 1..2 \/ \E j \in 1..2 : i = 2 + j
      <4>1. 3 = 2 + 1 /\ 4 = 2 + 2
        OBVIOUS
      <4> QED BY <4>1
    <3> QED BY <3>1, <3>2
  <2> HIDE DEF a, b
  <2> QED BY <1>2, <2>1, <2>2, SeqEqual
<1> DEFINE places == TokenPlaces(src)
<1>6. IsFiniteSet(places)
  BY PlacesAreFinite DEF TokenPlaces
<1>7. Cardinality(TokenPlaces(a)) <= Cardinality(places)
  <2>1. TokenPlaces(a) \subseteq places
    <3>1. \A i \in 1..2 : i \in 1..4
      OBVIOUS
    <3> HIDE DEF a
    <3> QED BY <1>2, <1>3, <1>4, <3>1 DEF TokenPlaces
  <2> QED BY <1>6, <2>1, FS_Subset
<1>8. Cardinality(TokenPlaces(b)) <= Cardinality(places)
  <2> DEFINE f == [i \in TokenPlaces(b) |-> 2 + i]
  <2> HIDE DEF b
  <2>1. TokenPlaces(b) \subseteq 1..2
    BY <1>4 DEF TokenPlaces
  <2>2. \A i \in TokenPlaces(b) : 2 + i \in places
    <3>1. \A i \in 1..2 : 2 + i \in 1..4
      OBVIOUS
    <3> QED BY <1>2, <1>3, <1>4, <3>1 DEF TokenPlaces
  <2>3. \A i \in TokenPlaces(b), j \in TokenPlaces(b) : f[i] = f[j] => i = j
    <3>1. \A i \in 1..2, j \in 1..2 : 2 + i = 2 + j => i = j
      OBVIOUS
    <3> QED BY <2>1, <3>1
  <2>4. f \in Injection(TokenPlaces(b), places)
    <3>1. f \in [TokenPlaces(b) -> places]
      BY <2>2
    <3> HIDE DEF f
    <3> QED BY <2>3, <3>1 DEF Injection, IsInjective
  <2> QED BY <1>6, <2>4, FS_Injection
<1> QED BY <1>1, <1>3, <1>5, <1>7, <1>8

\* Two halves that have the formulas of theirs have together those of the whole.
LEMMA HalvesKeepTokens ==
  ASSUME NEW src \in Seq(Lines), Splittable(src), NEW s, NEW t, Solid(s), Solid(t),
         NEW o \in [Formulas -> Nat], NEW p \in [Formulas -> Nat], NEW q,
         \A x \in Formulas : q[x] = p[x] + o[x],
         KeepsTokens(s, Halves(src)[1], o), KeepsTokens(t, Halves(src)[2], p)
  PROVE  Solid(s \o t) /\ KeepsTokens(s \o t, src, q)
<1> DEFINE a == Halves(src)[1]
           b == Halves(src)[2]
<1>1. /\ a \in Seq(Lines) /\ b \in Seq(Lines) /\ a \o b = src
      /\ s \in Seq(Lines) /\ t \in Seq(Lines)
  BY HalvesAreTexts DEF Solid
<1>2. Solid(s \o t)
  <2>1. PICK i \in DOMAIN s : s[i] # "blank"
    BY DEF Solid
  <2>2. s \o t \in Seq(Lines) /\ i \in DOMAIN (s \o t) /\ (s \o t)[i] = s[i]
    BY <1>1
  <2> QED BY <2>1, <2>2 DEF Solid
<1> HIDE DEF a, b
<1>3. \A x : Count(s \o t, x) = Count(s, x) + Count(t, x)
  BY <1>1, CountsAdd
<1>4. \A x : Count(src, x) = Count(a, x) + Count(b, x)
  <2>1. \A x : Count(a \o b, x) = Count(a, x) + Count(b, x)
    BY <1>1, CountsAdd
  <2> QED BY <1>1, <2>1
<1>5. ASSUME NEW x \in Formulas PROVE Count(s \o t, x) = Count(src, x) + q[x]
  <2>1. Count(s, x) = Count(a, x) + o[x] /\ Count(t, x) = Count(b, x) + p[x]
    BY DEF KeepsTokens, a, b
  <2>2. Count(a, x) \in Nat /\ Count(b, x) \in Nat /\ o[x] \in Nat /\ p[x] \in Nat
    BY <1>1, CountIsANumber
  <2> QED BY <1>3, <1>4, <2>1, <2>2
<1>6. ASSUME NEW x \in Names PROVE Count(s \o t, x) = 0
  BY <1>3 DEF KeepsTokens
<1> QED BY <1>2, <1>5, <1>6 DEF KeepsTokens

\* A translation that is accepted is a text with the formulas of the part it is of.
LEMMA AcceptedKeepsTokens ==
  ASSUME TokensKept, NEW u \in Units, NEW raw \in Answers, Accepted(PartOf(u), raw)
  PROVE  /\ Solid(Translated(PartOf(u), raw))
         /\ KeepsTokens(Translated(PartOf(u), raw), PartOf(u),
                        [t \in Formulas |-> Count(Sanitize(raw), t)])
<1>1. PartOf(u) \in Seq(Lines) /\ Fits(PartOf(u))
  <2>1. Sources[u] \in Seq(Lines) /\ Fits(Sources[u])
    BY SourceIsAText
  <2>2. /\ Cardinality(TokenPlaces(Sources[u])) \in Nat
        /\ Len(MathNames) \in Nat /\ Len(TagNames) \in Nat
    BY <2>1, PlacesAreFinite, PlaceholdersAreTags, LenProperties DEF TokenPlaces
  <2>3. CASE stage[u] \in {"left", "leftRepair", "right", "rightRepair"}
    <3> DEFINE a == Halves(Sources[u])[1]
               b == Halves(Sources[u])[2]
    <3>1. /\ a \in Seq(Lines) /\ b \in Seq(Lines)
          /\ Cardinality(TokenPlaces(a)) <= Cardinality(TokenPlaces(Sources[u]))
          /\ Cardinality(TokenPlaces(b)) <= Cardinality(TokenPlaces(Sources[u]))
      BY <2>1, <2>3, HalvesAreTexts DEF TokensKept
    <3>2. Cardinality(TokenPlaces(a)) \in Nat /\ Cardinality(TokenPlaces(b)) \in Nat
      BY <3>1, PlacesAreFinite DEF TokenPlaces
    <3> HIDE DEF a, b
    <3>3. Fits(a) /\ Fits(b)
      BY <2>1, <2>2, <3>1, <3>2 DEF Fits
    <3>4. PartOf(u) = a \/ PartOf(u) = b
      BY <2>3 DEF PartOf, a, b
    <3> QED BY <3>1, <3>3, <3>4
  <2>4. CASE stage[u] \notin {"left", "leftRepair", "right", "rightRepair"}
    BY <2>1, <2>4 DEF PartOf
  <2> QED BY <2>3, <2>4
<1>2. Sanitize(raw) \in Seq(Lines)
  BY SanitizedIsAText
<1>3. Complete(PartOf(u), Sanitize(raw))
  BY DEF Accepted
<1> QED BY <1>1, <1>2, <1>3, RestoredHasTheTokens DEF Translated

-----------------------------------------------------------------------------
\* The document.

Prose == Lines \ {"rule"}

\* Some places of a text have a last one.
LEMMA LastIsThere ==
  ASSUME NEW n \in Nat, NEW S \in SUBSET (1..n), S # {}
  PROVE  \E k \in S : \A y \in S : k >= y
<1> DEFINE T == {n - k : k \in S}
<1>1. T \in SUBSET Nat /\ T # {}
  <2>1. \A k \in 1..n : n - k \in Nat
    OBVIOUS
  <2> QED BY <2>1
<1>2. PICK d \in T : \A e \in T : d <= e
  BY <1>1, LeastIsThere
<1>3. PICK k \in S : d = n - k
  OBVIOUS
<1>4. ASSUME NEW y \in S PROVE k >= y
  <2>1. n - y \in T
    <3>1. \E j \in S : n - y = n - j
      BY <1>4
    <3> QED BY <3>1
  <2>2. d <= n - y
    BY <1>2, <2>1
  <2> HIDE DEF T
  <2>3. k \in 1..n /\ y \in 1..n
    OBVIOUS
  <2> QED BY <1>3, <2>2, <2>3
<1> QED BY <1>4

\* A text that is not blank is not empty when it is put into the document, and it has no
\* rule.
LEMMA CleanIsProse ==
  ASSUME NEW s, Solid(s)
  PROVE  Clean(s) \in Seq(Prose) /\ Clean(s) # <<>>
<1> DEFINE c == [i \in DOMAIN s |-> IF s[i] = "rule" THEN "dash" ELSE s[i]]
           solid == {i \in DOMAIN c : c[i] # "blank"}
           a == CHOOSE i \in solid : \A j \in solid : i <= j
           b == CHOOSE i \in solid : \A j \in solid : i >= j
           n == Len(s)
<1>1. n \in Nat /\ DOMAIN s = 1..n /\ \A i \in DOMAIN s : s[i] \in Lines
  BY LenProperties DEF Solid
<1>2. DOMAIN c = 1..n /\ \A i \in 1..n : c[i] \in Prose
  BY <1>1 DEF Prose, Lines, Plain
<1>3. solid \in SUBSET (1..n) /\ solid # {}
  <2>1. PICK i \in DOMAIN s : s[i] # "blank"
    BY DEF Solid
  <2>2. i \in solid
    BY <2>1
  <2> QED BY <1>2, <2>2
<1> HIDE DEF c, solid
<1>4. solid \in SUBSET Nat
  BY <1>3
<1>5. a \in solid /\ \A j \in solid : a <= j
  BY <1>3, <1>4, LeastIsThere
<1>6. b \in solid /\ \A j \in solid : b >= j
  BY <1>1, <1>3, LastIsThere
<1>7. Trim(c) = SubSeq(c, a, b)
  BY <1>3 DEF Trim, solid
<1> HIDE DEF a, b, n
<1>8. a \in 1..n /\ b \in 1..n /\ a <= b
  BY <1>3, <1>5, <1>6
<1>9. \A i \in a..b : c[i] \in Prose
  <2>1. \A i \in a..b : i \in 1..n
    BY <1>1, <1>8
  <2> QED BY <1>2, <2>1
<1>10. a \in Int /\ b \in Int
  BY <1>8
<1>11. SubSeq(c, a, b) \in Seq(Prose) /\ Len(SubSeq(c, a, b)) = b - a + 1
  BY <1>8, <1>9, <1>10, SubSeqProperties
<1>12. b - a + 1 # 0
  BY <1>8, <1>10
<1>13. SubSeq(c, a, b) # <<>>
  BY <1>11, <1>12, EmptySeq
<1> QED BY <1>7, <1>11, <1>13 DEF Clean, c

-----------------------------------------------------------------------------
\* What is put together of several sequences, one after the other: the library's
\* definition is recursive, so that it has a value has to be shown.
Joins(f, parts) ==
  f = [i \in 1..Len(parts) |-> IF i = 1 THEN parts[i] ELSE f[i - 1] \o parts[i]]

\* There is a function that joins the parts.
LEMMA JoinExists ==
  ASSUME NEW S, NEW parts \in Seq(Seq(S)), parts # <<>>
  PROVE  \E f : Joins(f, parts)
<1> DEFINE n == Len(parts)
           Upto(f, k) == /\ f \in [1..k -> Seq(S)] /\ f[1] = parts[1]
                         /\ \A i \in 2..k : f[i] = f[i - 1] \o parts[i]
           Bad == {k \in 1..n : ~\E f : Upto(f, k)}
<1>1. n \in Nat /\ n >= 1 /\ \A i \in 1..n : parts[i] \in Seq(S)
  BY EmptySeq, LenProperties
<1> HIDE DEF n
<1>2. Bad = {}
  <2> SUFFICES ASSUME Bad # {} PROVE FALSE
    OBVIOUS
  <2>1. Bad \in SUBSET Nat
    <3>1. 1..n \subseteq Nat
      BY <1>1
    <3>2. Bad \subseteq 1..n
      BY Zenon
    <3> HIDE DEF Bad
    <3> QED BY <3>1, <3>2
  <2>2. PICK k \in Bad : \A y \in Bad : k <= y
    BY <2>1, LeastIsThere
  <2>3. k \in 1..n /\ ~\E f : Upto(f, k)
    OBVIOUS
  <2>4. CASE k = 1
    <3> DEFINE f == [i \in 1..1 |-> parts[1]]
    <3>1. parts[1] \in Seq(S)
      BY <1>1
    <3>2. f \in [1..1 -> Seq(S)] /\ f[1] = parts[1] /\ \A i \in 2..1 : FALSE
      BY <3>1
    <3>3. Upto(f, 1)
      BY <3>2
    <3> QED BY <2>3, <2>4, <3>3
  <2>5. CASE k # 1
    <3>1. k - 1 \in 1..n /\ ~(k <= k - 1) /\ k \in Nat
      BY <1>1, <2>3, <2>5
    <3>2. k - 1 \notin Bad
      BY <2>2, <3>1
    <3>3. PICK g : Upto(g, k - 1)
      BY <3>1, <3>2
    <3> DEFINE f == [i \in 1..k |-> IF i = k THEN g[k - 1] \o parts[k] ELSE g[i]]
    <3>4. k - 1 \in 1..(k - 1) /\ 1 \in 1..(k - 1) /\ 1 # k /\ k \in 1..n
      BY <2>3, <3>1
    <3>5. g[k - 1] \in Seq(S) /\ parts[k] \in Seq(S) /\ g[1] = parts[1]
      BY <1>1, <3>3, <3>4
    <3>6. g[k - 1] \o parts[k] \in Seq(S)
      BY <3>5, ConcatProperties
    <3>7. \A i \in 1..k : i # k => i \in 1..(k - 1)
      BY <3>1
    <3>8. f \in [1..k -> Seq(S)]
      <4>1. \A i \in 1..(k - 1) : g[i] \in Seq(S)
        BY <3>3
      <4> QED BY <3>6, <3>7, <4>1
    <3>9. f[1] = parts[1]
      <4>1. 1 \in 1..k
        BY <3>1
      <4> QED BY <3>4, <3>5, <4>1
    <3>10. ASSUME NEW i \in 2..k PROVE f[i] = f[i - 1] \o parts[i]
      <4>1. i \in 1..k /\ i - 1 \in 1..k /\ i - 1 # k
        BY <3>1
      <4>2. f[i - 1] = g[i - 1]
        BY <4>1
      <4>3. CASE i = k
        BY <4>1, <4>2, <4>3
      <4>4. CASE i # k
        <5>1. i \in 2..(k - 1)
          BY <3>1, <4>4
        <5>2. g[i] = g[i - 1] \o parts[i]
          BY <3>3, <5>1
        <5> QED BY <4>1, <4>2, <4>4, <5>2
      <4> QED BY <4>3, <4>4
    <3> HIDE DEF f
    <3>11. Upto(f, k)
      BY <3>8, <3>9, <3>10
    <3> QED BY <2>3, <3>11
  <2> QED BY <2>4, <2>5
<1>3. n \in 1..n
  BY <1>1
<1>4. PICK f : Upto(f, n)
  BY <1>2, <1>3, Zenon
<1>5. ASSUME NEW i \in 1..n
      PROVE  f[i] = IF i = 1 THEN parts[i] ELSE f[i - 1] \o parts[i]
  <2>1. i # 1 => i \in 2..n
    BY <1>1
  <2> QED BY <1>4, <2>1
<1>6. f = [i \in 1..n |-> IF i = 1 THEN parts[i] ELSE f[i - 1] \o parts[i]]
  BY <1>4, <1>5
<1> QED BY <1>6 DEF Joins, n

\* Parts put together, the first of which is not empty, are a sequence that is not empty.
LEMMA FlattenedIsThere ==
  ASSUME NEW S, NEW parts \in Seq(Seq(S)), parts # <<>>, parts[1] # <<>>
  PROVE  FlattenSeq(parts) \in Seq(S) /\ FlattenSeq(parts) # <<>>
<1> DEFINE n == Len(parts)
           Good == Seq(S) \ {<<>>}
           f == CHOOSE g : Joins(g, parts)
           Bad == {k \in 1..n : f[k] \notin Good}
<1>1. n \in Nat /\ n >= 1 /\ n # 0 /\ \A i \in 1..n : parts[i] \in Seq(S)
  BY EmptySeq, LenProperties
<1>2. Joins(f, parts)
  BY JoinExists
<1>3. FlattenSeq(parts) = f[n]
  BY <1>1, Zenon DEF FlattenSeq, Joins
<1> HIDE DEF f, n
<1>4. f = [i \in 1..n |-> IF i = 1 THEN parts[i] ELSE f[i - 1] \o parts[i]]
  BY <1>2 DEF Joins, n
<1>5. Bad = {}
  <2> SUFFICES ASSUME Bad # {} PROVE FALSE
    OBVIOUS
  <2>1. Bad \in SUBSET Nat
    OBVIOUS
  <2>2. PICK k \in Bad : \A y \in Bad : k <= y
    BY <2>1, LeastIsThere
  <2>3. k \in 1..n /\ f[k] \notin Good
    OBVIOUS
  <2>4. CASE k = 1
    BY <1>1, <1>4, <2>3, <2>4
  <2>5. CASE k # 1
    <3>1. k - 1 \in 1..n /\ ~(k <= k - 1)
      BY <1>1, <2>3, <2>5
    <3>2. f[k - 1] \in Good
      BY <2>2, <3>1
    <3>3. f[k] = f[k - 1] \o parts[k] /\ parts[k] \in Seq(S)
      BY <1>1, <1>4, <2>3, <2>5
    <3>4. f[k - 1] \o parts[k] \in Seq(S) /\ f[k - 1] \o parts[k] # <<>>
      BY <3>2, <3>3, ConcatProperties, ConcatSimplifications
    <3> QED BY <2>3, <3>3, <3>4
  <2> QED BY <2>4, <2>5
<1>6. n \in 1..n
  BY <1>1
<1> QED BY <1>3, <1>5, <1>6

\* Three lines of a text that follow each other.
LEMMA ThreeLines ==
  ASSUME NEW S, NEW s \in Seq(S), NEW i \in Nat, i # 0, i + 2 <= Len(s)
  PROVE  SubSeq(s, i, i + 2) = <<s[i], s[i + 1], s[i + 2]>>
<1> DEFINE q == SubSeq(s, i, i + 2)
           t == <<s[i], s[i + 1], s[i + 2]>>
<1>1. Len(s) \in Nat
  OBVIOUS
<1>2. \A j \in i..(i + 2) : s[j] \in S
  <2>1. \A j \in i..(i + 2) : j \in 1..Len(s)
    BY <1>1
  <2> QED BY <2>1, ElementOfSeq
<1>3. i \in Int /\ i + 2 \in Int /\ i <= i + 2 /\ (i + 2) - i + 1 = 3
  OBVIOUS
<1>4. q \in Seq(S) /\ Len(q) = 3 /\ \A j \in 1..3 : q[j] = s[i + j - 1]
  BY <1>2, <1>3, SubSeqProperties
<1>5. i \in i..(i + 2) /\ i + 1 \in i..(i + 2) /\ i + 2 \in i..(i + 2)
  OBVIOUS
<1>6. t \in Seq(S) /\ Len(t) = 3 /\ t[1] = s[i] /\ t[2] = s[i + 1] /\ t[3] = s[i + 2]
  BY <1>2, <1>5
<1> HIDE DEF q, t
<1>7. q[1] = s[i] /\ q[2] = s[i + 1] /\ q[3] = s[i + 2]
  <2>1. 1 \in 1..3 /\ 2 \in 1..3 /\ 3 \in 1..3
    OBVIOUS
  <2>2. i + 1 - 1 = i /\ i + 2 - 1 = i + 1 /\ i + 3 - 1 = i + 2
    OBVIOUS
  <2> QED BY <1>4, <2>1, <2>2
<1>8. \A j \in 1..3 : j = 1 \/ j = 2 \/ j = 3
  OBVIOUS
<1>9. q = t
  BY <1>4, <1>6, <1>7, <1>8, SeqEqual
<1> QED BY <1>9 DEF q, t

\* What is assembled from texts that are not empty and have no rule has one page break, that
\* before the second page.
LEMMA ResultHasOneBreak ==
  ASSUME NEW n \in Nat \ {0}, NEW texts \in [1..n -> Seq(Prose)],
         \A u \in 1..n : texts[u] # <<>>
  PROVE  Cardinality(Breaks(Result(texts))) = 1
<1> DEFINE k == 2 * n - 1
           part(i) == IF i % 2 = 1 THEN texts[(i + 1) \div 2] ELSE <<"blank">>
           parts == [i \in 1..k |-> part(i)]
           page == Page(texts)
           lines == Result(texts)
           p == Len(page)
<1>1. Len(texts) = n
  OBVIOUS
<1>2. k \in Nat /\ k # 0 /\ 1 \in 1..k
  OBVIOUS
<1>3. "blank" \in Prose /\ "rule" \notin Prose /\ "fc" \in Prose
  BY DEF Prose, Lines, Plain, Tokens, Formulas
<1>4. \A i \in 1..k : part(i) \in Seq(Prose)
  <2>1. <<"blank">> \in Seq(Prose)
    BY <1>3
  <2>2. \A i \in 1..k : (i + 1) \div 2 \in 1..n
    OBVIOUS
  <2>3. \A i \in 1..n : texts[i] \in Seq(Prose)
    OBVIOUS
  <2> QED BY <2>1, <2>2, <2>3
<1>5. part(1) = texts[1] /\ part(1) # <<>>
  <2>1. 1 % 2 = 1 /\ (1 + 1) \div 2 = 1 /\ 1 \in 1..n
    OBVIOUS
  <2> QED BY <2>1
<1>6. page = FlattenSeq(parts)
  BY <1>1 DEF Page
<1> HIDE DEF part, k
<1>7. parts \in Seq(Seq(Prose)) /\ Len(parts) = k
  BY <1>2, <1>4, IsASeq
<1>8. parts # <<>> /\ parts[1] # <<>>
  <2>1. parts[1] = part(1)
    BY <1>2
  <2> QED BY <1>2, <1>5, <1>7, <2>1, EmptySeq
<1>9. page \in Seq(Prose) /\ page # <<>>
  BY <1>6, <1>7, <1>8, FlattenedIsThere
<1> HIDE DEF page, parts
<1>10. p \in Nat /\ p # 0 /\ DOMAIN page = 1..p /\ \A i \in 1..p : page[i] \in Prose
  BY <1>9, EmptySeq, LenProperties, ElementOfSeq
<1>11. lines = page \o <<"blank", "rule", "blank">> \o <<"fc">>
  BY DEF Result, Separator, page
<1> DEFINE AnyLine == Prose \cup {"rule"}
<1>12. /\ lines \in Seq(AnyLine) /\ Len(lines) = p + 4
       /\ \A i \in 1..p : lines[i] = page[i]
       /\ lines[p + 1] = "blank" /\ lines[p + 2] = "rule" /\ lines[p + 3] = "blank"
       /\ lines[p + 4] = "fc"
  <2>1. page \in Seq(AnyLine)
    BY <1>9
  <2>2. <<"blank", "rule", "blank">> \in Seq(AnyLine) /\ <<"fc">> \in Seq(AnyLine)
    BY <1>3
  <2> HIDE DEF AnyLine
  <2> DEFINE q == page \o <<"blank", "rule", "blank">>
  <2>3. /\ q \in Seq(AnyLine) /\ Len(q) = p + 3
        /\ \A i \in 1..p : q[i] = page[i]
        /\ q[p + 1] = "blank" /\ q[p + 2] = "rule" /\ q[p + 3] = "blank"
    BY <1>10, <2>1, <2>2
  <2> HIDE DEF q
  <2>4. lines = q \o <<"fc">>
    BY <1>11 DEF q
  <2> HIDE DEF lines
  <2>5. /\ lines \in Seq(AnyLine) /\ Len(lines) = p + 4
        /\ \A i \in 1..(p + 3) : lines[i] = q[i]
        /\ lines[p + 4] = "fc"
    BY <1>10, <2>2, <2>3, <2>4
  <2>6. /\ \A i \in 1..p : i \in 1..(p + 3)
        /\ p + 1 \in 1..(p + 3) /\ p + 2 \in 1..(p + 3) /\ p + 3 \in 1..(p + 3)
    BY <1>10
  <2> QED BY <2>3, <2>5, <2>6
<1> HIDE DEF lines, p
<1>13. \A i \in 1..(p + 4) : lines[i] = "rule" => i = p + 2
  <2>1. \A i \in 1..(p + 4) : i \in 1..p \/ i \in {p + 1, p + 2, p + 3, p + 4}
    BY <1>10
  <2> QED BY <1>3, <1>10, <1>12, <2>1
<1>14. Breaks(lines) = {i \in 2..(p + 1) : SubSeq(lines, i, i + 2) = Separator}
  <2>1. Len(lines) - 3 = p + 1
    BY <1>10, <1>12
  <2> QED BY <2>1 DEF Breaks
<1>15. \A i \in 2..(p + 1) : SubSeq(lines, i, i + 2) = <<lines[i], lines[i + 1], lines[i + 2]>>
  <2>1. \A i \in 2..(p + 1) : i \in Nat /\ i # 0 /\ i + 2 <= p + 4
    BY <1>10
  <2> QED BY <1>12, <2>1, ThreeLines
<1>16. \A i \in Breaks(lines) : i = p + 1
  <2> SUFFICES ASSUME NEW i \in Breaks(lines) PROVE i = p + 1
    OBVIOUS
  <2>1. i \in 2..(p + 1) /\ <<lines[i], lines[i + 1], lines[i + 2]>> = Separator
    BY <1>14, <1>15
  <2>2. lines[i + 1] = "rule" /\ i + 1 \in 1..(p + 4)
    BY <1>10, <2>1 DEF Separator
  <2>3. i + 1 = p + 2
    BY <1>13, <2>2
  <2> QED BY <1>10, <2>1, <2>3
<1>17. p + 1 \in Breaks(lines)
  <2>1. p + 1 \in 2..(p + 1) /\ (p + 1) + 1 = p + 2 /\ (p + 1) + 2 = p + 3
    BY <1>10
  <2>2. SubSeq(lines, p + 1, (p + 1) + 2) = <<lines[p + 1], lines[p + 2], lines[p + 3]>>
    BY <1>15, <2>1
  <2> QED BY <1>12, <1>14, <2>1, <2>2 DEF Separator
<1>18. Breaks(lines) = {p + 1}
  BY <1>16, <1>17
<1>19. Cardinality(Breaks(lines)) = 1
  BY <1>18, FS_Singleton
<1> QED BY <1>19 DEF lines

-----------------------------------------------------------------------------
\* What a step may make of a unit's place, text and first half, and of what is known of the
\* formulas the model wrote.
GoodMove(u, o, s, l, w) ==
  /\ o \in Ladder \cup Outcomes /\ s \in Seq(Lines) /\ l \in Seq(Lines)
  /\ o \in {"left", "leftRepair", "right", "rightRepair"} => Splittable(Sources[u])
  /\ w \in [Formulas -> Nat]
  /\ o \in {"right", "rightRepair"} => Solid(l) /\ KeepsTokens(l, Halves(Sources[u])[1], w)
  /\ o = "translated" => KeepsTokens(s, Sources[u], w)
  /\ o \in Outcomes \ {"raised"} => Solid(s)

Moves(u, o, s, l, w) == /\ stage' = [stage EXCEPT ![u] = o]
                        /\ text' = [text EXCEPT ![u] = s]
                        /\ left' = [left EXCEPT ![u] = l]
                        /\ own' = [own EXCEPT ![u] = w]

\* A unit that is moved so keeps the invariant.
LEMMA MoveKeeps ==
  ASSUME TextInv, NEW u \in Units, NEW o, NEW s, NEW l, NEW w, GoodMove(u, o, s, l, w),
         Moves(u, o, s, l, w), UNCHANGED <<cache, verdict>>
  PROVE  TextInv'
<1> USE DEF TextInv, TextsTyped
<1>1. /\ stage' \in [Units -> Ladder \cup Outcomes]
      /\ text' \in [Units -> Seq(Lines)] /\ left' \in [Units -> Seq(Lines)]
      /\ own' \in [Units -> [Formulas -> Nat]]
  BY DEF GoodMove, Moves
<1>2. \A v \in Units : \/ /\ v = u /\ stage'[v] = o /\ text'[v] = s /\ left'[v] = l
                          /\ own'[v] = w
                       \/ /\ v # u /\ stage'[v] = stage[v] /\ text'[v] = text[v]
                          /\ left'[v] = left[v] /\ own'[v] = own[v]
  BY DEF Moves
<1>3. TokensKept'
  <2> SUFFICES ASSUME NEW v \in Units
      PROVE  /\ stage'[v] \in {"left", "leftRepair", "right", "rightRepair"} =>
                  Splittable(Sources[v])
             /\ stage'[v] \in {"right", "rightRepair"} =>
                  Solid(left'[v]) /\ KeepsTokens(left'[v], Halves(Sources[v])[1], own'[v])
             /\ stage'[v] = "translated" => KeepsTokens(text'[v], Sources[v], own'[v])
    BY DEF TokensKept
  <2>1. CASE v = u
    BY <1>2, <2>1 DEF GoodMove
  <2>2. CASE v # u
    BY <1>2, <2>2 DEF TokensKept
  <2> QED BY <2>1, <2>2
<1>4. TextsSolid'
  <2>1. \A v \in Units : stage'[v] \in Outcomes \ {"raised"} => Solid(text'[v])
    BY <1>2 DEF GoodMove, TextsSolid
  <2> QED BY <2>1 DEF TextsSolid
<1> QED BY <1>1, <1>3, <1>4 DEF PagesSurvive

\* Asking for another text is such a move: the unit's text stays.
LEMMA AsksMoves ==
  ASSUME TextInv, NEW u \in Units, NEW to, Asks(u, to), UNCHANGED <<left, own>>
  PROVE  Moves(u, to, text[u], left[u], own[u])
<1>1. /\ text \in [Units -> Seq(Lines)] /\ left \in [Units -> Seq(Lines)]
      /\ own \in [Units -> [Formulas -> Nat]]
  BY DEF TextInv, TextsTyped
<1> QED BY <1>1 DEF Asks, Moves

\* An outcome is one, too.
LEMMA EndsMoves ==
  ASSUME TextInv, NEW u \in Units, NEW o, NEW s, Ends(u, o, s), UNCHANGED <<left, own>>
  PROVE  Moves(u, o, s, left[u], own[u])
<1>1. left \in [Units -> Seq(Lines)] /\ own \in [Units -> [Formulas -> Nat]]
  BY DEF TextInv, TextsTyped
<1> QED BY <1>1 DEF Ends, Moves

\* Another call may be made without a new half when the half it needs is there.
LEMMA AskIsGood ==
  ASSUME TextInv, NEW u \in Units, NEW to \in Ladder,
         to \in {"left", "leftRepair", "right", "rightRepair"} => Splittable(Sources[u]),
         to \in {"right", "rightRepair"} => stage[u] \in {"right", "rightRepair"}
  PROVE  GoodMove(u, to, text[u], left[u], own[u])
<1>1. text[u] \in Seq(Lines) /\ left[u] \in Seq(Lines) /\ own[u] \in [Formulas -> Nat]
  BY DEF TextInv, TextsTyped
<1>2. to \notin Outcomes
  BY DEF Ladder, Outcomes
<1>3. to \in {"right", "rightRepair"} =>
        Solid(left[u]) /\ KeepsTokens(left[u], Halves(Sources[u])[1], own[u])
  BY DEF TextInv, TokensKept
<1>4. to # "translated"
  BY <1>2 DEF Outcomes
<1> QED BY <1>1, <1>2, <1>3, <1>4 DEF GoodMove

\* A unit may end with a text that is not blank and, if it counts as translated, has its
\* formulas.
LEMMA EndIsGood ==
  ASSUME TextInv, NEW u \in Units, NEW o \in Outcomes, NEW s \in Seq(Lines),
         NEW w \in [Formulas -> Nat],
         o # "raised" => Solid(s), o = "translated" => KeepsTokens(s, Sources[u], w)
  PROVE  GoodMove(u, o, s, left[u], w)
<1>1. left[u] \in Seq(Lines)
  BY DEF TextInv, TextsTyped
<1>2. o \notin {"left", "leftRepair", "right", "rightRepair"}
  BY DEF Outcomes
<1> QED BY <1>1, <1>2 DEF GoodMove

\* The original is kept, or its halves are asked for.
LEMMA PartsKeep ==
  ASSUME TextInv, NEW u \in Units, Parts(u), UNCHANGED <<left, own, cache, verdict>>
  PROVE  TextInv'
<1>1. CASE Splittable(Sources[u])
  <2>1. Moves(u, "left", text[u], left[u], own[u])
    BY <1>1, AsksMoves, Zenon DEF Parts
  <2>2. GoodMove(u, "left", text[u], left[u], own[u])
    <3>1. "left" \in Ladder /\ "left" \notin {"right", "rightRepair"}
      BY DEF Ladder
    <3> QED BY <1>1, <3>1, AskIsGood
  <2> QED BY <2>1, <2>2, MoveKeeps
<1>2. CASE ~Splittable(Sources[u])
  <2>1. Moves(u, "kept", Sources[u], left[u], own[u])
    BY <1>2, EndsMoves, Zenon DEF Parts
  <2>2. GoodMove(u, "kept", Sources[u], left[u], own[u])
    <3>1. "kept" \in Outcomes /\ "kept" # "translated"
      BY DEF Outcomes
    <3>2. own[u] \in [Formulas -> Nat]
      BY DEF TextInv, TextsTyped
    <3> QED BY <3>1, <3>2, SourceIsAText, EndIsGood
  <2> QED BY <2>1, <2>2, MoveKeeps
<1> QED BY <1>1, <1>2

\* The source in the place of a translation.
LEMMA KeptKeeps ==
  ASSUME TextInv, NEW u \in Units, Ends(u, "kept", Sources[u]), UNCHANGED <<left, own, cache, verdict>>
  PROVE  TextInv'
<1>1. Moves(u, "kept", Sources[u], left[u], own[u])
  BY EndsMoves
<1>2. GoodMove(u, "kept", Sources[u], left[u], own[u])
  <2>1. "kept" \in Outcomes /\ "kept" # "translated"
    BY DEF Outcomes
  <2>2. own[u] \in [Formulas -> Nat]
    BY DEF TextInv, TextsTyped
  <2> QED BY <2>1, <2>2, SourceIsAText, EndIsGood
<1> QED BY <1>1, <1>2, MoveKeeps

\* The cache has texts that may be put in; otherwise the first call is made.
LEMMA BeginKeeps ==
  ASSUME TextInv, NEW u \in Units, Begin(u)
  PROVE  TextInv'
<1>1. UNCHANGED <<left, own, cache, verdict>>
  BY DEF Begin, UnitFrame
<1>2. ASSUME NEW e \in cache, Ends(u, "cached", e.text) PROVE TextInv'
  <2>1. Moves(u, "cached", e.text, left[u], own[u])
    BY <1>1, <1>2, EndsMoves
  <2>2. Solid(e.text) /\ e.text \in Seq(Lines)
    BY DEF TextInv, TextsSolid, Solid
  <2>3. "cached" \in Outcomes /\ "cached" # "translated"
    BY DEF Outcomes
  <2>4. GoodMove(u, "cached", e.text, left[u], own[u])
    <3>1. own[u] \in [Formulas -> Nat]
      BY DEF TextInv, TextsTyped
    <3> QED BY <2>2, <2>3, <3>1, EndIsGood
  <2> QED BY <1>1, <2>1, <2>4, MoveKeeps
<1>3. CASE Asks(u, "first")
  <2>1. Moves(u, "first", text[u], left[u], own[u])
    BY <1>1, <1>3, AsksMoves
  <2>2. "first" \in Ladder /\ "first" \notin {"left", "leftRepair", "right", "rightRepair"}
    BY DEF Ladder
  <2>3. GoodMove(u, "first", text[u], left[u], own[u])
    BY <2>2, AskIsGood
  <2> QED BY <1>1, <2>1, <2>3, MoveKeeps
<1>4. (\E e \in cache : Ends(u, "cached", e.text)) \/ Asks(u, "first")
  BY Zenon DEF Begin
<1> QED BY <1>2, <1>3, <1>4

\* A translation that is accepted has its formulas; two halves together have them as well.
LEMMA SucceedsKeeps ==
  ASSUME TextInv, NEW u \in Units, NEW s, NEW c \in Seq(Lines), Solid(s),
         KeepsTokens(s, PartOf(u), [t \in Formulas |-> Count(c, t)]),
         Succeeds(u, s), Wrote(u, c), UNCHANGED <<cache, verdict>>
  PROVE  TextInv'
<1> DEFINE o == [t \in Formulas |-> Count(c, t)]
           second == stage[u] \in {"right", "rightRepair"}
           w == [t \in Formulas |-> Count(c, t) + IF second THEN own[u][t] ELSE 0]
<1>1. s \in Seq(Lines) /\ Sources[u] \in Seq(Lines)
  BY SourceIsAText DEF Solid
<1>2. own' = [own EXCEPT ![u] = w]
  BY DEF Wrote
<1>3. /\ text \in [Units -> Seq(Lines)] /\ left \in [Units -> Seq(Lines)]
      /\ own[u] \in [Formulas -> Nat]
  BY DEF TextInv, TextsTyped
<1>4. o \in [Formulas -> Nat] /\ w \in [Formulas -> Nat]
  <2>1. \A t \in Formulas : Count(c, t) \in Nat
    BY CountIsANumber
  <2> QED BY <1>3, <2>1
<1>5. KeepsTokens(s, PartOf(u), o)
  OBVIOUS
<1>6. ~second => w = o
  <2>1. \A t \in Formulas : Count(c, t) \in Nat
    BY CountIsANumber
  <2> QED BY <2>1
<1>7. second => \A t \in Formulas : w[t] = o[t] + own[u][t]
  OBVIOUS
<1> HIDE DEF o, w, second
<1>8. CASE stage[u] \in {"first", "repair"} /\ Ends(u, "translated", s) /\ UNCHANGED left
  <2>1. PartOf(u) = Sources[u] /\ w = o
    BY <1>6, <1>8 DEF PartOf, second
  <2>2. Moves(u, "translated", s, left[u], w)
    BY <1>2, <1>3, <1>8 DEF Ends, Moves
  <2>3. "translated" \in Outcomes
    BY DEF Outcomes
  <2>4. KeepsTokens(s, Sources[u], w)
    BY <1>5, <2>1
  <2>5. GoodMove(u, "translated", s, left[u], w)
    BY <1>1, <1>4, <2>3, <2>4, EndIsGood
  <2> QED BY <2>2, <2>5, MoveKeeps
<1>9. CASE /\ stage[u] \in {"left", "leftRepair"}
           /\ left' = [left EXCEPT ![u] = s] /\ Asks(u, "right")
  <2>1. Splittable(Sources[u]) /\ PartOf(u) = Halves(Sources[u])[1] /\ w = o
    BY <1>6, <1>9 DEF PartOf, TextInv, TokensKept, second
  <2>2. Moves(u, "right", text[u], s, w)
    BY <1>2, <1>3, <1>9 DEF Moves, Asks
  <2>3. "right" \in Ladder /\ "right" \notin Outcomes
    BY DEF Ladder, Outcomes
  <2>4. GoodMove(u, "right", text[u], s, w)
    <3>1. "right" # "translated" /\ text[u] \in Seq(Lines)
      BY <1>3
    <3>2. KeepsTokens(s, Halves(Sources[u])[1], w)
      BY <1>5, <2>1
    <3> QED BY <1>1, <1>4, <2>1, <2>3, <3>1, <3>2 DEF GoodMove
  <2> QED BY <2>2, <2>4, MoveKeeps
<1>10. CASE /\ stage[u] \in {"right", "rightRepair"}
            /\ Ends(u, "translated", left[u] \o s) /\ UNCHANGED left
  <2>1. /\ Splittable(Sources[u]) /\ PartOf(u) = Halves(Sources[u])[2]
        /\ Solid(left[u]) /\ KeepsTokens(left[u], Halves(Sources[u])[1], own[u])
    BY <1>10 DEF PartOf, TextInv, TokensKept
  <2>2. \A t \in Formulas : w[t] = o[t] + own[u][t]
    BY <1>7, <1>10 DEF second
  <2>3. KeepsTokens(s, Halves(Sources[u])[2], o)
    BY <1>5, <2>1
  <2>4. Solid(left[u] \o s) /\ KeepsTokens(left[u] \o s, Sources[u], w)
    BY <1>1, <1>3, <1>4, <2>1, <2>2, <2>3, HalvesKeepTokens
  <2>5. left[u] \o s \in Seq(Lines)
    BY <2>4 DEF Solid
  <2>6. Moves(u, "translated", left[u] \o s, left[u], w)
    BY <1>2, <1>3, <1>10 DEF Ends, Moves
  <2>7. "translated" \in Outcomes
    BY DEF Outcomes
  <2>8. GoodMove(u, "translated", left[u] \o s, left[u], w)
    BY <1>4, <2>4, <2>5, <2>7, EndIsGood
  <2> QED BY <2>6, <2>8, MoveKeeps
<1> QED BY <1>8, <1>9, <1>10, Zenon DEF Succeeds

\* A translation that is not accepted is asked for once more, in halves, or given up.
LEMMA FailsKeeps ==
  ASSUME TextInv, NEW u \in Units, Fails(u), UNCHANGED <<cache, verdict>>
  PROVE  TextInv'
<1>1. UNCHANGED <<left, own>>
  BY DEF Fails
<1>2. ASSUME NEW to \in {"repair", "leftRepair", "rightRepair"}, Asks(u, to),
             to = "leftRepair" => stage[u] = "left",
             to = "rightRepair" => stage[u] = "right"
      PROVE  TextInv'
  <2>1. Moves(u, to, text[u], left[u], own[u])
    BY <1>1, <1>2, AsksMoves
  <2>2. to \in Ladder
    BY DEF Ladder
  <2>3. to \in {"left", "leftRepair", "right", "rightRepair"} => Splittable(Sources[u])
    BY <1>2 DEF TextInv, TokensKept
  <2>4. to \in {"right", "rightRepair"} => stage[u] \in {"right", "rightRepair"}
    BY <1>2
  <2>5. GoodMove(u, to, text[u], left[u], own[u])
    BY <2>2, <2>3, <2>4, AskIsGood
  <2> QED BY <2>1, <2>5, MoveKeeps
<1>3. \/ Asks(u, "repair") \/ Parts(u) \/ Ends(u, "kept", Sources[u])
      \/ stage[u] = "left" /\ Asks(u, "leftRepair")
      \/ stage[u] = "right" /\ Asks(u, "rightRepair")
  BY Zenon DEF Fails
<1>4. CASE Asks(u, "repair")
  BY <1>2, <1>4
<1>5. CASE stage[u] = "left" /\ Asks(u, "leftRepair")
  BY <1>2, <1>5
<1>6. CASE stage[u] = "right" /\ Asks(u, "rightRepair")
  BY <1>2, <1>6
<1> QED BY <1>1, <1>3, <1>4, <1>5, <1>6, PartsKeep, KeptKeeps

\* A unit's step.
LEMMA UnitStepKeeps ==
  ASSUME TextInv, NEW u \in Units, UnitStep(u)
  PROVE  TextInv'
<1>1. UNCHANGED <<cache, verdict>>
  BY Zenon DEF UnitStep, Begin, Judge, Errs, UnitFrame
<1>2. CASE Judge(u)
  <2>1. PICK raw \in Answers :
           IF Accepted(PartOf(u), raw)
           THEN Succeeds(u, Translated(PartOf(u), raw)) /\ Wrote(u, Sanitize(raw))
           ELSE Fails(u)
    BY <1>2, Zenon DEF Judge
  <2>2. CASE Accepted(PartOf(u), raw)
    <3>1. /\ Solid(Translated(PartOf(u), raw))
          /\ KeepsTokens(Translated(PartOf(u), raw), PartOf(u),
                         [t \in Formulas |-> Count(Sanitize(raw), t)])
      BY <2>2, AcceptedKeepsTokens DEF TextInv
    <3>2. Succeeds(u, Translated(PartOf(u), raw)) /\ Wrote(u, Sanitize(raw))
      BY <2>1, <2>2
    <3>3. Sanitize(raw) \in Seq(Lines)
      BY SanitizedIsAText
    <3> QED BY <1>1, <3>1, <3>2, <3>3, SucceedsKeeps
  <2>3. CASE ~Accepted(PartOf(u), raw)
    <3>1. Fails(u)
      BY <2>1, <2>3
    <3> QED BY <1>1, <3>1, FailsKeeps
  <2> QED BY <2>2, <2>3
<1>3. CASE Errs(u)
  <2>1. UNCHANGED <<left, own>>
    BY <1>3 DEF Errs
  <2>2. CASE Ends(u, "raised", <<>>)
    <3>1. Moves(u, "raised", <<>>, left[u], own[u])
      BY <2>1, <2>2, EndsMoves
    <3>2. "raised" \in Outcomes /\ "raised" # "translated" /\ <<>> \in Seq(Lines)
      BY DEF Outcomes
    <3>3. GoodMove(u, "raised", <<>>, left[u], own[u])
      <4>1. own[u] \in [Formulas -> Nat]
        BY DEF TextInv, TextsTyped
      <4> QED BY <3>2, <4>1, EndIsGood
    <3> QED BY <1>1, <3>1, <3>3, MoveKeeps
  <2>3. Ends(u, "raised", <<>>) \/ Parts(u) \/ Ends(u, "kept", Sources[u])
    BY <1>3, Zenon DEF Errs
  <2> QED BY <1>1, <2>1, <2>2, <2>3, PartsKeep, KeptKeeps
<1> QED BY <1>2, <1>3, BeginKeeps, Zenon DEF UnitStep

-----------------------------------------------------------------------------
\* A client that was just made, and a cache of units.
LEMMA TextInit == Init => TextInv
<1> SUFFICES ASSUME Init PROVE TextInv
  OBVIOUS
<1>1. <<>> \in Seq(Lines) /\ "begin" \in Ladder /\ "begin" \notin Outcomes
  BY DEF Ladder, Outcomes
<1>2. TextsTyped
  BY <1>1 DEF Init, TextsTyped
<1>3. TokensKept
  BY DEF Init, TokensKept
<1>4. TextsSolid
  <2>1. \A e \in cache : \E u \in Units : e = [key |-> Key(Sources[u]), text |-> Sources[u]]
    BY DEF Init
  <2>2. \A e \in cache : Solid(e.text)
    BY <2>1, SourceIsAText
  <2> QED BY <1>1, <2>2 DEF Init, TextsSolid
<1>5. PagesSurvive
  BY DEF Init, PagesSurvive
<1> QED BY <1>2, <1>3, <1>4, <1>5 DEF TextInv

\* A translation is put into the cache: it is not blank.
LEMMA CollectKeeps ==
  ASSUME TextInv, NEW u \in Units, Collect(u)
  PROVE  TextInv'
<1>1. /\ stage[u] = "translated" /\ UNCHANGED <<stage, text, left, own, verdict>>
      /\ cache' = {e \in cache : e.key # Key(Sources[u])}
                    \cup {[key |-> Key(Sources[u]), text |-> text[u]]}
  BY DEF Collect, MainFrame
<1>2. Solid(text[u])
  BY <1>1 DEF TextInv, TextsSolid, Outcomes
<1>3. \A e \in cache' : Solid(e.text)
  BY <1>1, <1>2 DEF TextInv, TextsSolid
<1> QED BY <1>1, <1>3 DEF TextInv, TextsTyped, TokensKept, TextsSolid, PagesSurvive

\* The document is put together: its pages are those of the original.
LEMMA AssembleKeeps ==
  ASSUME TextInv, Assemble
  PROVE  TextInv'
<1>1. UNCHANGED <<stage, text, left, own, cache>>
  BY DEF Assemble, MainFrame
<1>2. verdict' # "mismatch"
  <2> DEFINE texts == [u \in Units |-> Placed(u)]
  <2>1. CASE \E u \in Units : stage[u] = "raised"
    BY <2>1 DEF Assemble
  <2>2. CASE \A u \in Units : stage[u] # "raised"
    <3>1. \A u \in Units : Placed(u) \in Seq(Prose) /\ Placed(u) # <<>>
      <4> SUFFICES ASSUME NEW u \in Units PROVE Placed(u) \in Seq(Prose) /\ Placed(u) # <<>>
        OBVIOUS
      <4>1. Solid(text[u])
        BY <2>2 DEF TextInv, TextsSolid, Assemble
      <4>2. Clean(text[u]) \in Seq(Prose) /\ Clean(text[u]) # <<>>
        BY <4>1, CleanIsProse
      <4>3. Sources[u] \in Seq(Prose) /\ Sources[u] # <<>>
        <5>1. /\ Sources[u] \in Seq(Lines) /\ Solid(Sources[u])
              /\ \A i \in DOMAIN Sources[u] : Sources[u][i] \in Tokens \cup {"word", "blank"}
          BY SourceIsAText
        <5>2. Tokens \cup {"word", "blank"} \subseteq Prose
          BY PlaceholdersAreTags DEF Prose, Lines, Plain, Tokens, Formulas
        <5>3. Sources[u] \in Seq(Prose)
          <6>1. /\ Len(Sources[u]) \in Nat
                /\ Sources[u] = [i \in 1..Len(Sources[u]) |-> Sources[u][i]]
                /\ \A i \in 1..Len(Sources[u]) : Sources[u][i] \in Prose
            BY <5>1, <5>2, LenProperties
          <6> QED BY <6>1, IsASeq
        <5>4. Sources[u] # <<>>
          BY <5>1 DEF Solid
        <5> QED BY <5>3, <5>4
      <4> QED BY <4>2, <4>3 DEF Placed
    <3>2. Units = 1..Len(Sources) /\ Len(Sources) \in Nat \ {0}
      BY SourcesAreUnits, LenProperties, EmptySeq DEF Units
    <3>3. texts \in [1..Len(Sources) -> Seq(Prose)] /\ \A u \in 1..Len(Sources) : texts[u] # <<>>
      BY <3>1, <3>2
    <3>4. Cardinality(Breaks(Result(texts))) = 1
      <4> HIDE DEF texts
      <4> QED BY <3>2, <3>3, ResultHasOneBreak
    <3> QED BY <2>2, <3>4, Zenon DEF Assemble
  <2> QED BY <2>1, <2>2
<1> QED BY <1>1, <1>2 DEF TextInv, TextsTyped, TokensKept, TextsSolid, PagesSurvive

\* No step of a thread loses a formula or breaks a page.
LEMMA TextStep == TextInv /\ [Next]_vars => TextInv'
<1> SUFFICES ASSUME TextInv, [Next]_vars PROVE TextInv'
  OBVIOUS
<1>1. CASE UNCHANGED <<stage, text, left, own, cache, verdict>>
  BY <1>1 DEF TextInv, TextsTyped, TokensKept, TextsSolid, PagesSurvive
<1>2. ASSUME NEW u \in Units, ClientStep(u) PROVE TextInv'
  <2>1. ClientFrame
    BY <1>2, Zenon DEF ClientStep, Pick, Send, FallBack, Receive
  <2> QED BY <1>1, <2>1, Zenon DEF ClientFrame
<1>3. CASE UNCHANGED vars
  BY <1>1, <1>3, Zenon DEF vars
<1> QED BY <1>2, <1>3, UnitStepKeeps, CollectKeeps, AssembleKeeps, Zenon DEF Next

\* The texts are right in every state of a translation.
THEOREM TextsAreRight == Spec => []TextInv
BY TextInit, TextStep, PTL DEF Spec

\* For any texts, tags that look like placeholders among them, and any number of threads,
\* whatever the model answers and however often it has to be asked: a unit that counts as
\* translated has each formula as often as the original, and once more for each time the
\* model wrote it itself, and no placeholder (masking.py:73-93, engine.py:244-362).
THEOREM TokensAreKept == Spec => []TokensSurvive
<1>1. TextInv => TokensSurvive
  BY DEF TextInv, TokensKept, KeepsTokens, TokensSurvive
<1> QED BY <1>1, TextsAreRight, PTL

\* The document has the pages of the original, whatever stands in its units: the ValueError
\* of assemble_markdown is never raised (segment.py:108-147).
THEOREM PagesAreKept == Spec => []PagesSurvive
<1>1. TextInv => PagesSurvive
  BY DEF TextInv
<1> QED BY <1>1, TextsAreRight, PTL
=============================================================================
