------------------------- MODULE EventStream_proofs -------------------------
(***************************************************************************)
(* What a reader of the stream may rely on, proved for any number of open  *)
(* responses, any length of a queue and any number of events: the newest   *)
(* event that is not a token is with the reader or on its way, and so the  *)
(* end of a job is in the queue of every response that is still open.      *)
(***************************************************************************)
EXTENDS EventStream, SequenceTheorems, TLAPS

Publishing == {"fanout", "put", "evict"}
Announcing == {"begun", "settled", "waitCanceled"}
Open(c) == cpc[c] \in {"subscribed", "live"}

Typed == /\ status \in {"queued", "running"} \cup Settled
         /\ log \in Seq(Kinds)
         /\ ppc \in {"idle"} \cup Publishing \cup Announcing
         /\ targets \in Seq(Subscribers) /\ subs \in Seq(Subscribers)
         /\ queues \in [Subscribers -> Seq(Nat)]
         /\ cpc \in [Subscribers -> {"new", "subscribed", "live", "ended", "gone"}]
         /\ got \in [Subscribers -> SUBSET Nat]
         /\ since \in [Subscribers -> Nat]

\* The list holds the open responses, each once; so does the publisher's copy of it.
ListIsRight == /\ IsInjective(subs) /\ IsInjective(targets)
               /\ \A c \in Subscribers : Open(c) <=> c \in ToSet(subs)

\* Where the publisher is: a fan-out has an event, an eviction one that is not a token; the
\* end of a job is published once, after its status.
PublisherIsRight ==
  /\ ppc \in Publishing => log # <<>>
  /\ ppc = "evict" => targets # <<>> /\ Last(log) # "token"
  /\ ppc \in {"settled", "waitCanceled"} => status \in Settled
  /\ ppc = "begun" => status \notin Settled
  /\ EndPublished => status \in Settled /\ ppc \notin Announcing

\* What a response was sent or has in its queue, and when it was opened, is in the past.
PastIsPast ==
  \A c \in Subscribers : /\ since[c] <= Len(log)
                         /\ \A i \in got[c] \cup Queued(c) : i \in 1..Len(log)

Newest(i) == /\ i \in 1..Len(log) /\ log[i] # "token"
             /\ \A k \in i+1..Len(log) : log[k] = "token"

\* An open response has the newest event that is not a token, unless the event is still
\* being published and the response's turn has not come.
NewestReaches ==
  \A c \in Subscribers : \A i \in Nat :
    Open(c) /\ c \notin skipped /\ since[c] < i /\ Newest(i) =>
      \/ i \in got[c] \cup Queued(c)
      \/ i = Len(log) /\ ppc = "fanout"
      \/ i = Len(log) /\ ppc \in {"put", "evict"} /\ c \in ToSet(targets)

\* A response that is live when the end was published began to listen before, and has
\* not been sent it.
LiveIsBefore ==
  \A c \in Subscribers :
    cpc[c] = "live" /\ EndPublished => since[c] < Len(log) /\ Len(log) \notin got[c]

Inv == Typed /\ ListIsRight /\ PublisherIsRight /\ PastIsPast /\ NewestReaches /\ LiveIsBefore

-----------------------------------------------------------------------------
\* Sequences

\* Putting at the end of a queue.
LEMMA AppendSet ==
  ASSUME NEW S, NEW s \in Seq(S), NEW x \in S
  PROVE  /\ Append(s, x) \in Seq(S)
         /\ ToSet(Append(s, x)) = ToSet(s) \cup {x}
<1>1. /\ Append(s, x) \in Seq(S) /\ Len(Append(s, x)) = Len(s) + 1
      /\ \A i \in 1..Len(s) : Append(s, x)[i] = s[i]
      /\ Append(s, x)[Len(s) + 1] = x
  OBVIOUS
<1> QED BY <1>1 DEF ToSet

\* Taking the first of a queue, or of a list without repetition.
LEMMA TailSet ==
  ASSUME NEW S, NEW s \in Seq(S), s # <<>>
  PROVE  /\ Head(s) \in S /\ Tail(s) \in Seq(S)
         /\ ToSet(s) = {Head(s)} \cup ToSet(Tail(s))
         /\ IsInjective(s) => Head(s) \notin ToSet(Tail(s)) /\ IsInjective(Tail(s))
<1>1. /\ Head(s) = s[1] /\ Head(s) \in S /\ Tail(s) \in Seq(S)
      /\ Len(Tail(s)) = Len(s) - 1 /\ Len(s) \in Nat /\ Len(s) > 0
      /\ \A i \in 1..(Len(s) - 1) : Tail(s)[i] = s[i + 1]
  BY HeadTailProperties
<1>2. /\ DOMAIN s = 1..Len(s) /\ DOMAIN Tail(s) = 1..(Len(s) - 1)
      /\ \A i \in 2..Len(s) : s[i] = Tail(s)[i - 1] /\ i - 1 \in 1..(Len(s) - 1)
  BY <1>1
<1>3. ToSet(s) = {Head(s)} \cup ToSet(Tail(s))
  <2>1. ASSUME NEW i \in 1..Len(s) PROVE s[i] \in {Head(s)} \cup ToSet(Tail(s))
    <3>1. CASE i = 1
      BY <1>1, <3>1
    <3>2. CASE i \in 2..Len(s)
      <4>1. s[i] = Tail(s)[i - 1] /\ i - 1 \in DOMAIN Tail(s)
        BY <1>2, <3>2
      <4> QED BY <4>1 DEF ToSet
    <3> QED BY <1>1, <3>1, <3>2
  <2>2. ASSUME NEW i \in 1..(Len(s) - 1) PROVE Tail(s)[i] \in ToSet(s)
    BY <1>1, <1>2 DEF ToSet
  <2>3. Head(s) \in ToSet(s)
    BY <1>1, <1>2 DEF ToSet
  <2>4. ToSet(s) \subseteq {Head(s)} \cup ToSet(Tail(s))
    BY <1>2, <2>1 DEF ToSet
  <2>5. ToSet(Tail(s)) \subseteq ToSet(s)
    BY <1>2, <2>2 DEF ToSet
  <2> QED BY <2>3, <2>4, <2>5
<1>4. IsInjective(s) => Head(s) \notin ToSet(Tail(s)) /\ IsInjective(Tail(s))
  BY <1>1 DEF ToSet, IsInjective
<1> QED BY <1>1, <1>3, <1>4

\* Putting something new at the end of a list without repetition.
LEMMA AppendDistinct ==
  ASSUME NEW S, NEW s \in Seq(S), NEW x \in S, IsInjective(s), x \notin ToSet(s)
  PROVE  IsInjective(Append(s, x))
<1> DEFINE r == Append(s, x)
<1>1. /\ r \in Seq(S) /\ Len(r) = Len(s) + 1 /\ Len(s) \in Nat
      /\ \A i \in 1..Len(s) : r[i] = s[i]
      /\ r[Len(s) + 1] = x
  BY AppendProperties
<1>2. DOMAIN r = 1..(Len(s) + 1) /\ DOMAIN s = 1..Len(s)
  BY <1>1
<1>3. \A i \in 1..Len(s) : s[i] # x
  BY <1>2 DEF ToSet
<1> HIDE DEF r
<1>4. ASSUME NEW i \in 1..(Len(s) + 1), NEW j \in 1..(Len(s) + 1), r[i] = r[j]
      PROVE  i = j
  <2>1. CASE i \in 1..Len(s) /\ j \in 1..Len(s)
    BY <1>1, <1>2, <1>4, <2>1 DEF IsInjective
  <2>2. CASE i = Len(s) + 1 \/ j = Len(s) + 1
    BY <1>1, <1>3, <1>4, <2>2
  <2> QED BY <1>1, <2>1, <2>2
<1>5. IsInjective(r)
  BY <1>2, <1>4 DEF IsInjective
<1> QED BY <1>5 DEF r

\* Taking an element out of a list without repetition.
LEMMA RemoveSet ==
  ASSUME NEW S, NEW s \in Seq(S), NEW i \in DOMAIN s, IsInjective(s)
  PROVE  /\ RemoveAt(s, i) \in Seq(S)
         /\ IsInjective(RemoveAt(s, i))
         /\ ToSet(RemoveAt(s, i)) = ToSet(s) \ {s[i]}
<1> DEFINE a == SubSeq(s, 1, i - 1)
           b == SubSeq(s, i + 1, Len(s))
           r == RemoveAt(s, i)
<1>1. i \in 1..Len(s) /\ Len(s) \in Nat /\ DOMAIN s = 1..Len(s) /\ \A k \in 1..Len(s) : s[k] \in S
  BY ElementOfSeq
<1>2. /\ a \in Seq(S) /\ Len(a) = i - 1
      /\ \A k \in 1..(i - 1) : a[k] = s[k]
  BY <1>1, SubSeqProperties
<1>3. /\ b \in Seq(S) /\ Len(b) = Len(s) - i
      /\ \A k \in 1..(Len(s) - i) : b[k] = s[i + k]
  BY <1>1, SubSeqProperties
<1>4. r = a \o b
  BY DEF RemoveAt
<1> HIDE DEF a, b, r
<1>5. /\ r \in Seq(S) /\ Len(r) = Len(s) - 1
      /\ \A k \in 1..(Len(s) - 1) : r[k] = IF k <= i - 1 THEN a[k] ELSE b[k - (i - 1)]
  <2>1. /\ a \o b \in Seq(S) /\ Len(a \o b) = Len(a) + Len(b)
        /\ \A k \in 1..(Len(a) + Len(b)) : (a \o b)[k] = IF k <= Len(a) THEN a[k] ELSE b[k - Len(a)]
    BY <1>2, <1>3, ConcatProperties
  <2>2. Len(a) + Len(b) = Len(s) - 1
    BY <1>1, <1>2, <1>3
  <2> QED BY <1>2, <1>4, <2>1, <2>2
<1>6. \A k \in 1..(Len(s) - 1) : r[k] = IF k < i THEN s[k] ELSE s[k + 1]
  <2> TAKE k \in 1..(Len(s) - 1)
  <2>1. CASE k < i
    BY <1>1, <1>2, <1>5, <2>1
  <2>2. CASE k >= i
    <3>1. k - (i - 1) \in 1..(Len(s) - i)
      BY <1>1, <2>2
    <3>2. b[k - (i - 1)] = s[k + 1]
      <4>1. i + (k - (i - 1)) = k + 1
        BY <1>1
      <4>2. b[k - (i - 1)] = s[i + (k - (i - 1))]
        BY <1>3, <3>1
      <4> QED BY <4>1, <4>2
    <3> QED BY <1>1, <1>5, <2>2, <3>2
  <2> QED BY <1>1, <2>1, <2>2
<1>7. DOMAIN r = 1..(Len(s) - 1)
  BY <1>1, <1>5
<1>8. \A k, m \in 1..Len(s) : s[k] = s[m] => k = m
  BY <1>1 DEF IsInjective
<1>9. IsInjective(r)
  <2> SUFFICES ASSUME NEW k \in 1..(Len(s) - 1), NEW m \in 1..(Len(s) - 1), r[k] = r[m]
               PROVE  k = m
    BY <1>7 DEF IsInjective
  <2>1. CASE k < i /\ m < i
    BY <1>1, <1>6, <1>8, <2>1
  <2>2. CASE k >= i /\ m >= i
    BY <1>1, <1>6, <1>8, <2>2
  <2>3. CASE k < i /\ m >= i
    BY <1>1, <1>6, <1>8, <2>3
  <2>4. CASE k >= i /\ m < i
    BY <1>1, <1>6, <1>8, <2>4
  <2> QED BY <1>1, <2>1, <2>2, <2>3, <2>4
<1>10. ToSet(r) = ToSet(s) \ {s[i]}
  <2>1. ASSUME NEW k \in 1..(Len(s) - 1) PROVE r[k] \in ToSet(s) /\ r[k] # s[i]
    <3>1. CASE k < i
      BY <1>1, <1>6, <1>8, <3>1 DEF ToSet
    <3>2. CASE k >= i
      BY <1>1, <1>6, <1>8, <3>2 DEF ToSet
    <3> QED BY <1>1, <3>1, <3>2
  <2>2. ASSUME NEW k \in 1..Len(s), k # i PROVE s[k] \in ToSet(r)
    <3>1. CASE k < i
      <4>1. k \in 1..(Len(s) - 1) /\ r[k] = s[k]
        BY <1>1, <1>6, <3>1
      <4> QED BY <1>7, <4>1 DEF ToSet
    <3>2. CASE k > i
      <4>1. k - 1 \in 1..(Len(s) - 1) /\ r[k - 1] = s[k]
        BY <1>1, <1>6, <3>2
      <4> QED BY <1>7, <4>1 DEF ToSet
    <3> QED BY <1>1, <2>2, <3>1, <3>2
  <2>3. ToSet(r) \subseteq ToSet(s) \ {s[i]}
    BY <1>7, <2>1 DEF ToSet
  <2>4. ToSet(s) \ {s[i]} \subseteq ToSet(r)
    BY <1>1, <2>2 DEF ToSet
  <2> QED BY <2>3, <2>4
<1> QED BY <1>5, <1>9, <1>10 DEF r

-----------------------------------------------------------------------------
\* A job that was just submitted, and nobody listening.
LEMMA InvInit == Init => Inv
<1> SUFFICES ASSUME Init PROVE Inv
  OBVIOUS
<1>1. Typed
  BY DEF Init, Typed
<1>2. ToSet(subs) = {} /\ \A c \in Subscribers : ~Open(c)
  BY DEF Init, ToSet, Open
<1>3. ListIsRight
  BY <1>2 DEF Init, ListIsRight, IsInjective
<1>4. PublisherIsRight /\ LiveIsBefore
  BY DEF Init, PublisherIsRight, EndPublished, LiveIsBefore, Publishing, Announcing
<1>5. PastIsPast
  BY DEF Init, PastIsPast, Queued, ToSet
<1>6. NewestReaches
  BY <1>2 DEF NewestReaches
<1> QED BY <1>1, <1>3, <1>4, <1>5, <1>6 DEF Inv

-----------------------------------------------------------------------------
\* The publisher

\* An event becomes the newest.  It is the end only when the status is settled already.
LEMMA InvPublish ==
  ASSUME Inv, NEW kind \in Kinds, ppc \notin Publishing,
         Publish(kind), ~EndPublished,
         UNCHANGED <<status, subs, queues, clientVars, skipped>>,
         kind \in {"done", "error"} => status \in Settled
  PROVE  Inv'
<1> USE DEF Inv, Typed, clientVars
<1>1. /\ log' = Append(log, kind) /\ log' \in Seq(Kinds) /\ Len(log') = Len(log) + 1
      /\ Len(log) \in Nat
      /\ \A i \in 1..Len(log) : log'[i] = log[i]
      /\ log'[Len(log')] = kind
      /\ ppc' = "fanout" /\ UNCHANGED targets
  BY DEF Publish
<1>2. Typed'
  BY <1>1 DEF Publishing
<1>3. ListIsRight'
  BY <1>1 DEF ListIsRight, Open
<1>4. PublisherIsRight'
  BY <1>1 DEF PublisherIsRight, EndPublished, Last, Publishing, Announcing
<1>5. PastIsPast'
  BY <1>1 DEF PastIsPast, Queued
<1>6. NewestReaches'
  <2> SUFFICES ASSUME NEW c \in Subscribers, NEW i \in Nat,
                      Open(c), c \notin skipped, since[c] < i, Newest(i)', i # Len(log')
               PROVE  i \in got[c] \cup Queued(c)
    BY <1>1 DEF NewestReaches, Open, Queued
  <2>1. i \in 1..Len(log) /\ Newest(i)
    BY <1>1 DEF Newest
  <2> QED BY <2>1 DEF NewestReaches, Publishing
<1>7. LiveIsBefore'
  BY <1>1 DEF LiveIsBefore, PastIsPast
<1> QED BY <1>2, <1>3, <1>4, <1>5, <1>6, <1>7

\* The copy of the list has whoever listens now.
LEMMA InvCopy == Inv /\ CopySubscribers => Inv'
<1> SUFFICES ASSUME Inv, CopySubscribers PROVE Inv'
  OBVIOUS
<1> USE DEF Inv, Typed, clientVars
<1>1. /\ ppc = "fanout" /\ targets' = subs /\ ppc' = "put"
      /\ UNCHANGED <<status, log, subs, queues, cpc, got, since, skipped>>
  BY DEF CopySubscribers
<1>2. Typed' /\ PastIsPast' /\ LiveIsBefore'
  BY <1>1 DEF Publishing, PastIsPast, Queued, LiveIsBefore, EndPublished
<1>3. ListIsRight'
  BY <1>1 DEF ListIsRight, Open
<1>4. PublisherIsRight'
  BY <1>1 DEF PublisherIsRight, EndPublished, Publishing, Announcing
<1>5. NewestReaches'
  BY <1>1 DEF NewestReaches, Newest, Open, Queued, ListIsRight
<1> QED BY <1>2, <1>3, <1>4, <1>5

\* A put: the reader has the event, or it was a token.
LEMMA InvPut == Inv /\ Put => Inv'
<1> SUFFICES ASSUME Inv, Put PROVE Inv'
  OBVIOUS
<1> USE DEF Inv, Typed, clientVars
<1> DEFINE h == Head(targets)
<1>1. /\ ppc = "put" /\ targets # <<>> /\ log # <<>>
      /\ UNCHANGED <<status, log, subs, cpc, got, since, skipped>>
      /\ \/ /\ queues' = [queues EXCEPT ![h] = Append(queues[h], Len(log))]
            /\ targets' = Tail(targets) /\ ppc' = "put"
         \/ /\ Last(log) = "token" /\ UNCHANGED queues
            /\ targets' = Tail(targets) /\ ppc' = "put"
         \/ /\ Last(log) # "token" /\ UNCHANGED <<queues, targets>> /\ ppc' = "evict"
  BY DEF Put, NextTarget, PublisherIsRight, Publishing
<1>2. /\ h \in Subscribers /\ Tail(targets) \in Seq(Subscribers)
      /\ ToSet(targets) = {h} \cup ToSet(Tail(targets))
      /\ IsInjective(Tail(targets))
  BY <1>1, TailSet DEF ListIsRight
<1>3. /\ Len(log) \in Nat
      /\ Append(queues[h], Len(log)) \in Seq(Nat)
      /\ ToSet(Append(queues[h], Len(log))) = ToSet(queues[h]) \cup {Len(log)}
  <2>1. Len(log) \in Nat /\ queues[h] \in Seq(Nat)
    BY <1>2
  <2>2. \A q \in Seq(Nat), x \in Nat : /\ Append(q, x) \in Seq(Nat)
                                       /\ ToSet(Append(q, x)) = ToSet(q) \cup {x}
    BY AppendSet, Zenon
  <2> QED BY <2>1, <2>2, Zenon
<1> HIDE DEF h
<1>4. Typed'
  BY <1>1, <1>2, <1>3 DEF Publishing
<1>5. ListIsRight'
  BY <1>1, <1>2 DEF ListIsRight, Open
<1>6. PublisherIsRight' /\ LiveIsBefore'
  BY <1>1 DEF PublisherIsRight, EndPublished, Publishing, Announcing, LiveIsBefore
<1>8. PastIsPast'
  <2>1. Len(log) \in 1..Len(log)
    BY <1>1
  <2>2. \A c \in Subscribers : Queued(c)' \subseteq Queued(c) \cup {Len(log)}
    BY <1>1, <1>2, <1>3 DEF Queued
  <2> QED BY <1>1, <2>1, <2>2 DEF PastIsPast
<1>7. NewestReaches'
  <2> SUFFICES ASSUME NEW c \in Subscribers, NEW i \in Nat,
                      Open(c), c \notin skipped, since[c] < i, Newest(i)
               PROVE  \/ i \in got[c] \cup Queued(c)'
                      \/ i = Len(log) /\ c \in ToSet(targets')
    BY <1>1 DEF NewestReaches, Open, Newest
  <2>1. Queued(c) \subseteq Queued(c)'
    BY <1>1, <1>2, <1>3 DEF Queued
  <2>2. CASE i \in got[c] \cup Queued(c)
    BY <2>1, <2>2
  <2>3. CASE i = Len(log) /\ c \in ToSet(targets) /\ c # h
    BY <1>1, <1>2, <2>3
  <2>4. CASE i = Len(log) /\ c = h
    <3>1. Last(log) # "token"
      BY <2>4 DEF Newest, Last
    <3> QED BY <1>1, <1>2, <1>3, <2>4, <3>1 DEF Queued
  <2> QED BY <1>1, <2>2, <2>3, <2>4 DEF NewestReaches
<1> QED BY <1>4, <1>5, <1>6, <1>7, <1>8

\* An eviction: what is lost is older than the event that comes in its place.
LEMMA InvEvict == Inv /\ Evict => Inv'
<1> SUFFICES ASSUME Inv, Evict PROVE Inv'
  OBVIOUS
<1> USE DEF Inv, Typed, clientVars
<1> DEFINE h == Head(targets)
<1>1. /\ ppc = "evict" /\ targets # <<>> /\ log # <<>> /\ Last(log) # "token" /\ ppc' = "put"
      /\ UNCHANGED <<status, log, subs, cpc, got, since>>
      /\ \/ /\ queues[h] # <<>> /\ queues' = [queues EXCEPT ![h] = Tail(queues[h])]
            /\ UNCHANGED <<targets, skipped>>
         \/ /\ skipped' = skipped \cup {h}
            /\ targets' = Tail(targets) /\ UNCHANGED queues
  BY DEF Evict, NextTarget, PublisherIsRight, Publishing
<1>2. /\ h \in Subscribers /\ Tail(targets) \in Seq(Subscribers)
      /\ ToSet(targets) = {h} \cup ToSet(Tail(targets))
      /\ IsInjective(Tail(targets))
  BY <1>1, TailSet DEF ListIsRight
<1>3. queues[h] # <<>> => /\ Tail(queues[h]) \in Seq(Nat)
                           /\ ToSet(Tail(queues[h])) \subseteq ToSet(queues[h])
  <2>1. queues[h] \in Seq(Nat)
    BY <1>2
  <2> QED BY <2>1, TailSet
<1> HIDE DEF h
<1>4. Typed'
  BY <1>1, <1>2, <1>3 DEF Publishing
<1>5. ListIsRight'
  BY <1>1, <1>2 DEF ListIsRight, Open
<1>6. PublisherIsRight' /\ LiveIsBefore'
  BY <1>1 DEF PublisherIsRight, EndPublished, Publishing, Announcing, LiveIsBefore
<1>8. PastIsPast'
  <2>1. \A c \in Subscribers : Queued(c)' \subseteq Queued(c)
    BY <1>1, <1>2, <1>3 DEF Queued
  <2> QED BY <1>1, <2>1 DEF PastIsPast
<1>7. NewestReaches'
  <2> SUFFICES ASSUME NEW c \in Subscribers, NEW i \in Nat,
                      Open(c), c \notin skipped', since[c] < i, Newest(i)
               PROVE  \/ i \in got[c] \cup Queued(c)'
                      \/ i = Len(log) /\ c \in ToSet(targets')
    BY <1>1 DEF NewestReaches, Open, Newest
  <2>1. c \notin skipped /\ (c # h => Queued(c)' = Queued(c))
    BY <1>1 DEF Queued
  <2>2. CASE c # h
    BY <1>1, <1>2, <2>1, <2>2 DEF NewestReaches
  <2>3. CASE c = h
    <3>1. i = Len(log)
      <4>1. Last(log) = log[Len(log)] /\ Len(log) \in Nat
        BY DEF Last
      <4> QED BY <1>1, <4>1 DEF Newest
    <3>2. targets' = targets
      BY <1>1, <2>3
    <3> QED BY <1>2, <2>3, <3>1, <3>2
  <2> QED BY <2>2, <2>3
<1> QED BY <1>4, <1>5, <1>6, <1>7, <1>8

\* Everybody's turn has come.
LEMMA InvPublished == Inv /\ Published => Inv'
<1> SUFFICES ASSUME Inv, Published PROVE Inv'
  OBVIOUS
<1> USE DEF Inv, Typed, clientVars
<1>1. /\ ppc = "put" /\ targets = <<>> /\ ppc' = "idle"
      /\ UNCHANGED <<status, log, targets, subs, queues, cpc, got, since, skipped>>
  BY DEF Published
<1>2. ToSet(targets) = {}
  BY <1>1 DEF ToSet
<1>3. Typed' /\ PastIsPast' /\ LiveIsBefore'
  BY <1>1 DEF PastIsPast, Queued, LiveIsBefore, EndPublished
<1>4. ListIsRight'
  BY <1>1 DEF ListIsRight, Open
<1>5. PublisherIsRight'
  BY <1>1 DEF PublisherIsRight, EndPublished, Publishing, Announcing
<1>6. NewestReaches'
  BY <1>1, <1>2 DEF NewestReaches, Newest, Open, Queued
<1> QED BY <1>3, <1>4, <1>5, <1>6

\* The status changes, or nothing that a reader sees: what was on its way still is.
LEMMA InvStatus ==
  ASSUME Inv, ppc \notin Publishing, ppc' \notin Publishing, ~EndPublished,
         status' \in {"queued", "running"} \cup Settled,
         UNCHANGED <<log, targets, subs, queues, clientVars, skipped>>,
         ppc' \in {"idle"} \cup Announcing,
         ppc' \in {"settled", "waitCanceled"} => status' \in Settled,
         ppc' = "begun" => status' \notin Settled
  PROVE  Inv'
<1> USE DEF Inv, Typed, clientVars
<1>1. Typed' /\ PastIsPast' /\ LiveIsBefore'
  BY DEF PastIsPast, Queued, LiveIsBefore, EndPublished
<1>2. ListIsRight'
  BY DEF ListIsRight, Open
<1>3. PublisherIsRight'
  BY DEF PublisherIsRight, EndPublished, Publishing, Announcing
<1>4. NewestReaches'
  BY DEF NewestReaches, Newest, Open, Queued, Publishing
<1> QED BY <1>1, <1>2, <1>3, <1>4

\* No statement of the worker or the broker breaks the invariant.
LEMMA InvWorkerStep == Inv /\ WorkerStep => Inv'
<1> SUFFICES ASSUME Inv, WorkerStep PROVE Inv'
  OBVIOUS
<1> USE DEF Publishing, Announcing, WorkerFrame
<1>1. CASE Progress \/ Token
  <2>1. ~EndPublished
    BY <1>1 DEF Progress, Token, Inv, PublisherIsRight, Settled
  <2> QED BY <1>1, <2>1, InvPublish DEF Progress, Token, Kinds
<1>2. CASE AnnounceBegin
  <2>1. ~EndPublished
    BY <1>2 DEF AnnounceBegin, Inv, PublisherIsRight
  <2> QED BY <1>2, <2>1, InvPublish DEF AnnounceBegin, Kinds
<1>3. CASE AnnounceEnd
  <2>1. ~EndPublished /\ status \in Settled
    BY <1>3 DEF AnnounceEnd, Inv, PublisherIsRight
  <2> QED BY <1>3, <2>1, InvPublish DEF AnnounceEnd, Kinds
<1>4. CASE AnnounceWaitCanceled
  <2>1. ~EndPublished /\ status \in Settled
    BY <1>4 DEF AnnounceWaitCanceled, Inv, PublisherIsRight
  <2> QED BY <1>4, <2>1, InvPublish, InvStatus DEF AnnounceWaitCanceled, Kinds, Inv, Typed
<1>5. CASE Begin \/ WaitCanceled \/ DropUnrun
  <2>1. ~EndPublished
    BY <1>5 DEF Begin, WaitCanceled, DropUnrun, Inv, PublisherIsRight, Settled
  <2> QED BY <1>5, <2>1, InvStatus DEF Begin, WaitCanceled, DropUnrun, Settled
<1>6. ASSUME NEW s \in Settled, Settle(s) PROVE Inv'
  <2>1. ~EndPublished
    BY <1>6 DEF Settle, Inv, PublisherIsRight, Settled
  <2> QED BY <1>6, <2>1, InvStatus DEF Settle
<1> QED BY <1>1, <1>2, <1>3, <1>4, <1>5, <1>6, InvCopy, InvPut, InvEvict, InvPublished, Zenon
        DEF WorkerStep

-----------------------------------------------------------------------------
\* The readers

\* A response is opened: nothing was published for it yet.
LEMMA InvSubscribe ==
  ASSUME Inv, NEW c \in Subscribers, Subscribe(c)
  PROVE  Inv'
<1> USE DEF Inv, Typed
<1>1. /\ cpc[c] = "new" /\ subs' = Append(subs, c)
      /\ since' = [since EXCEPT ![c] = Len(log)] /\ cpc' = [cpc EXCEPT ![c] = "subscribed"]
      /\ UNCHANGED <<status, log, ppc, targets, queues, got, skipped>>
      /\ Len(log) \in Nat
  BY DEF Subscribe, ClientTo, ClientFrame, workerVars
<1>2. /\ subs' \in Seq(Subscribers) /\ ToSet(subs') = ToSet(subs) \cup {c}
      /\ IsInjective(subs')
  BY <1>1, AppendSet, AppendDistinct DEF ListIsRight, Open
<1>3. Typed'
  BY <1>1, <1>2
<1>4. ListIsRight'
  BY <1>1, <1>2 DEF ListIsRight, Open
<1>5. PublisherIsRight' /\ PastIsPast' /\ LiveIsBefore'
  BY <1>1 DEF PublisherIsRight, EndPublished, PastIsPast, Queued, LiveIsBefore
<1>6. NewestReaches'
  BY <1>1 DEF NewestReaches, Newest, Open, Queued
<1> QED BY <1>3, <1>4, <1>5, <1>6

\* A response that ends or is left takes itself off the list.
LEMMA InvUnsubscribe ==
  ASSUME Inv, NEW c \in Subscribers, Open(c), NEW to \in {"ended", "gone"},
         ClientTo(c, to), Unsubscribe(c),
         UNCHANGED <<status, log, ppc, targets, since, skipped>>,
         queues' \in [Subscribers -> Seq(Nat)], got' \in [Subscribers -> SUBSET Nat],
         \A d \in Subscribers \ {c} : queues'[d] = queues[d] /\ got'[d] = got[d],
         got'[c] \cup Queued(c)' \subseteq got[c] \cup Queued(c)
  PROVE  Inv'
<1> USE DEF Inv, Typed
<1>1. cpc' = [cpc EXCEPT ![c] = to]
  BY DEF ClientTo
<1>2. /\ subs' \in Seq(Subscribers) /\ IsInjective(subs')
      /\ ToSet(subs') = ToSet(subs) \ {c}
  BY RemoveSet DEF Unsubscribe, ListIsRight
<1>3. Typed'
  BY <1>1, <1>2
<1>4. ListIsRight'
  BY <1>1, <1>2 DEF ListIsRight, Open
<1>5. PublisherIsRight' /\ LiveIsBefore'
  BY <1>1 DEF PublisherIsRight, EndPublished, LiveIsBefore
<1>6. PastIsPast'
  <2>1. \A d \in Subscribers : got'[d] \cup Queued(d)' \subseteq got[d] \cup Queued(d)
    BY DEF Queued
  <2> QED BY <2>1 DEF PastIsPast
<1>7. NewestReaches'
  BY <1>1 DEF NewestReaches, Newest, Open, Queued
<1> QED BY <1>3, <1>4, <1>5, <1>6, <1>7

\* The snapshot is taken after subscribing: a job that is not settled has its end before it.
LEMMA InvSnapshot ==
  ASSUME Inv, NEW c \in Subscribers, Snapshot(c)
  PROVE  Inv'
<1> USE DEF Inv, Typed
<1>1. /\ cpc[c] = "subscribed"
      /\ UNCHANGED <<status, log, ppc, targets, queues, got, since, skipped>>
  BY DEF Snapshot, ClientFrame, workerVars
<1>2. CASE status \in Settled
  <2>1. ClientTo(c, "ended") /\ Unsubscribe(c) /\ Open(c)
    BY <1>1, <1>2 DEF Snapshot, Open
  <2>2. \A d \in Subscribers : Queued(d)' = Queued(d)
    BY <1>1 DEF Queued
  <2> QED BY <1>1, <2>1, <2>2, InvUnsubscribe
<1>3. CASE status \notin Settled
  <2>1. cpc' = [cpc EXCEPT ![c] = "live"] /\ UNCHANGED subs /\ ~EndPublished
    BY <1>3 DEF Snapshot, ClientTo, PublisherIsRight
  <2>2. Typed' /\ PublisherIsRight' /\ PastIsPast' /\ LiveIsBefore'
    BY <1>1, <2>1 DEF PublisherIsRight, EndPublished, PastIsPast, Queued, LiveIsBefore
  <2>3. ListIsRight'
    BY <1>1, <2>1 DEF ListIsRight, Open
  <2>4. NewestReaches'
    BY <1>1, <2>1 DEF NewestReaches, Newest, Open, Queued
  <2> QED BY <2>2, <2>3, <2>4
<1> QED BY <1>2, <1>3

\* An event goes from the queue to the reader; the end of the job ends the response.
LEMMA InvPoll ==
  ASSUME Inv, NEW c \in Subscribers, Poll(c)
  PROVE  Inv'
<1> USE DEF Inv, Typed
<1> DEFINE e == Head(queues[c])
<1>1. /\ cpc[c] = "live" /\ queues[c] # <<>>
      /\ queues' = [queues EXCEPT ![c] = Tail(queues[c])]
      /\ got' = [got EXCEPT ![c] = got[c] \cup {e}]
      /\ UNCHANGED <<status, log, ppc, targets, since, skipped>>
  BY DEF Poll, ClientFrame, workerVars
<1>2. /\ e \in Nat /\ Tail(queues[c]) \in Seq(Nat)
      /\ ToSet(queues[c]) = {e} \cup ToSet(Tail(queues[c]))
  BY <1>1, TailSet
<1>3. /\ queues' \in [Subscribers -> Seq(Nat)] /\ got' \in [Subscribers -> SUBSET Nat]
      /\ Queued(c)' = ToSet(Tail(queues[c])) /\ got'[c] = got[c] \cup {e}
      /\ \A d \in Subscribers : got'[d] \cup Queued(d)' \subseteq got[d] \cup Queued(d)
  BY <1>1, <1>2 DEF Queued
<1>4. CASE log[e] \in {"done", "error"}
  <2>1. ClientTo(c, "ended") /\ Unsubscribe(c) /\ Open(c)
    BY <1>1, <1>4 DEF Poll, Open
  <2> HIDE DEF e
  <2> QED BY <1>1, <1>3, <2>1, InvUnsubscribe
<1>5. CASE log[e] \notin {"done", "error"}
  <2>1. UNCHANGED <<cpc, subs>>
    BY <1>5 DEF Poll
  <2>2. EndPublished => e # Len(log)
    BY <1>5 DEF EndPublished, Last
  <2> HIDE DEF e
  <2>3. Typed' /\ PublisherIsRight'
    BY <1>1, <1>3, <2>1 DEF PublisherIsRight, EndPublished
  <2>4. PastIsPast' /\ LiveIsBefore'
    <3>1. PastIsPast'
      BY <1>1, <1>3 DEF PastIsPast
    <3>2. LiveIsBefore'
      BY <1>1, <1>3, <2>1, <2>2 DEF EndPublished, LiveIsBefore
    <3> QED BY <3>1, <3>2
  <2>5. ListIsRight'
    BY <1>1, <2>1 DEF ListIsRight, Open
  <2>6. NewestReaches'
    BY <1>1, <1>2, <2>1 DEF NewestReaches, Newest, Open, Queued
  <2> QED BY <2>3, <2>4, <2>5, <2>6
<1> QED BY <1>4, <1>5

\* A reader leaves.
LEMMA InvLeave ==
  ASSUME Inv, NEW c \in Subscribers, Leave(c)
  PROVE  Inv'
<1>1. /\ Open(c) /\ ClientTo(c, "gone") /\ Unsubscribe(c)
      /\ UNCHANGED <<status, log, ppc, targets, since, skipped, queues, got>>
  BY DEF Leave, ClientFrame, workerVars, Open
<1>2. Queued(c)' = Queued(c)
  BY <1>1 DEF Queued
<1> QED BY <1>1, <1>2, InvUnsubscribe DEF Inv, Typed

-----------------------------------------------------------------------------
\* No step of the worker, a handler or a reader breaks the invariant.
LEMMA InvStep == Inv /\ [Next]_vars => Inv'
<1> SUFFICES ASSUME Inv, [Next]_vars PROVE Inv'
  OBVIOUS
<1>1. ASSUME UNCHANGED <<status, log, ppc, targets, subs, queues, cpc, got, since, skipped>>
      PROVE  Inv'
  BY <1>1 DEF Inv, Typed, ListIsRight, PublisherIsRight, PastIsPast, NewestReaches, LiveIsBefore,
              Newest, Open, Queued, EndPublished
<1>2. CASE Cancel \/ Delete
  BY <1>1, <1>2, Zenon DEF Cancel, Delete, workerVars, clientVars
<1>3. CASE UNCHANGED vars
  BY <1>1, <1>3, Zenon DEF vars, workerVars, clientVars
<1> QED BY <1>2, <1>3, InvWorkerStep, InvSubscribe, InvSnapshot, InvPoll, InvLeave, Zenon DEF Next

\* The invariant holds in every state.
THEOREM StreamIsRight == Spec => []Inv
BY InvInit, InvStep, PTL DEF Spec

\* A response that is open when the end of the job was published has the end in its queue, for
\* any number of readers that come and go: no reader waits for an end that went by
\* (api.py:320-339, runner.py:446-456).
THEOREM EndIsNeverMissed == Spec => []NoSilentEnd
<1>1. Inv => NoSilentEnd
  <2> SUFFICES ASSUME Inv, NEW c \in Subscribers,
                      cpc[c] = "live", EndPublished, ppc = "idle", c \notin skipped
               PROVE  Len(log) \in Queued(c)
    BY DEF NoSilentEnd
  <2>1. /\ since[c] < Len(log) /\ Len(log) \notin got[c] /\ Open(c) /\ Len(log) \in Nat
    BY DEF Inv, Typed, LiveIsBefore, Open
  <2>2. Newest(Len(log))
    BY <2>1 DEF Newest, EndPublished, Last, Inv, Typed
  <2> QED BY <2>1, <2>2 DEF Inv, NewestReaches
<1> QED BY <1>1, StreamIsRight, PTL

\* What a full queue drops is never the newest event that is not a token (jobs.py:294-303).
THEOREM NewestIsNeverDropped == Spec => []LatestSurvives
<1>1. Inv => LatestSurvives
  <2> SUFFICES ASSUME Inv, NEW c \in Subscribers, NEW i \in 1..Len(log),
                      cpc[c] = "live", ppc = "idle", c \notin skipped, since[c] < i,
                      log[i] # "token", \A k \in i+1..Len(log) : log[k] = "token"
               PROVE  i \in got[c] \cup Queued(c)
    BY DEF LatestSurvives
  <2>1. Open(c) /\ Newest(i) /\ i \in Nat
    BY DEF Open, Newest
  <2> QED BY <2>1 DEF Inv, NewestReaches
<1> QED BY <1>1, StreamIsRight, PTL
=============================================================================
