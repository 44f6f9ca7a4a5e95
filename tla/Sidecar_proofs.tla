--------------------------- MODULE Sidecar_proofs ---------------------------
(***************************************************************************)
(* The safety of Sidecar, for any number of pages, page concurrencies,     *)
(* retries of a connection, outages and polls.                             *)
(*                                                                         *)
(* Why the properties alone are not inductive: that a job is never sent    *)
(* away by a service that has not failed (FirstStartWaits) needs what the  *)
(* cache, the slow poller and the worker know of it to be true as long as  *)
(* there was no outage (LoadedIsTrue); that only the user cancels          *)
(* (CanceledByUser) needs the calls of attempts to come to be untouched by *)
(* the stop events of those that were given up (ComingIsNew); and that a   *)
(* page is inferred once per call needs what was not sent to be unknown to *)
(* the service (UnsentIsUnknown).  That the result is made of whole chunks *)
(* (PagesInOrder) needs where the chunk at hand begins (ChunkIsAligned)    *)
(* and which pages its attempt has taken (PartsInOrder).                   *)
(***************************************************************************)
EXTENDS Sidecar, SequenceTheorems, TLAPS

Waiting == {"queued", "wait", "waited"}        \* before the first chunk
Working == {"chunk", "load", "loading", "page", "result"}
Outcomes == {"none", "connect", "await", "got", "ok", "error", "not ready", "unavailable", "canceled"}
SrvStates == {"none", "queued", "page", "failed", "refused", "lost", "abandoned"}

Typed == /\ concurrency \in Nat \ {0}
         /\ prov \in {"down", "loading", "loaded", "failed", "foreign"}
         /\ outages \in Nat /\ tries \in [Call -> Nat]
         /\ call \in [Call -> Outcomes]
         /\ srv \in [Call -> SrvStates]
         /\ stopped \subseteq Call

PlaceIsRight ==
  /\ pc \in Waiting \cup Working \cup {"done", "error", "canceled"}
  /\ first \in Nat \ {0} /\ attempt \in 1..2 /\ next \in Nat
  /\ pc \in {"load", "loading", "page", "result"} => first <= Pages
  /\ pc \in {"page", "result"} => first <= next
  /\ pc = "result" => next <= Last

\* The calls that have not been made yet, wherever the worker is.
Coming(c) ==
  \/ pc \in Waiting
  \/ pc = "chunk" /\ c[1] >= first
  \/ pc \in {"load", "loading", "page", "result"} /\ (c[1] > Last \/ (c[1] >= first /\ c[2] > attempt))
  \/ pc \in {"load", "loading"} /\ c[1] >= first /\ c[2] = attempt
  \/ pc = "page" /\ ~Concurrent /\ c[1] >= next /\ c[2] = attempt
  \/ pc = "result" /\ ~Concurrent /\ c[1] > next /\ c[2] = attempt

ComingIsNew == \A c \in Call : Coming(c) => call[c] = "none" /\ c \notin stopped

\* What has not been sent is not known to the service.
UnsentIsUnknown == \A c \in Call : call[c] \in {"none", "connect"} => srv[c] = "none"

\* A call of the attempt at hand is nobody's but the user's to cancel.
CanceledByUser ==
  /\ pc \in {"page", "result"} =>
       \A c \in Call : c[1] \in first..Last /\ c[2] = attempt =>
                        c \notin stopped /\ (call[c] = "canceled" => cancel)
  /\ pc = "canceled" => cancel

\* Until the first outage, whatever has seen the model loaded is right, the worker has
\* seen it before its first chunk, and no call misses it.
LoadedIsTrue ==
  outages = 0 =>
    /\ loaded \/ polling = "loaded" \/ (pc \in {"waited", "loading"} /\ seen = "loaded") => prov = "loaded"
    /\ pc \in Working => prov = "loaded"
    /\ pc = "loading" => seen = "loaded"
    /\ \A c \in Call : /\ call[c] \notin {"not ready", "unavailable"}
                       /\ srv[c] \notin {"refused", "lost"}

Inv == /\ Typed /\ PlaceIsRight /\ ComingIsNew /\ UnsentIsUnknown
       /\ CanceledByUser /\ LoadedIsTrue /\ FirstStartWaits

\* The pages handed to the merger come from chunks before the one at hand, in order, and
\* each with the other pages of its chunk, from the same attempt.
MergedIsWhole ==
  /\ merged \in Seq(Call)
  /\ \A i \in 1..Len(merged) : merged[i][1] < first /\ call[merged[i]] = "ok"
  /\ \A i, j \in 1..Len(merged) : i < j => merged[i][1] < merged[j][1]
  /\ \A i \in 1..Len(merged) : \A p \in 1..Pages :
       (p - 1) \div concurrency = (merged[i][1] - 1) \div concurrency =>
         \E j \in 1..Len(merged) : merged[j] = <<p, merged[i][2]>>

\* The attempt at hand has taken the pages of its chunk in order, up to the next one.
PartsInOrder ==
  /\ pc \in Waiting \cup {"chunk", "load", "loading"} => parts = <<>>
  /\ pc \in {"page", "result"} =>
       /\ parts \in Seq(Call) /\ Len(parts) = next - first /\ next <= Last + 1
       /\ \A i \in 1..Len(parts) : parts[i] = <<first + i - 1, attempt>> /\ call[parts[i]] = "ok"

\* A chunk begins where the division of the pages into chunks says.
ChunkIsAligned == first <= Pages => \E k \in 0..Pages : first = k * concurrency + 1

-----------------------------------------------------------------------------
\* Last is a page of the chunk.
LEMMA LastOfChunk ==
  ASSUME concurrency \in Nat \ {0}, first \in Nat \ {0}, first <= Pages
  PROVE  Last \in first..Pages
<1>1. first + concurrency - 1 \in Nat /\ first + concurrency - 1 >= first /\ Pages \in Nat
  BY SidecarAssumption
<1> DEFINE S == {first + concurrency - 1, Pages}
           Least(x) == x \in S /\ \A y \in S : x <= y
<1>2. \E x : Least(x)
  <2>1. CASE first + concurrency - 1 <= Pages
    <3>1. Least(first + concurrency - 1)
      BY <1>1, <2>1
    <3> QED
      BY <3>1
  <2>2. CASE ~(first + concurrency - 1 <= Pages)
    <3>1. Least(Pages)
      BY <1>1, <2>2
    <3> QED
      BY <3>1
  <2> QED
    BY <2>1, <2>2
<1>3. Last = CHOOSE x \in S : \A y \in S : x <= y
  BY DEF Last, Min
<1>4. Least(Last)
  BY <1>2, <1>3
<1> QED
  BY <1>1, <1>4

\* A call is of the attempt at hand when its page is of the chunk and its attempt the one counted.
LEMMA HereIs ==
  ASSUME NEW c \in Call
  PROVE  c \in Here <=> c[1] \in first..Last /\ c[2] = attempt
BY DEF Call, Here, Chunk

\* A crash loses the requests the service holds.
LEMMA LostIs ==
  ASSUME Typed
  PROVE  /\ Lost \in [Call -> SrvStates]
         /\ \A c \in Call : Lost[c] = IF call[c] = "await" THEN "lost" ELSE srv[c]
BY DEF Lost, Typed, SrvStates

\* An outage is counted.
LEMMA OutageCounts ==
  ASSUME Typed, Outage PROVE outages' \in Nat /\ outages' # 0
BY DEF Typed, Outage

\* A health request leaves the service as it is, or an outage is counted.
LEMMA MeasureIs ==
  ASSUME Typed, NEW h, Measure(h)
  PROVE  /\ prov' \in {"down", "loading", "loaded", "failed", "foreign"} /\ outages' \in Nat
         /\ srv' \in [Call -> SrvStates]
         /\ \/ h = Health /\ UNCHANGED <<provVars, srv>>
            \/ outages' # 0 /\ srv' \in {srv, Lost}
<1>1. outages \in Nat => outages + 1 \in Nat /\ outages + 1 # 0
  OBVIOUS
<1> QED
  BY <1>1, LostIs DEF Measure, Typed, provVars, Outage, SrvStates

\* What the client does to a call concerns no other.
LEMMA EndsIs ==
  ASSUME Typed, NEW c \in Call, NEW how \in Outcomes, Ends(c, how)
  PROVE  /\ call' \in [Call -> Outcomes]
         /\ \A d \in Call \ {c} : call'[d] = call[d]
         /\ call'[c] = how \/ (call'[c] = "canceled" /\ how \in Over /\ c \in stopped)
BY DEF Ends, Typed, Outcomes

\* A transport failure ends a call as unavailable or in error, unless it is tried again.
LEMMA TransportFailsIs ==
  ASSUME Typed, NEW c \in Call, NEW cause, TransportFails(c, cause)
  PROVE  /\ call' \in [Call -> Outcomes] /\ tries' \in [Call -> Nat]
         /\ \A d \in Call \ {c} : call'[d] = call[d]
         /\ \/ call'[c] = "connect" /\ cause = "refused"
            \/ call'[c] = "canceled" /\ c \in stopped
            \/ call'[c] = "error"
            \/ call'[c] = "unavailable" /\ cause # "timeout"
<1>1. CASE PreSend(cause) /\ tries[c] < Retries
  <2>1. Ends(c, "connect") /\ tries' = [tries EXCEPT ![c] = @ + 1] /\ cause = "refused"
    BY <1>1 DEF TransportFails, PreSend
  <2>2. tries' \in [Call -> Nat]
    BY <2>1 DEF Typed
  <2> QED
    BY <2>1, <2>2, EndsIs DEF Outcomes, Over
<1>2. CASE ~(PreSend(cause) /\ tries[c] < Retries)
  <2>1. /\ Ends(c, IF cause = "timeout" THEN "error" ELSE "unavailable")
        /\ tries' = [tries EXCEPT ![c] = 0]
    BY <1>2 DEF TransportFails
  <2>2. tries' \in [Call -> Nat]
    BY <2>1 DEF Typed
  <2>3. (IF cause = "timeout" THEN "error" ELSE "unavailable") \in Outcomes
    BY DEF Outcomes
  <2> QED
    BY <2>1, <2>2, <2>3, EndsIs DEF Over
<1> QED
  BY <1>1, <1>2

\* The calls of the attempt at hand are calls.
LEMMA HereIsCalls ==
  ASSUME Typed, PlaceIsRight, pc \in {"load", "loading", "page", "result"}
  PROVE  Here \subseteq Call /\ Last \in first..Pages
<1>1. Last \in first..Pages
  BY LastOfChunk DEF Typed, PlaceIsRight
<1> QED
  BY <1>1, SidecarAssumption DEF PlaceIsRight, Here, Chunk, Call

\* When an attempt is over its calls are nobody's any more; others are not touched.
LEMMA DropIs ==
  ASSUME Typed, Drop, Here \subseteq Call
  PROVE  /\ call' \in [Call -> Outcomes] /\ stopped' \in SUBSET Call
         /\ \A c \in Call \ Here : call'[c] = call[c] /\ (c \in stopped' <=> c \in stopped)
         /\ \A c \in Call : \/ call'[c] = call[c]
                            \/ call[c] \in Over /\ call'[c] = "canceled"
BY DEF Drop, Typed, Outcomes

\* An attempt begins: side by side all its pages are posted.
LEMMA BeginIs ==
  ASSUME Typed, Begin, Here \subseteq Call
  PROVE  /\ call' \in [Call -> Outcomes] /\ pc' = "page" /\ next' = first
         /\ \A c \in Call : call'[c] = IF Concurrent /\ c \in Here THEN "connect" ELSE call[c]
         /\ UNCHANGED <<cancel, first, attempt, stopped, unready, tries, srv>>
BY DEF Begin, Typed, Outcomes, To, pageVars

\* An attempt fails: it is tried again, given up, or the job was cancelled.
LEMMA FailsIs ==
  ASSUME NEW why, Fails(why)
  PROVE  /\ Drop
         /\ \/ cancel /\ pc' = "canceled" /\ UNCHANGED <<first, attempt>>
            \/ attempt = 1 /\ pc' = "load" /\ attempt' = 2 /\ UNCHANGED first
            \/ pc' = "chunk" /\ first' = Last + 1 /\ UNCHANGED attempt
         /\ UNCHANGED next
         /\ unready' = (unready \/ (outages = 0 /\ why \in {"not ready", "unavailable"}))
BY DEF Fails, To

\* Every action keeps the types.
LEMMA TypedStep ==
  ASSUME Typed, PlaceIsRight, Next
  PROVE  Typed'
<1>a. first <= Pages /\ concurrency \in Nat \ {0} /\ first \in Nat \ {0} => Last \in first..Pages
  BY LastOfChunk
<1>b. UNCHANGED <<concurrency, first>> => Last' = Last
  BY DEF Last
<1>c. \A c \in Call : c \in Here <=> c[1] \in first..Last /\ c[2] = attempt
  BY HereIs
<1>d. UNCHANGED concurrency
  BY DEF Next, Fixed, Settled
<1>g. ~Settled
  BY DEF Next
<1>e. Pages \in Nat \ {0} /\ Retries \in Nat
  BY SidecarAssumption
<1>f. \A c \in Call : c[1] \in 1..Pages /\ c[2] \in 1..2
  BY DEF Call
<1> USE <1>d DEF Waiting, Working, provVars, healthVars, callVars, posVars, pageVars, jobVars,
        Outage, Up, Keep, To, Settle, Rest, Signal, Over, Typed
<1>1. CASE Start
  BY <1>1 DEF Start
<1>2. CASE LoadModel
  BY <1>2 DEF LoadModel, Loads
<1>3. CASE Crash
  <2>1. outages' \in Nat /\ prov' = "down" /\ srv' = Lost /\ UNCHANGED <<tries, call, stopped>>
    BY <1>3 DEF Crash
  <2>2. Lost \in [Call -> SrvStates]
    BY LostIs
  <2> QED
    BY <2>1, <2>2
<1>4. ASSUME NEW c \in Call, Infer(c) PROVE Typed'
  BY <1>4 DEF Infer, Inferences, SrvStates
<1>5. CASE PollMeasure
  BY <1>5, MeasureIs DEF PollMeasure, SrvStates
<1>6. CASE PollStore
  BY <1>6 DEF PollStore
<1>7. ASSUME NEW c \in Call, Post(c) PROVE Typed'
  <2>1. srv' \in {srv, [srv EXCEPT ![c] = "queued"], [srv EXCEPT ![c] = "refused"]}
    BY <1>7 DEF Post, Arrive
  <2>2. /\ call' \in [Call -> Outcomes] /\ tries' \in [Call -> Nat]
    <3>1. ASSUME NEW how \in {"canceled", "await"}, Ends(c, how) PROVE call' \in [Call -> Outcomes]
      BY <3>1, EndsIs DEF Outcomes
    <3>2. CASE TransportFails(c, "refused")
      BY <3>2, TransportFailsIs
    <3>3. CASE /\ Ends(c, "canceled") \/ Ends(c, "await")
               /\ tries' \in {tries, [tries EXCEPT ![c] = 0]}
      <4>1. tries' \in [Call -> Nat]
        BY <3>3
      <4> QED
        BY <3>1, <3>3, <4>1
    <3> QED
      BY <1>7, <3>2, <3>3 DEF Post
  <2>3. srv' \in [Call -> SrvStates]
    BY <2>1 DEF SrvStates
  <2> QED
    BY <1>7, <2>2, <2>3 DEF Post
<1>8. ASSUME NEW c \in Call, Answer(c) PROVE Typed'
  <2>1. "got" \in Outcomes /\ Ends(c, "got") /\ UNCHANGED <<provVars, stopped, tries, srv>>
    BY <1>8 DEF Answer, Outcomes
  <2> QED
    BY <2>1, EndsIs
<1>9. ASSUME NEW c \in Call, ReadTimeout(c) PROVE Typed'
  BY <1>9, TransportFailsIs DEF ReadTimeout, Abandon, SrvStates
<1>10. ASSUME NEW c \in Call, GiveUp(c) PROVE Typed'
  <2>1. "canceled" \in Outcomes /\ Ends(c, "canceled") /\ UNCHANGED <<provVars, stopped, tries>>
    BY <1>10 DEF GiveUp, Outcomes
  <2>2. srv' \in [Call -> SrvStates]
    BY <1>10 DEF GiveUp, Abandon, SrvStates
  <2> QED
    BY <2>1, <2>2, EndsIs
<1>11. ASSUME NEW c \in Call, Return(c) PROVE Typed'
  <2>1. srv' \in [Call -> SrvStates]
    BY <1>11, Zenon DEF Return, SrvStates
  <2>2. /\ call' \in [Call -> Outcomes] /\ tries' \in [Call -> Nat]
    <3>1. ASSUME NEW how \in {"ok", "not ready", "error"}, Ends(c, how), UNCHANGED tries PROVE <2>2!1
      BY <3>1, EndsIs DEF Outcomes
    <3> QED
      BY <1>11, <3>1, TransportFailsIs DEF Return
  <2> QED
    BY <1>11, <2>1, <2>2 DEF Return, SrvStates
<1>12. CASE Dequeue
  BY <1>12 DEF Dequeue
<1>13. CASE WaitCanceled
  BY <1>13 DEF WaitCanceled
<1>14. CASE WaitAsk
  BY <1>14, MeasureIs DEF WaitAsk, SrvStates, Ask
<1>15. CASE WaitAnswer
  BY <1>15 DEF WaitAnswer, Commit, Transient
<1>16. CASE ChunkHead
  BY <1>16 DEF ChunkHead
<1>17. CASE LoadCached
  <2>1. Here \subseteq Call
    BY <1>17, HereIsCalls DEF LoadCached
  <2> QED
    BY <1>17, <2>1, BeginIs DEF LoadCached
<1>18. CASE LoadAsk
  BY <1>18, MeasureIs DEF LoadAsk, SrvStates, Ask
<1>19. CASE LoadAnswer
  <2>1. Here \subseteq Call
    BY <1>19, HereIsCalls DEF LoadAnswer
  <2>2. CASE Begin
    BY <1>19, <2>1, <2>2, BeginIs DEF LoadAnswer
  <2>3. CASE \E why : Fails(why) /\ UNCHANGED <<cancel, tries, srv, late>>
    BY <1>19, <2>1, <2>3, FailsIs, DropIs DEF LoadAnswer
  <2> QED
    BY <1>19, <2>2, <2>3 DEF LoadAnswer
<1>20. CASE NextPage
  <2>1. Here \subseteq Call /\ Last \in first..Pages
    BY <1>20, HereIsCalls DEF NextPage
  <2>2. <<next, attempt>> \in Call
    <3>1. first <= next /\ next <= Last /\ {next, first, Pages} \subseteq Nat /\ first # 0
          /\ attempt \in 1..2
      BY <1>20, SidecarAssumption DEF NextPage, PlaceIsRight
    <3>2. next \in 1..Pages
      BY <2>1, <3>1
    <3> QED
      BY <3>1, <3>2 DEF Call
  <2>3. UNCHANGED <<provVars, tries, srv>>
    BY <1>20 DEF NextPage
  <2>4. CASE Drop
    BY <2>1, <2>3, <2>4, DropIs
  <2>5. CASE UNCHANGED <<call, stopped>>
    BY <2>3, <2>5
  <2>6. CASE Ends(<<next, attempt>>, "connect") /\ UNCHANGED stopped
    <3>1. PICK c \in Call : Ends(c, "connect")
      BY <2>2, <2>6
    <3>2. call' \in [Call -> Outcomes]
      BY <3>1, EndsIs DEF Outcomes
    <3> QED
      BY <2>3, <2>6, <3>2
  <2> QED
    BY <1>20, <2>4, <2>5, <2>6 DEF NextPage
<1>21. CASE EndChunk
  BY <1>21 DEF EndChunk
<1>22. ASSUME NEW c \in Call, TakePage(c) PROVE Typed'
  BY <1>22 DEF TakePage, Awaited
<1>23. ASSUME NEW c \in Call, PageRaises(c) PROVE Typed'
  <2>1. Here \subseteq Call
    BY <1>23, HereIsCalls DEF PageRaises
  <2>2. Drop
    BY <1>23, FailsIs DEF PageRaises
  <2> QED
    BY <1>23, <2>1, <2>2, DropIs DEF PageRaises
<1>24. CASE Deadline
  BY <1>24 DEF Deadline
<1>25. CASE CancelJob
  BY <1>25 DEF CancelJob
<1> HIDE <1>d
<1> QED
  BY <1>1, <1>2, <1>3, <1>4, <1>5, <1>6, <1>7, <1>8, <1>9, <1>10, <1>11, <1>12, <1>13, <1>14,
     <1>15, <1>16, <1>17, <1>18, <1>19, <1>20, <1>21, <1>22, <1>23, <1>24, <1>25 DEF Next,
     Service, Poller, Client, Worker

\* Every action leaves the worker at a place that makes sense.
LEMMA PlaceStep ==
  ASSUME Typed, PlaceIsRight, Next
  PROVE  PlaceIsRight'
<1>a. first <= Pages /\ concurrency \in Nat \ {0} /\ first \in Nat \ {0} => Last \in first..Pages
  BY LastOfChunk
<1>b. UNCHANGED <<concurrency, first>> => Last' = Last
  BY DEF Last
<1>c. \A c \in Call : c \in Here <=> c[1] \in first..Last /\ c[2] = attempt
  BY HereIs
<1>d. UNCHANGED concurrency
  BY DEF Next, Fixed, Settled
<1>g. ~Settled
  BY DEF Next
<1>e. Pages \in Nat \ {0} /\ Retries \in Nat
  BY SidecarAssumption
<1>f. \A c \in Call : c[1] \in 1..Pages /\ c[2] \in 1..2
  BY DEF Call
<1> USE <1>a, <1>b, <1>d, <1>e DEF Waiting, Working, provVars, healthVars, callVars, posVars,
        pageVars, jobVars, Outage, Up, Keep, To, Settle, Rest, Signal, Over, PlaceIsRight, Typed
<1>1. CASE Start
  BY <1>1 DEF Start
<1>2. CASE LoadModel
  BY <1>2 DEF LoadModel, Loads
<1>3. CASE Crash
  BY <1>3 DEF Crash, Lost
<1>4. ASSUME NEW c \in Call, Infer(c) PROVE PlaceIsRight'
  BY <1>4 DEF Infer, Inferences
<1>5. CASE PollMeasure
  BY <1>5 DEF PollMeasure, Measure, Health, Lost
<1>6. CASE PollStore
  BY <1>6 DEF PollStore
<1>7. ASSUME NEW c \in Call, Post(c) PROVE PlaceIsRight'
  BY <1>7 DEF Post, TransportFails, Ends, Arrive, PreSend
<1>8. ASSUME NEW c \in Call, Answer(c) PROVE PlaceIsRight'
  BY <1>8 DEF Answer, Ends
<1>9. ASSUME NEW c \in Call, ReadTimeout(c) PROVE PlaceIsRight'
  BY <1>9 DEF ReadTimeout, TransportFails, Ends, Abandon, PreSend
<1>10. ASSUME NEW c \in Call, GiveUp(c) PROVE PlaceIsRight'
  BY <1>10 DEF GiveUp, Ends, Abandon
<1>11. ASSUME NEW c \in Call, Return(c) PROVE PlaceIsRight'
  BY <1>11 DEF Return, TransportFails, Ends, PreSend
<1>12. CASE Dequeue
  BY <1>12 DEF Dequeue
<1>13. CASE WaitCanceled
  BY <1>13 DEF WaitCanceled
<1>14. CASE WaitAsk
  BY <1>14 DEF WaitAsk, Ask, Measure, Health, Lost
<1>15. CASE WaitAnswer
  BY <1>15 DEF WaitAnswer, Commit, Transient
<1>16. CASE ChunkHead
  BY <1>16 DEF ChunkHead
<1>17. CASE LoadCached
  BY <1>17 DEF LoadCached, Begin, Concurrent
<1>18. CASE LoadAsk
  BY <1>18 DEF LoadAsk, Ask, Measure, Health, Lost
<1>19. CASE LoadAnswer
  <2>1. Here \subseteq Call /\ Last \in first..Pages
    BY <1>19, HereIsCalls DEF LoadAnswer
  <2>0. pc = "loading"
    BY <1>19 DEF LoadAnswer
  <2>2. ASSUME Begin PROVE PlaceIsRight'
    <3>1. /\ pc' = "page" /\ next' = first /\ Last' = Last
          /\ \A c \in Call : call'[c] = IF Concurrent /\ c \in Here THEN "connect" ELSE call[c]
          /\ UNCHANGED <<cancel, first, attempt, stopped, srv>>
      BY <2>1, <2>2, BeginIs
    <3> QED
      BY <2>0, <2>1, <3>1
  <2>3. ASSUME NEW why, Fails(why), UNCHANGED <<cancel, tries, srv>> PROVE PlaceIsRight'
    <3>1. UNCHANGED next
      BY <2>3, FailsIs
    <3>2. CASE cancel /\ pc' = "canceled" /\ UNCHANGED <<first, attempt>>
      BY <2>0, <2>1, <3>1, <3>2
    <3>3. CASE attempt = 1 /\ pc' = "load" /\ attempt' = 2 /\ UNCHANGED first
      BY <2>0, <2>1, <3>1, <3>3
    <3>4. CASE pc' = "chunk" /\ first' = Last + 1 /\ UNCHANGED attempt
      BY <2>0, <2>1, <3>1, <3>4
    <3> QED
      BY <2>3, <3>2, <3>3, <3>4, FailsIs
  <2> QED
    BY <1>19, <2>2, <2>3 DEF LoadAnswer
<1>20. CASE NextPage
  BY <1>20 DEF NextPage, Drop, Concurrent, Ends
<1>21. CASE EndChunk
  BY <1>21 DEF EndChunk
<1>22. ASSUME NEW c \in Call, TakePage(c) PROVE PlaceIsRight'
  BY <1>22 DEF TakePage, Awaited
<1>23. ASSUME NEW c \in Call, PageRaises(c) PROVE PlaceIsRight'
  <2>1. Here \subseteq Call /\ Last \in first..Pages
    BY <1>23, HereIsCalls DEF PageRaises
  <2>0. pc = "result" /\ c \in Here /\ UNCHANGED <<cancel, tries, srv>>
    <3>1. pc = "result" /\ c = <<next, attempt>> /\ UNCHANGED <<cancel, tries, srv>>
      BY <1>23 DEF PageRaises, Awaited
    <3>2. next \in first..Last
      BY <2>1, <3>1 DEF PlaceIsRight
    <3> QED
      BY <3>1, <3>2 DEF Here, Chunk
  <2>2. CASE /\ call[c] = "canceled" /\ pc' = "canceled" /\ Drop
             /\ UNCHANGED <<first, attempt, next>>
    BY <2>0, <2>1, <2>2, DropIs
  <2>3. CASE Fails(call[c])
    <3>1. UNCHANGED next
      BY <2>3, FailsIs
    <3>2. CASE cancel /\ pc' = "canceled" /\ UNCHANGED <<first, attempt>>
      BY <2>0, <2>1, <3>1, <3>2
    <3>3. CASE attempt = 1 /\ pc' = "load" /\ attempt' = 2 /\ UNCHANGED first
      BY <2>0, <2>1, <3>1, <3>3
    <3>4. CASE pc' = "chunk" /\ first' = Last + 1 /\ UNCHANGED attempt
      BY <2>0, <2>1, <3>1, <3>4
    <3> QED
      BY <2>3, <3>2, <3>3, <3>4, FailsIs
  <2> QED
    BY <1>23, <2>2, <2>3 DEF PageRaises
<1>24. CASE Deadline
  BY <1>24 DEF Deadline
<1>25. CASE CancelJob
  BY <1>25 DEF CancelJob
<1> HIDE <1>a, <1>b, <1>d, <1>e
<1> QED
  BY <1>1, <1>2, <1>3, <1>4, <1>5, <1>6, <1>7, <1>8, <1>9, <1>10, <1>11, <1>12, <1>13, <1>14,
     <1>15, <1>16, <1>17, <1>18, <1>19, <1>20, <1>21, <1>22, <1>23, <1>24, <1>25 DEF Next,
     Service, Poller, Client, Worker

\* Every action leaves the calls to come untouched.
LEMMA ComingStep ==
  ASSUME Typed, PlaceIsRight, ComingIsNew, Next
  PROVE  ComingIsNew'
<1>a. first <= Pages /\ concurrency \in Nat \ {0} /\ first \in Nat \ {0} => Last \in first..Pages
  BY LastOfChunk
<1>b. UNCHANGED <<concurrency, first>> => Last' = Last
  BY DEF Last
<1>c. \A c \in Call : c \in Here <=> c[1] \in first..Last /\ c[2] = attempt
  BY HereIs
<1>d. UNCHANGED concurrency
  BY DEF Next, Fixed, Settled
<1>g. ~Settled
  BY DEF Next
<1>e. Pages \in Nat \ {0} /\ Retries \in Nat
  BY SidecarAssumption
<1>f. \A c \in Call : c[1] \in 1..Pages /\ c[2] \in 1..2
  BY DEF Call
<1> USE <1>a, <1>b, <1>c, <1>d, <1>e, <1>f DEF Waiting, Working, provVars, healthVars, callVars,
        posVars, pageVars, jobVars, Outage, Up, Keep, To, Settle, Rest, Signal, Over, Typed,
        PlaceIsRight, ComingIsNew, Coming, Concurrent
<1>1. CASE Start
  BY <1>1 DEF Start
<1>2. CASE LoadModel
  BY <1>2 DEF LoadModel, Loads
<1>3. CASE Crash
  BY <1>3 DEF Crash, Lost
<1>4. ASSUME NEW c \in Call, Infer(c) PROVE ComingIsNew'
  BY <1>4 DEF Infer, Inferences
<1>5. CASE PollMeasure
  BY <1>5 DEF PollMeasure, Measure, Health, Lost
<1>6. CASE PollStore
  BY <1>6 DEF PollStore
<1>7. ASSUME NEW c \in Call, Post(c) PROVE ComingIsNew'
  BY <1>7 DEF Post, TransportFails, Ends, Arrive, PreSend
<1>8. ASSUME NEW c \in Call, Answer(c) PROVE ComingIsNew'
  BY <1>8 DEF Answer, Ends
<1>9. ASSUME NEW c \in Call, ReadTimeout(c) PROVE ComingIsNew'
  BY <1>9 DEF ReadTimeout, TransportFails, Ends, Abandon, PreSend
<1>10. ASSUME NEW c \in Call, GiveUp(c) PROVE ComingIsNew'
  BY <1>10 DEF GiveUp, Ends, Abandon
<1>11. ASSUME NEW c \in Call, Return(c) PROVE ComingIsNew'
  BY <1>11 DEF Return, TransportFails, Ends, PreSend
<1>12. CASE Dequeue
  BY <1>12 DEF Dequeue
<1>13. CASE WaitCanceled
  BY <1>13 DEF WaitCanceled
<1>14. CASE WaitAsk
  BY <1>14 DEF WaitAsk, Ask, Measure, Health, Lost
<1>15. CASE WaitAnswer
  BY <1>15 DEF WaitAnswer, Commit, Transient
<1>16. CASE ChunkHead
  BY <1>16 DEF ChunkHead
<1>17. CASE LoadCached
  BY <1>17 DEF LoadCached, Begin, Concurrent
<1>18. CASE LoadAsk
  BY <1>18 DEF LoadAsk, Ask, Measure, Health, Lost
<1>19. CASE LoadAnswer
  <2>1. Here \subseteq Call /\ Last \in first..Pages
    BY <1>19, HereIsCalls DEF LoadAnswer
  <2>0. pc = "loading"
    BY <1>19 DEF LoadAnswer
  <2>2. ASSUME Begin PROVE ComingIsNew'
    <3>1. /\ pc' = "page" /\ next' = first /\ Last' = Last
          /\ \A c \in Call : call'[c] = IF Concurrent /\ c \in Here THEN "connect" ELSE call[c]
          /\ UNCHANGED <<cancel, first, attempt, stopped, srv>>
      BY <2>1, <2>2, BeginIs
    <3> QED
      BY <2>0, <2>1, <3>1
  <2>3. ASSUME NEW why, Fails(why), UNCHANGED <<cancel, tries, srv>> PROVE ComingIsNew'
    <3>1. /\ \A d \in Call \ Here : call'[d] = call[d] /\ (d \in stopped' <=> d \in stopped)
          /\ \A d \in Call : call'[d] = call[d] \/ (call[d] \in Over /\ call'[d] = "canceled")
          /\ UNCHANGED <<next, cancel, srv>>
      BY <2>0, <2>1, <2>3, FailsIs, DropIs
    <3>2. CASE cancel /\ pc' = "canceled" /\ UNCHANGED <<first, attempt>>
      BY <2>0, <2>1, <3>1, <3>2
    <3>3. CASE attempt = 1 /\ pc' = "load" /\ attempt' = 2 /\ UNCHANGED first
      <4> SUFFICES ASSUME NEW d \in Call, Coming(d)' PROVE call'[d] = "none" /\ d \notin stopped'
        BY DEF ComingIsNew
      <4>1. Coming(d) /\ d \notin Here
        BY <2>0, <2>1, <3>3
      <4> QED
        BY <3>1, <4>1
    <3>4. CASE pc' = "chunk" /\ first' = Last + 1 /\ UNCHANGED attempt
      <4> SUFFICES ASSUME NEW d \in Call, Coming(d)' PROVE call'[d] = "none" /\ d \notin stopped'
        BY DEF ComingIsNew
      <4>1. Coming(d) /\ d \notin Here
        BY <2>0, <2>1, <3>4
      <4> QED
        BY <3>1, <4>1
    <3> QED
      BY <2>3, <3>2, <3>3, <3>4, FailsIs
  <2> QED
    BY <1>19, <2>2, <2>3 DEF LoadAnswer
<1>20. CASE NextPage
  <2>1. Here \subseteq Call /\ Last \in first..Pages
    BY <1>20, HereIsCalls DEF NextPage
  <2>2. CASE cancel
    BY <1>20, <2>1, <2>2, DropIs DEF NextPage
  <2>3. CASE ~cancel
    BY <1>20, <2>1, <2>3 DEF NextPage, Ends, Concurrent
  <2> QED
    BY <2>2, <2>3
<1>21. CASE EndChunk
  BY <1>21 DEF EndChunk
<1>22. ASSUME NEW c \in Call, TakePage(c) PROVE ComingIsNew'
  BY <1>22 DEF TakePage, Awaited
<1>23. ASSUME NEW c \in Call, PageRaises(c) PROVE ComingIsNew'
  <2>1. Here \subseteq Call /\ Last \in first..Pages
    BY <1>23, HereIsCalls DEF PageRaises
  <2>0. pc = "result" /\ c \in Here /\ UNCHANGED <<cancel, tries, srv>>
    <3>1. pc = "result" /\ c = <<next, attempt>> /\ UNCHANGED <<cancel, tries, srv>>
      BY <1>23 DEF PageRaises, Awaited
    <3>2. next \in first..Last
      BY <2>1, <3>1 DEF PlaceIsRight
    <3> QED
      BY <3>1, <3>2 DEF Here, Chunk
  <2>2. CASE /\ call[c] = "canceled" /\ pc' = "canceled" /\ Drop
             /\ UNCHANGED <<first, attempt, next>>
    BY <2>0, <2>1, <2>2, DropIs
  <2>3. CASE Fails(call[c])
    <3>1. /\ \A d \in Call \ Here : call'[d] = call[d] /\ (d \in stopped' <=> d \in stopped)
          /\ \A d \in Call : call'[d] = call[d] \/ (call[d] \in Over /\ call'[d] = "canceled")
          /\ UNCHANGED <<next, cancel, srv>>
      BY <2>0, <2>1, <2>3, FailsIs, DropIs
    <3>2. CASE cancel /\ pc' = "canceled" /\ UNCHANGED <<first, attempt>>
      BY <2>0, <2>1, <3>1, <3>2
    <3>3. CASE attempt = 1 /\ pc' = "load" /\ attempt' = 2 /\ UNCHANGED first
      <4> SUFFICES ASSUME NEW d \in Call, Coming(d)' PROVE call'[d] = "none" /\ d \notin stopped'
        BY DEF ComingIsNew
      <4>1. Coming(d) /\ d \notin Here
        BY <2>0, <2>1, <3>3
      <4> QED
        BY <3>1, <4>1
    <3>4. CASE pc' = "chunk" /\ first' = Last + 1 /\ UNCHANGED attempt
      <4> SUFFICES ASSUME NEW d \in Call, Coming(d)' PROVE call'[d] = "none" /\ d \notin stopped'
        BY DEF ComingIsNew
      <4>1. Coming(d) /\ d \notin Here
        BY <2>0, <2>1, <3>4
      <4> QED
        BY <3>1, <4>1
    <3> QED
      BY <2>3, <3>2, <3>3, <3>4, FailsIs
  <2> QED
    BY <1>23, <2>2, <2>3 DEF PageRaises
<1>24. CASE Deadline
  BY <1>24 DEF Deadline
<1>25. CASE CancelJob
  BY <1>25 DEF CancelJob
<1> HIDE <1>a, <1>b, <1>c, <1>d, <1>e, <1>f
<1> QED
  BY <1>1, <1>2, <1>3, <1>4, <1>5, <1>6, <1>7, <1>8, <1>9, <1>10, <1>11, <1>12, <1>13, <1>14,
     <1>15, <1>16, <1>17, <1>18, <1>19, <1>20, <1>21, <1>22, <1>23, <1>24, <1>25 DEF Next,
     Service, Poller, Client, Worker

\* Every action leaves what was not sent unknown to the service.
LEMMA UnsentStep ==
  ASSUME Typed, PlaceIsRight, ComingIsNew, UnsentIsUnknown, Next
  PROVE  UnsentIsUnknown'
<1>a. first <= Pages /\ concurrency \in Nat \ {0} /\ first \in Nat \ {0} => Last \in first..Pages
  BY LastOfChunk
<1>b. UNCHANGED <<concurrency, first>> => Last' = Last
  BY DEF Last
<1>c. \A c \in Call : c \in Here <=> c[1] \in first..Last /\ c[2] = attempt
  BY HereIs
<1>d. UNCHANGED concurrency
  BY DEF Next, Fixed, Settled
<1>g. ~Settled
  BY DEF Next
<1>e. Pages \in Nat \ {0} /\ Retries \in Nat
  BY SidecarAssumption
<1>f. \A c \in Call : c[1] \in 1..Pages /\ c[2] \in 1..2
  BY DEF Call
<1> USE <1>a, <1>b, <1>c, <1>d, <1>e, <1>f DEF Waiting, Working, provVars, healthVars, callVars,
        posVars, pageVars, jobVars, Outage, Up, Keep, To, Settle, Rest, Signal, Over, Typed,
        PlaceIsRight, UnsentIsUnknown, ComingIsNew, Coming
<1>1. CASE Start
  BY <1>1 DEF Start
<1>2. CASE LoadModel
  BY <1>2 DEF LoadModel, Loads
<1>3. CASE Crash
  BY <1>3 DEF Crash, Lost
<1>4. ASSUME NEW c \in Call, Infer(c) PROVE UnsentIsUnknown'
  BY <1>4 DEF Infer, Inferences
<1>5. CASE PollMeasure
  BY <1>5 DEF PollMeasure, Measure, Health, Lost
<1>6. CASE PollStore
  BY <1>6 DEF PollStore
<1>7. ASSUME NEW c \in Call, Post(c) PROVE UnsentIsUnknown'
  BY <1>7 DEF Post, TransportFails, Ends, Arrive, PreSend
<1>8. ASSUME NEW c \in Call, Answer(c) PROVE UnsentIsUnknown'
  BY <1>8 DEF Answer, Ends
<1>9. ASSUME NEW c \in Call, ReadTimeout(c) PROVE UnsentIsUnknown'
  BY <1>9 DEF ReadTimeout, TransportFails, Ends, Abandon, PreSend
<1>10. ASSUME NEW c \in Call, GiveUp(c) PROVE UnsentIsUnknown'
  BY <1>10 DEF GiveUp, Ends, Abandon
<1>11. ASSUME NEW c \in Call, Return(c) PROVE UnsentIsUnknown'
  BY <1>11 DEF Return, TransportFails, Ends, PreSend
<1>12. CASE Dequeue
  BY <1>12 DEF Dequeue
<1>13. CASE WaitCanceled
  BY <1>13 DEF WaitCanceled
<1>14. CASE WaitAsk
  BY <1>14 DEF WaitAsk, Ask, Measure, Health, Lost
<1>15. CASE WaitAnswer
  BY <1>15 DEF WaitAnswer, Commit, Transient
<1>16. CASE ChunkHead
  BY <1>16 DEF ChunkHead
<1>17. CASE LoadCached
  BY <1>17 DEF LoadCached, Begin, Concurrent
<1>18. CASE LoadAsk
  BY <1>18 DEF LoadAsk, Ask, Measure, Health, Lost
<1>19. CASE LoadAnswer
  <2>1. Here \subseteq Call /\ Last \in first..Pages
    BY <1>19, HereIsCalls DEF LoadAnswer
  <2>0. pc = "loading"
    BY <1>19 DEF LoadAnswer
  <2>2. ASSUME Begin PROVE UnsentIsUnknown'
    <3>1. /\ pc' = "page" /\ next' = first /\ Last' = Last
          /\ \A c \in Call : call'[c] = IF Concurrent /\ c \in Here THEN "connect" ELSE call[c]
          /\ UNCHANGED <<cancel, first, attempt, stopped, srv>>
      BY <2>1, <2>2, BeginIs
    <3> QED
      BY <2>0, <2>1, <3>1
  <2>3. ASSUME NEW why, Fails(why), UNCHANGED <<cancel, tries, srv>> PROVE UnsentIsUnknown'
    <3>1. /\ \A d \in Call \ Here : call'[d] = call[d] /\ (d \in stopped' <=> d \in stopped)
          /\ \A d \in Call : call'[d] = call[d] \/ (call[d] \in Over /\ call'[d] = "canceled")
          /\ UNCHANGED <<next, cancel, srv>>
      BY <2>0, <2>1, <2>3, FailsIs, DropIs
    <3>2. CASE cancel /\ pc' = "canceled" /\ UNCHANGED <<first, attempt>>
      BY <2>0, <2>1, <3>1, <3>2
    <3>3. CASE attempt = 1 /\ pc' = "load" /\ attempt' = 2 /\ UNCHANGED first
      BY <2>0, <2>1, <3>1, <3>3
    <3>4. CASE pc' = "chunk" /\ first' = Last + 1 /\ UNCHANGED attempt
      BY <2>0, <2>1, <3>1, <3>4
    <3> QED
      BY <2>3, <3>2, <3>3, <3>4, FailsIs
  <2> QED
    BY <1>19, <2>2, <2>3 DEF LoadAnswer
<1>20. CASE NextPage
  <2>1. Here \subseteq Call /\ Last \in first..Pages
    BY <1>20, HereIsCalls DEF NextPage
  <2>2. CASE cancel
    BY <1>20, <2>1, <2>2, DropIs DEF NextPage
  <2>3. CASE ~cancel
    BY <1>20, <2>1, <2>3 DEF NextPage, Ends, Concurrent
  <2> QED
    BY <2>2, <2>3
<1>21. CASE EndChunk
  BY <1>21 DEF EndChunk
<1>22. ASSUME NEW c \in Call, TakePage(c) PROVE UnsentIsUnknown'
  BY <1>22 DEF TakePage, Awaited
<1>23. ASSUME NEW c \in Call, PageRaises(c) PROVE UnsentIsUnknown'
  <2>1. Here \subseteq Call /\ Last \in first..Pages
    BY <1>23, HereIsCalls DEF PageRaises
  <2>0. pc = "result" /\ c \in Here /\ UNCHANGED <<cancel, tries, srv>>
    <3>1. pc = "result" /\ c = <<next, attempt>> /\ UNCHANGED <<cancel, tries, srv>>
      BY <1>23 DEF PageRaises, Awaited
    <3>2. next \in first..Last
      BY <2>1, <3>1 DEF PlaceIsRight
    <3> QED
      BY <3>1, <3>2 DEF Here, Chunk
  <2>2. CASE /\ call[c] = "canceled" /\ pc' = "canceled" /\ Drop
             /\ UNCHANGED <<first, attempt, next>>
    BY <2>0, <2>1, <2>2, DropIs
  <2>3. CASE Fails(call[c])
    <3>1. /\ \A d \in Call \ Here : call'[d] = call[d] /\ (d \in stopped' <=> d \in stopped)
          /\ \A d \in Call : call'[d] = call[d] \/ (call[d] \in Over /\ call'[d] = "canceled")
          /\ UNCHANGED <<next, cancel, srv>>
      BY <2>0, <2>1, <2>3, FailsIs, DropIs
    <3>2. CASE cancel /\ pc' = "canceled" /\ UNCHANGED <<first, attempt>>
      BY <2>0, <2>1, <3>1, <3>2
    <3>3. CASE attempt = 1 /\ pc' = "load" /\ attempt' = 2 /\ UNCHANGED first
      BY <2>0, <2>1, <3>1, <3>3
    <3>4. CASE pc' = "chunk" /\ first' = Last + 1 /\ UNCHANGED attempt
      BY <2>0, <2>1, <3>1, <3>4
    <3> QED
      BY <2>3, <3>2, <3>3, <3>4, FailsIs
  <2> QED
    BY <1>23, <2>2, <2>3 DEF PageRaises
<1>24. CASE Deadline
  BY <1>24 DEF Deadline
<1>25. CASE CancelJob
  BY <1>25 DEF CancelJob
<1> HIDE <1>a, <1>b, <1>c, <1>d, <1>e, <1>f
<1> QED
  BY <1>1, <1>2, <1>3, <1>4, <1>5, <1>6, <1>7, <1>8, <1>9, <1>10, <1>11, <1>12, <1>13, <1>14,
     <1>15, <1>16, <1>17, <1>18, <1>19, <1>20, <1>21, <1>22, <1>23, <1>24, <1>25 DEF Next,
     Service, Poller, Client, Worker

\* No action cancels a call of the attempt at hand unless the user cancelled.
LEMMA CanceledStep ==
  ASSUME Typed, PlaceIsRight, ComingIsNew, CanceledByUser, Next
  PROVE  CanceledByUser'
<1>a. first <= Pages /\ concurrency \in Nat \ {0} /\ first \in Nat \ {0} => Last \in first..Pages
  BY LastOfChunk
<1>b. UNCHANGED <<concurrency, first>> => Last' = Last
  BY DEF Last
<1>c. \A c \in Call : c \in Here <=> c[1] \in first..Last /\ c[2] = attempt
  BY HereIs
<1>d. UNCHANGED concurrency
  BY DEF Next, Fixed, Settled
<1>g. ~Settled
  BY DEF Next
<1>e. Pages \in Nat \ {0} /\ Retries \in Nat
  BY SidecarAssumption
<1>f. \A c \in Call : c[1] \in 1..Pages /\ c[2] \in 1..2
  BY DEF Call
<1> USE <1>a, <1>b, <1>c, <1>d, <1>e, <1>f DEF Waiting, Working, provVars, healthVars, callVars,
        posVars, pageVars, jobVars, Outage, Up, Keep, To, Settle, Rest, Signal, Over, Typed,
        PlaceIsRight, CanceledByUser, ComingIsNew, Coming
<1>1. CASE Start
  BY <1>1 DEF Start
<1>2. CASE LoadModel
  BY <1>2 DEF LoadModel, Loads
<1>3. CASE Crash
  BY <1>3 DEF Crash, Lost
<1>4. ASSUME NEW c \in Call, Infer(c) PROVE CanceledByUser'
  BY <1>4 DEF Infer, Inferences
<1>5. CASE PollMeasure
  BY <1>5 DEF PollMeasure, Measure, Health, Lost
<1>6. CASE PollStore
  BY <1>6 DEF PollStore
<1>7. ASSUME NEW c \in Call, Post(c) PROVE CanceledByUser'
  BY <1>7 DEF Post, TransportFails, Ends, Arrive, PreSend
<1>8. ASSUME NEW c \in Call, Answer(c) PROVE CanceledByUser'
  BY <1>8 DEF Answer, Ends
<1>9. ASSUME NEW c \in Call, ReadTimeout(c) PROVE CanceledByUser'
  BY <1>9 DEF ReadTimeout, TransportFails, Ends, Abandon, PreSend
<1>10. ASSUME NEW c \in Call, GiveUp(c) PROVE CanceledByUser'
  BY <1>10 DEF GiveUp, Ends, Abandon
<1>11. ASSUME NEW c \in Call, Return(c) PROVE CanceledByUser'
  BY <1>11 DEF Return, TransportFails, Ends, PreSend
<1>12. CASE Dequeue
  BY <1>12 DEF Dequeue
<1>13. CASE WaitCanceled
  BY <1>13 DEF WaitCanceled
<1>14. CASE WaitAsk
  BY <1>14 DEF WaitAsk, Ask, Measure, Health, Lost
<1>15. CASE WaitAnswer
  BY <1>15 DEF WaitAnswer, Commit, Transient
<1>16. CASE ChunkHead
  BY <1>16 DEF ChunkHead
<1>17. CASE LoadCached
  BY <1>17 DEF LoadCached, Begin, Concurrent
<1>18. CASE LoadAsk
  BY <1>18 DEF LoadAsk, Ask, Measure, Health, Lost
<1>19. CASE LoadAnswer
  <2>1. Here \subseteq Call /\ Last \in first..Pages
    BY <1>19, HereIsCalls DEF LoadAnswer
  <2>0. pc = "loading"
    BY <1>19 DEF LoadAnswer
  <2>2. ASSUME Begin PROVE CanceledByUser'
    <3>1. /\ pc' = "page" /\ next' = first /\ Last' = Last
          /\ \A c \in Call : call'[c] = IF Concurrent /\ c \in Here THEN "connect" ELSE call[c]
          /\ UNCHANGED <<cancel, first, attempt, stopped, srv>>
      BY <2>1, <2>2, BeginIs
    <3> QED
      BY <2>0, <2>1, <3>1
  <2>3. ASSUME NEW why, Fails(why), UNCHANGED <<cancel, tries, srv>> PROVE CanceledByUser'
    <3>1. /\ \A d \in Call \ Here : call'[d] = call[d] /\ (d \in stopped' <=> d \in stopped)
          /\ \A d \in Call : call'[d] = call[d] \/ (call[d] \in Over /\ call'[d] = "canceled")
          /\ UNCHANGED <<next, cancel, srv>>
      BY <2>0, <2>1, <2>3, FailsIs, DropIs
    <3>2. CASE cancel /\ pc' = "canceled" /\ UNCHANGED <<first, attempt>>
      BY <2>0, <2>1, <3>1, <3>2
    <3>3. CASE attempt = 1 /\ pc' = "load" /\ attempt' = 2 /\ UNCHANGED first
      BY <2>0, <2>1, <3>1, <3>3
    <3>4. CASE pc' = "chunk" /\ first' = Last + 1 /\ UNCHANGED attempt
      BY <2>0, <2>1, <3>1, <3>4
    <3> QED
      BY <2>3, <3>2, <3>3, <3>4, FailsIs
  <2> QED
    BY <1>19, <2>2, <2>3 DEF LoadAnswer
<1>20. CASE NextPage
  <2>1. Here \subseteq Call /\ Last \in first..Pages
    BY <1>20, HereIsCalls DEF NextPage
  <2>2. CASE cancel
    BY <1>20, <2>1, <2>2, DropIs DEF NextPage
  <2>3. CASE ~cancel
    BY <1>20, <2>1, <2>3 DEF NextPage, Ends, Concurrent
  <2> QED
    BY <2>2, <2>3
<1>21. CASE EndChunk
  BY <1>21 DEF EndChunk
<1>22. ASSUME NEW c \in Call, TakePage(c) PROVE CanceledByUser'
  BY <1>22 DEF TakePage, Awaited
<1>23. ASSUME NEW c \in Call, PageRaises(c) PROVE CanceledByUser'
  <2>1. Here \subseteq Call /\ Last \in first..Pages
    BY <1>23, HereIsCalls DEF PageRaises
  <2>0. pc = "result" /\ c \in Here /\ UNCHANGED <<cancel, tries, srv>>
    <3>1. pc = "result" /\ c = <<next, attempt>> /\ UNCHANGED <<cancel, tries, srv>>
      BY <1>23 DEF PageRaises, Awaited
    <3>2. next \in first..Last
      BY <2>1, <3>1 DEF PlaceIsRight
    <3> QED
      BY <3>1, <3>2 DEF Here, Chunk
  <2>2. CASE /\ call[c] = "canceled" /\ pc' = "canceled" /\ Drop
             /\ UNCHANGED <<first, attempt, next>>
    BY <2>0, <2>1, <2>2, DropIs
  <2>3. CASE Fails(call[c])
    <3>1. /\ \A d \in Call \ Here : call'[d] = call[d] /\ (d \in stopped' <=> d \in stopped)
          /\ \A d \in Call : call'[d] = call[d] \/ (call[d] \in Over /\ call'[d] = "canceled")
          /\ UNCHANGED <<next, cancel, srv>>
      BY <2>0, <2>1, <2>3, FailsIs, DropIs
    <3>2. CASE cancel /\ pc' = "canceled" /\ UNCHANGED <<first, attempt>>
      BY <2>0, <2>1, <3>1, <3>2
    <3>3. CASE attempt = 1 /\ pc' = "load" /\ attempt' = 2 /\ UNCHANGED first
      BY <2>0, <2>1, <3>1, <3>3
    <3>4. CASE pc' = "chunk" /\ first' = Last + 1 /\ UNCHANGED attempt
      BY <2>0, <2>1, <3>1, <3>4
    <3> QED
      BY <2>3, <3>2, <3>3, <3>4, FailsIs
  <2> QED
    BY <1>23, <2>2, <2>3 DEF PageRaises
<1>24. CASE Deadline
  BY <1>24 DEF Deadline
<1>25. CASE CancelJob
  BY <1>25 DEF CancelJob
<1> HIDE <1>a, <1>b, <1>c, <1>d, <1>e, <1>f
<1> QED
  BY <1>1, <1>2, <1>3, <1>4, <1>5, <1>6, <1>7, <1>8, <1>9, <1>10, <1>11, <1>12, <1>13, <1>14,
     <1>15, <1>16, <1>17, <1>18, <1>19, <1>20, <1>21, <1>22, <1>23, <1>24, <1>25 DEF Next,
     Service, Poller, Client, Worker

\* Every action keeps what is known of the model true until the first outage.
LEMMA LoadedStep ==
  ASSUME Typed, PlaceIsRight, ComingIsNew, CanceledByUser, LoadedIsTrue, FirstStartWaits, Next
  PROVE  LoadedIsTrue' /\ FirstStartWaits'
<1>a. first <= Pages /\ concurrency \in Nat \ {0} /\ first \in Nat \ {0} => Last \in first..Pages
  BY LastOfChunk
<1>b. UNCHANGED <<concurrency, first>> => Last' = Last
  BY DEF Last
<1>c. \A c \in Call : c \in Here <=> c[1] \in first..Last /\ c[2] = attempt
  BY HereIs
<1>d. UNCHANGED concurrency
  BY DEF Next, Fixed, Settled
<1>g. ~Settled
  BY DEF Next
<1>e. Pages \in Nat \ {0} /\ Retries \in Nat
  BY SidecarAssumption
<1>f. \A c \in Call : c[1] \in 1..Pages /\ c[2] \in 1..2
  BY DEF Call
<1> USE <1>d DEF Waiting, Working, provVars, healthVars, callVars, posVars, pageVars, jobVars,
        Outage, Up, Keep, To, Settle, Rest, Signal, Over, Typed, PlaceIsRight, LoadedIsTrue,
        FirstStartWaits
<1>1. CASE Start
  BY <1>1 DEF Start
<1>2. CASE LoadModel
  BY <1>2 DEF LoadModel, Loads
<1>3. CASE Crash
  <2>1. outages' # 0 /\ UNCHANGED unready
    BY <1>3, OutageCounts DEF Crash
  <2> QED
    BY <2>1
<1>4. ASSUME NEW c \in Call, Infer(c) PROVE LoadedIsTrue' /\ FirstStartWaits'
  BY <1>4 DEF Infer, Inferences
<1>5. CASE PollMeasure
  BY <1>5, MeasureIs, LostIs DEF PollMeasure, Health
<1>6. CASE PollStore
  BY <1>6 DEF PollStore
<1>7. ASSUME NEW c \in Call, Post(c) PROVE LoadedIsTrue' /\ FirstStartWaits'
  <2> SUFFICES ASSUME outages = 0 PROVE LoadedIsTrue' /\ FirstStartWaits'
    BY <1>7 DEF Post
  <2>1. prov = "loaded"
    <3>1. ~Coming(c)
      BY <1>7 DEF Post, ComingIsNew
    <3>2. pc \in Working
      BY <1>g, <3>1 DEF Coming, Settled
    <3> QED
      BY <3>2
  <2>2. UNCHANGED <<provVars, healthVars, jobVars>> /\ (Ends(c, "canceled") \/ Ends(c, "await"))
    BY <1>7, <2>1 DEF Post
  <2>3. call' \in [Call -> Outcomes] /\ call'[c] \in {"await", "canceled"}
        /\ \A d \in Call \ {c} : call'[d] = call[d]
    BY <2>2, EndsIs DEF Outcomes, Over
  <2>4. srv' = srv \/ srv' = [srv EXCEPT ![c] = "queued"]
    BY <1>7, <2>1 DEF Post, Arrive
  <2>5. \A d \in Call : srv'[d] \notin {"refused", "lost"}
    BY <2>4
  <2> QED
    BY <2>2, <2>3, <2>5
<1>8. ASSUME NEW c \in Call, Answer(c) PROVE LoadedIsTrue' /\ FirstStartWaits'
  BY <1>8 DEF Answer, Ends
<1>9. ASSUME NEW c \in Call, ReadTimeout(c) PROVE LoadedIsTrue' /\ FirstStartWaits'
  BY <1>9 DEF ReadTimeout, TransportFails, Ends, Abandon, PreSend
<1>10. ASSUME NEW c \in Call, GiveUp(c) PROVE LoadedIsTrue' /\ FirstStartWaits'
  BY <1>10 DEF GiveUp, Ends, Abandon
<1>11. ASSUME NEW c \in Call, Return(c) PROVE LoadedIsTrue' /\ FirstStartWaits'
  BY <1>11 DEF Return, TransportFails, Ends, PreSend
<1>12. CASE Dequeue
  BY <1>12 DEF Dequeue
<1>13. CASE WaitCanceled
  BY <1>13 DEF WaitCanceled
<1>14. CASE WaitAsk
  BY <1>14, MeasureIs, LostIs DEF WaitAsk, Health, Ask
<1>15. CASE WaitAnswer
  BY <1>15 DEF WaitAnswer, Commit, Transient
<1>16. CASE ChunkHead
  BY <1>16 DEF ChunkHead
<1>17. CASE LoadCached
  BY <1>17 DEF LoadCached, Begin, Concurrent
<1>18. CASE LoadAsk
  BY <1>18, MeasureIs, LostIs DEF LoadAsk, Health, Ask
<1>19. CASE LoadAnswer
  <2>1. /\ pc = "loading" /\ Commit(seen) /\ UNCHANGED provVars /\ Here \subseteq Call
        /\ \/ seen = "loaded" /\ Begin
           \/ seen # "loaded" /\ UNCHANGED srv /\ \E why : Fails(why)
    BY <1>19, HereIsCalls DEF LoadAnswer
  <2>2. CASE outages = 0
    <3>1. seen = "loaded" /\ Begin /\ prov = "loaded"
      BY <2>1, <2>2
    <3>2. /\ pc' = "page" /\ UNCHANGED <<unready, srv>>
          /\ \A c \in Call : call'[c] \in {call[c], "connect"}
      BY <2>1, <3>1, BeginIs
    <3>3. UNCHANGED polling
      BY <2>1 DEF Commit
    <3> QED
      BY <2>1, <2>2, <3>1, <3>2, <3>3
  <2>3. CASE outages # 0
    <3>1. ~unready'
      <4>1. CASE Begin
        BY <2>1, <4>1, BeginIs
      <4>2. ASSUME NEW why, Fails(why) PROVE ~unready'
        BY <2>3, <4>2, FailsIs
      <4> QED
        BY <2>1, <4>1, <4>2
    <3> QED
      BY <2>1, <2>3, <3>1
  <2> QED
    BY <2>2, <2>3
<1>20. CASE NextPage
  BY <1>20 DEF NextPage, Drop, Concurrent, Ends
<1>21. CASE EndChunk
  BY <1>21 DEF EndChunk
<1>22. ASSUME NEW c \in Call, TakePage(c) PROVE LoadedIsTrue' /\ FirstStartWaits'
  BY <1>22 DEF TakePage, Awaited
<1>23. ASSUME NEW c \in Call, PageRaises(c) PROVE LoadedIsTrue' /\ FirstStartWaits'
  BY <1>23 DEF PageRaises, Fails, Drop, Awaited
<1>24. CASE Deadline
  BY <1>24 DEF Deadline
<1>25. CASE CancelJob
  BY <1>25 DEF CancelJob
<1> HIDE <1>d
<1> QED
  BY <1>1, <1>2, <1>3, <1>4, <1>5, <1>6, <1>7, <1>8, <1>9, <1>10, <1>11, <1>12, <1>13, <1>14,
     <1>15, <1>16, <1>17, <1>18, <1>19, <1>20, <1>21, <1>22, <1>23, <1>24, <1>25 DEF Next,
     Service, Poller, Client, Worker

-----------------------------------------------------------------------------
\* The invariant holds at first: nothing was asked and nothing was sent.
LEMMA InvInit == Init => Inv
<1> SUFFICES ASSUME Init PROVE Inv
  OBVIOUS
<1>1. Typed
  BY SidecarAssumption DEF Init, Typed, Outcomes, SrvStates
<1>2. PlaceIsRight
  BY DEF Init, PlaceIsRight, Waiting, Working
<1>3. ComingIsNew /\ UnsentIsUnknown
  BY DEF Init, ComingIsNew, UnsentIsUnknown
<1>4. CanceledByUser /\ LoadedIsTrue /\ FirstStartWaits
  BY DEF Init, CanceledByUser, LoadedIsTrue, FirstStartWaits, Working
<1> QED
  BY <1>1, <1>2, <1>3, <1>4 DEF Inv

\* Every step keeps the invariant.
LEMMA InvStep == Inv /\ [Next]_vars => Inv'
<1> SUFFICES ASSUME Inv, [Next]_vars PROVE Inv'
  OBVIOUS
<1> USE DEF Inv
<1>1. CASE Next
  <2>1. Typed' /\ PlaceIsRight'
    BY <1>1, TypedStep, PlaceStep
  <2>2. ComingIsNew' /\ UnsentIsUnknown' /\ CanceledByUser'
    BY <1>1, ComingStep, UnsentStep, CanceledStep
  <2>3. LoadedIsTrue' /\ FirstStartWaits'
    BY <1>1, LoadedStep
  <2> QED
    BY <2>1, <2>2, <2>3
<1>2. CASE UNCHANGED vars
  <2> USE <1>2 DEF vars, provVars, healthVars, callVars, posVars, pageVars, jobVars
  <2>1. Last' = Last
    BY DEF Last
  <2>2. Typed' /\ PlaceIsRight'
    BY <2>1 DEF Typed, PlaceIsRight
  <2>3. ComingIsNew' /\ UnsentIsUnknown'
    BY <2>1 DEF ComingIsNew, UnsentIsUnknown, Coming, Concurrent
  <2>4. CanceledByUser'
    BY <2>1 DEF CanceledByUser
  <2>5. LoadedIsTrue' /\ FirstStartWaits'
    BY DEF LoadedIsTrue, FirstStartWaits
  <2> QED
    BY <2>2, <2>3, <2>4, <2>5
<1> QED
  BY <1>1, <1>2

\* The invariant holds in every behaviour of the sidecar engine.
THEOREM SidecarIsRight == Spec => []Inv
BY InvInit, InvStep, PTL DEF Spec

\* A job that waited for the service finds the model as long as the service has not
\* failed for the first time: no attempt fails because the model is still coming.
THEOREM ModelIsThere == Spec => []FirstStartWaits
<1>1. Inv => FirstStartWaits
  BY DEF Inv
<1> QED
  BY <1>1, SidecarIsRight, PTL

\* A job ends as cancelled only when its user cancelled it, although the pages of a
\* failed attempt are released by the same kind of signal.
THEOREM OnlyTheUserCancels == Spec => []CanceledMeansCancel
<1>1. Inv => CanceledMeansCancel
  BY DEF Inv, CanceledByUser, CanceledMeansCancel
<1> QED
  BY <1>1, SidecarIsRight, PTL

\* The client has a page inferred once per call: what reached the service is never
\* posted a second time.
THEOREM NothingIsSentTwice == Spec => InferredOnce
<1>1. Inv /\ [Next]_vars =>
        [\A c \in Call : srv'[c] = "queued" /\ call[c] = "connect" => srv[c] = "none"]_vars
  BY DEF Inv, UnsentIsUnknown
<1> QED
  BY <1>1, SidecarIsRight, PTL DEF Spec, InferredOnce

-----------------------------------------------------------------------------
\* The result: whole chunks, in order

PagesInv == Inv /\ MergedIsWhole /\ PartsInOrder /\ ChunkIsAligned

\* Pages of one chunk have one quotient, and only they.
LEMMA OneQuotient ==
  ASSUME NEW n \in Nat \ {0}, NEW k \in Nat, NEW x \in Nat
  PROVE  x \div n = k <=> (k * n <= x /\ x < k * n + n)
<1> DEFINE q == x \div n
           m == x % n
<1>1. q \in Nat /\ m \in 0..(n - 1) /\ x = q * n + m
  OBVIOUS
<1> HIDE DEF q, m
<1>2. CASE q = k
  BY <1>1, <1>2
<1>3. CASE q < k
  <2>1. k - q >= 1 /\ (k - q) * n >= n
    BY <1>1, <1>3
  <2>2. k * n = q * n + (k - q) * n
    BY <1>1
  <2>3. k * n \in Nat /\ q * n \in Nat /\ (k - q) * n \in Int
    BY <1>1
  <2> QED
    BY <1>1, <1>3, <2>1, <2>2, <2>3 DEF q
<1>4. CASE q > k
  <2>1. q - k >= 1 /\ (q - k) * n >= n
    BY <1>1, <1>4
  <2>2. q * n = k * n + (q - k) * n
    BY <1>1
  <2>3. k * n \in Nat /\ q * n \in Nat /\ (q - k) * n \in Int
    BY <1>1
  <2> QED
    BY <1>1, <1>4, <2>1, <2>2, <2>3 DEF q
<1> QED
  BY <1>1, <1>2, <1>3, <1>4 DEF q

\* The last page of a chunk.
LEMMA LastIs ==
  ASSUME Typed, PlaceIsRight
  PROVE  /\ first + concurrency - 1 <= Pages => Last = first + concurrency - 1
         /\ first + concurrency - 1 > Pages => Last = Pages
BY SidecarAssumption DEF Last, Min, Typed, PlaceIsRight

\* A page is of the chunk at hand when the division says so.
LEMMA ChunkIs ==
  ASSUME Typed, PlaceIsRight, ChunkIsAligned, first <= Pages,
         NEW c \in first..Last, NEW p \in 1..Pages
  PROVE  (p - 1) \div concurrency = (c - 1) \div concurrency <=> p \in first..Last
<1>1. /\ concurrency \in Nat \ {0} /\ first \in Nat \ {0} /\ Pages \in Nat /\ Last \in first..Pages
      /\ first + concurrency - 1 <= Pages => Last = first + concurrency - 1
      /\ first + concurrency - 1 > Pages => Last = Pages
  BY LastIs, LastOfChunk, SidecarAssumption DEF Typed, PlaceIsRight
<1>2. PICK k \in 0..Pages : first = k * concurrency + 1
  BY DEF ChunkIsAligned
<1> DEFINE b == k * concurrency
<1>3. b \in Nat /\ first = b + 1
  BY <1>1, <1>2
<1>4. \A x \in Nat : x \div concurrency = k <=> (b <= x /\ x < b + concurrency)
  BY <1>1, <1>2, OneQuotient
<1> HIDE DEF b
<1>5. c - 1 \in Nat /\ b <= c - 1 /\ c - 1 < b + concurrency
  BY <1>1, <1>3
<1>6. (c - 1) \div concurrency = k
  BY <1>4, <1>5
<1>7. p - 1 \in Nat
  OBVIOUS
<1>8. (b <= p - 1 /\ p - 1 < b + concurrency) <=> p \in first..Last
  BY <1>1, <1>3
<1> QED
  BY <1>4, <1>6, <1>7, <1>8

\* What is handed to the merger stays, as long as no call before the chunk changes.
LEMMA MergedStays ==
  ASSUME MergedIsWhole, UNCHANGED <<merged, concurrency>>, first \in Nat, first' \in Nat,
         first' >= first, \A c \in Call : c[1] < first /\ call[c] = "ok" => call'[c] = "ok"
  PROVE  MergedIsWhole'
<1>1. ASSUME NEW i \in 1..Len(merged)
      PROVE  merged[i][1] < first' /\ call'[merged[i]] = "ok"
  <2>1. merged[i] \in Call /\ merged[i][1] < first /\ call[merged[i]] = "ok"
    BY DEF MergedIsWhole
  <2>2. merged[i][1] \in Nat
    BY <2>1 DEF Call
  <2> QED
    BY <2>1, <2>2
<1> QED
  BY <1>1 DEF MergedIsWhole

\* The attempt goes on with the pages it has.
LEMMA PartsStay ==
  ASSUME PartsInOrder, UNCHANGED <<pc, parts, first, attempt, next, concurrency>>,
         \A c \in Call : call[c] = "ok" => call'[c] = "ok"
  PROVE  PartsInOrder'
<1>1. Last' = Last
  BY DEF Last
<1>2. CASE pc \in {"page", "result"}
  <2>1. \A i \in 1..Len(parts) : parts[i] \in Call /\ call[parts[i]] = "ok"
    BY <1>2 DEF PartsInOrder
  <2>2. \A i \in 1..Len(parts) : call'[parts[i]] = "ok"
    BY <2>1
  <2> QED
    BY <1>1, <1>2, <2>2 DEF PartsInOrder, Waiting
<1>3. CASE pc \notin {"page", "result"}
  BY <1>3 DEF PartsInOrder
<1> QED
  BY <1>2, <1>3

\* Nothing the service, the poller, the client, the clock or the user does touches the
\* place of the worker, its pages, or a call that has ended well.
LEMMA OthersKeepPages ==
  ASSUME Typed, Next, ~Worker
  PROVE  /\ UNCHANGED <<pc, parts, first, attempt, next, concurrency, merged>>
         /\ \A c \in Call : call[c] = "ok" => call'[c] = "ok"
<1>0. UNCHANGED concurrency
  BY DEF Next, Fixed
<1> USE <1>0 DEF provVars, healthVars, callVars, posVars, pageVars, jobVars, Keep
<1>1. CASE Start \/ LoadModel \/ Crash
  BY <1>1 DEF Start, LoadModel, Crash
<1>2. ASSUME NEW c \in Call, Infer(c) PROVE UNCHANGED <<call, pc, parts, first, attempt, next, merged>>
  BY <1>2 DEF Infer
<1>3. CASE Poller
  BY <1>3 DEF Poller, PollMeasure, PollStore
<1>4. ASSUME NEW c \in Call, Client(c)
      PROVE  /\ UNCHANGED <<pc, parts, first, attempt, next, merged>>
             /\ \A d \in Call : call[d] = "ok" => call'[d] = "ok"
  <2>1. UNCHANGED <<pc, parts, first, attempt, next, merged>>
    BY <1>4 DEF Client, Post, Answer, ReadTimeout, GiveUp, Return
  <2>2. call[c] # "ok"
    BY <1>4 DEF Client, Post, Answer, ReadTimeout, GiveUp, Return
  <2>3. \E how : Ends(c, how)
    BY <1>4 DEF Client, Post, Answer, ReadTimeout, GiveUp, Return, TransportFails
  <2>4. \A d \in Call \ {c} : call'[d] = call[d]
    BY <2>3 DEF Ends, Typed
  <2> QED
    BY <2>1, <2>2, <2>4
<1>5. CASE Deadline \/ CancelJob
  BY <1>5 DEF Deadline, CancelJob, Rest
<1> QED
  BY <1>1, <1>2, <1>3, <1>4, <1>5 DEF Next, Service

\* The chunk after the one at hand begins where the division says.
LEMMA NextChunkIsAligned ==
  ASSUME Typed, PlaceIsRight, ChunkIsAligned, first <= Pages, first' = Last + 1,
         UNCHANGED concurrency
  PROVE  ChunkIsAligned' /\ first' \in Nat /\ first' > first
<1>1. /\ concurrency \in Nat \ {0} /\ first \in Nat \ {0} /\ Pages \in Nat /\ Last \in first..Pages
      /\ first + concurrency - 1 <= Pages => Last = first + concurrency - 1
      /\ first + concurrency - 1 > Pages => Last = Pages
  BY LastIs, LastOfChunk, SidecarAssumption DEF Typed, PlaceIsRight
<1>2. PICK k \in 0..Pages : first = k * concurrency + 1
  BY DEF ChunkIsAligned
<1>3. ASSUME first' <= Pages PROVE \E m \in 0..Pages : first' = m * concurrency' + 1
  <2>1. first' = first + concurrency
    BY <1>1, <1>3
  <2>2. (k + 1) * concurrency = k * concurrency + concurrency /\ k * concurrency \in Nat
    BY <1>1, <1>2
  <2>3. k + 1 <= (k + 1) * concurrency
    BY <1>1, <1>2
  <2>4. k + 1 \in 0..Pages
    BY <1>1, <1>2, <1>3, <2>1, <2>2, <2>3
  <2>5. first' = (k + 1) * concurrency + 1
    BY <1>1, <1>2, <2>1, <2>2
  <2> QED
    BY <2>4, <2>5
<1> QED
  BY <1>1, <1>3 DEF ChunkIsAligned

\* Before the pages of a chunk are asked for there is nothing to keep but the result.
LEMMA BetweenChunks ==
  ASSUME PagesInv, pc' \notin {"page", "result"}, parts' = <<>>, UNCHANGED <<merged, concurrency>>,
         first' = first \/ (first <= Pages /\ first' = Last + 1),
         \A c \in Call : c[1] < first /\ call[c] = "ok" => call'[c] = "ok"
  PROVE  MergedIsWhole' /\ PartsInOrder' /\ ChunkIsAligned'
<1>1. Typed /\ PlaceIsRight /\ ChunkIsAligned /\ MergedIsWhole
  BY DEF PagesInv, Inv
<1>2. PartsInOrder'
  BY DEF PartsInOrder
<1>3. first \in Nat
  BY <1>1 DEF PlaceIsRight
<1>4. ChunkIsAligned' /\ first' \in Nat /\ first' >= first
  <2>1. CASE first' = first
    BY <1>1, <1>3, <2>1 DEF ChunkIsAligned
  <2>2. CASE first <= Pages /\ first' = Last + 1
    BY <1>1, <1>3, <2>2, NextChunkIsAligned
  <2> QED
    BY <2>1, <2>2
<1> QED
  BY <1>1, <1>2, <1>3, <1>4, MergedStays

\* The calls of the chunk at hand are not those of the result.
LEMMA HereIsNotBefore ==
  ASSUME Typed, PlaceIsRight, NEW c \in Call, c[1] < first
  PROVE  c \notin Here
BY DEF Here, Chunk, PlaceIsRight, Call

\* The attempt begins with no page.
LEMMA BeginKeepsPages ==
  ASSUME PagesInv, Begin, pc \in {"load", "loading"}, UNCHANGED concurrency
  PROVE  MergedIsWhole' /\ PartsInOrder' /\ ChunkIsAligned'
<1>1. Typed /\ PlaceIsRight /\ ChunkIsAligned /\ MergedIsWhole /\ PartsInOrder
  BY DEF PagesInv, Inv
<1>2. Here \subseteq Call /\ Last \in first..Pages
  BY <1>1, HereIsCalls
<1>3. /\ pc' = "page" /\ next' = first /\ UNCHANGED <<first, attempt, parts, merged>> /\ parts = <<>>
      /\ \A c \in Call : call'[c] = IF Concurrent /\ c \in Here THEN "connect" ELSE call[c]
  BY <1>1, <1>2, BeginIs DEF Begin, pageVars, PartsInOrder
<1>4. first \in Nat /\ Pages \in Nat /\ Last' = Last
  BY <1>1, <1>3, SidecarAssumption DEF PlaceIsRight, Last
<1>5. MergedIsWhole'
  <2>1. \A c \in Call : c[1] < first => call'[c] = call[c]
    BY <1>1, <1>3, HereIsNotBefore
  <2> QED
    BY <1>1, <1>3, <1>4, <2>1, MergedStays
<1>6. PartsInOrder'
  <2>1. Len(<<>>) = next' - first' /\ next' <= Last' + 1
    BY <1>2, <1>3, <1>4
  <2>2. parts' = <<>> /\ <<>> \in Seq(Call)
    BY <1>3
  <2> QED
    BY <1>3, <2>1, <2>2 DEF PartsInOrder, Waiting
<1>7. ChunkIsAligned'
  BY <1>1, <1>3 DEF ChunkIsAligned
<1> QED
  BY <1>5, <1>6, <1>7

\* An attempt that fails drops the pages it has.
LEMMA DropKeepsPages ==
  ASSUME PagesInv, Drop, pc \in {"load", "loading", "page", "result"},
         pc' \notin {"page", "result"} \cup Waiting \cup {"chunk", "load", "loading"} \/ parts' = <<>>,
         pc' \notin {"page", "result"}, UNCHANGED <<merged, concurrency>>,
         first' = first \/ first' = Last + 1
  PROVE  MergedIsWhole' /\ PartsInOrder' /\ ChunkIsAligned'
<1>1. Typed /\ PlaceIsRight /\ ChunkIsAligned /\ MergedIsWhole
  BY DEF PagesInv, Inv
<1>2. Here \subseteq Call /\ Last \in first..Pages /\ first <= Pages
  BY <1>1, HereIsCalls DEF PlaceIsRight
<1>3. \A c \in Call : c[1] < first => call'[c] = call[c]
  BY <1>1, <1>2, DropIs, HereIsNotBefore
<1>4. first \in Nat
  BY <1>1 DEF PlaceIsRight
<1>5. ChunkIsAligned' /\ first' \in Nat /\ first' >= first
  <2>1. CASE first' = first
    BY <1>1, <1>4, <2>1 DEF ChunkIsAligned
  <2>2. CASE first' = Last + 1
    BY <1>1, <1>2, <1>4, <2>2, NextChunkIsAligned
  <2> QED
    BY <2>1, <2>2
<1>6. PartsInOrder'
  BY DEF PartsInOrder
<1> QED
  BY <1>1, <1>3, <1>4, <1>5, <1>6, MergedStays

\* The page whose turn it is is taken.
LEMMA TakeKeepsPages ==
  ASSUME PagesInv, Next, NEW c \in Call, TakePage(c)
  PROVE  MergedIsWhole' /\ PartsInOrder' /\ ChunkIsAligned'
<1>1. Typed /\ PlaceIsRight /\ ChunkIsAligned /\ MergedIsWhole /\ PartsInOrder
  BY DEF PagesInv, Inv
<1>2. /\ pc = "result" /\ pc' = "page" /\ c = <<next, attempt>> /\ call[c] = "ok"
      /\ parts' = Append(parts, c) /\ next' = next + 1
      /\ UNCHANGED <<first, attempt, merged, call, concurrency>>
  BY DEF TakePage, Awaited, To, Rest, callVars, Next, Fixed
<1>3. Last' = Last
  BY <1>2 DEF Last
<1>4. first \in Nat /\ next \in Nat /\ next <= Last /\ Last \in first..Pages /\ Pages \in Nat
  BY <1>1, <1>2, LastOfChunk, SidecarAssumption DEF PlaceIsRight, Typed
<1>5. parts \in Seq(Call) /\ Len(parts) = next - first
       /\ \A i \in 1..Len(parts) : parts[i] = <<first + i - 1, attempt>> /\ call[parts[i]] = "ok"
  BY <1>1, <1>2 DEF PartsInOrder
<1>6. /\ parts' \in Seq(Call) /\ Len(parts') = Len(parts) + 1 /\ parts'[Len(parts) + 1] = c
      /\ \A i \in 1..Len(parts) : parts'[i] = parts[i]
  BY <1>2, <1>5
<1>7. ASSUME NEW i \in 1..Len(parts')
      PROVE  parts'[i] = <<first + i - 1, attempt>> /\ call[parts'[i]] = "ok"
  <2>1. CASE i <= Len(parts)
    BY <1>5, <1>6, <2>1
  <2>2. CASE i = Len(parts) + 1
    <3>1. first + i - 1 = next
      BY <1>4, <1>5, <2>2
    <3> QED
      BY <1>2, <1>6, <2>2, <3>1
  <2> QED
    BY <1>5, <1>6, <2>1, <2>2
<1>8. Len(parts') = next' - first' /\ next' <= Last' + 1
  BY <1>2, <1>3, <1>4, <1>5, <1>6
<1>9. PartsInOrder'
  BY <1>2, <1>6, <1>7, <1>8 DEF PartsInOrder, Waiting
<1>10. MergedIsWhole'
  BY <1>1, <1>2, <1>4, MergedStays
<1> QED
  BY <1>1, <1>2, <1>9, <1>10 DEF ChunkIsAligned

\* The merger gets the whole chunk.
LEMMA EndChunkKeepsPages ==
  ASSUME PagesInv, Next, EndChunk
  PROVE  MergedIsWhole' /\ PartsInOrder' /\ ChunkIsAligned'
<1>1. Typed /\ PlaceIsRight /\ ChunkIsAligned /\ MergedIsWhole /\ PartsInOrder
  BY DEF PagesInv, Inv
<1>2. /\ pc = "page" /\ pc' = "chunk" /\ next > Last /\ merged' = merged \o parts /\ parts' = <<>>
      /\ first' = Last + 1 /\ UNCHANGED <<call, concurrency>>
  BY DEF EndChunk, To, Rest, callVars, Next, Fixed
<1>3. /\ first \in Nat \ {0} /\ next \in Nat /\ attempt \in 1..2 /\ first <= Pages
      /\ Last \in first..Pages /\ Pages \in Nat
  BY <1>1, <1>2, LastOfChunk, SidecarAssumption DEF PlaceIsRight, Typed
<1>4. /\ parts \in Seq(Call) /\ Len(parts) = next - first /\ next <= Last + 1
      /\ \A i \in 1..Len(parts) : parts[i] = <<first + i - 1, attempt>> /\ call[parts[i]] = "ok"
  BY <1>1, <1>2 DEF PartsInOrder
<1>5. Len(parts) = Last + 1 - first
  BY <1>2, <1>3, <1>4
<1> DEFINE m == Len(merged)
           n == Len(parts)
<1>6. merged \in Seq(Call) /\ m \in Nat /\ n \in Nat
  BY <1>1, <1>4 DEF MergedIsWhole
<1>7. /\ merged' \in Seq(Call) /\ Len(merged') = m + n
      /\ \A i \in 1..m : merged'[i] = merged[i]
      /\ \A i \in 1..n : merged'[m + i] = parts[i]
  <2>1. /\ merged' \in Seq(Call) /\ Len(merged') = m + n
        /\ \A i \in 1..(m + n) : merged'[i] = IF i <= m THEN merged[i] ELSE parts[i - m]
    BY <1>2, <1>4, <1>6, ConcatProperties
  <2>2. \A i \in 1..m : i \in 1..(m + n) /\ i <= m
    BY <1>6
  <2>3. \A i \in 1..n : m + i \in 1..(m + n) /\ ~(m + i <= m) /\ (m + i) - m = i
    BY <1>6
  <2> QED
    BY <2>1, <2>2, <2>3
<1> HIDE DEF m, n
\* An element of the result is an older one, or a page of the chunk.
<1>8. ASSUME NEW i \in 1..(m + n)
      PROVE  \/ i \in 1..m /\ merged'[i] = merged[i] /\ merged[i] \in Call
                /\ merged[i][1] < first /\ call[merged[i]] = "ok"
             \/ /\ i > m /\ i - m \in 1..n /\ merged'[i] = <<first + (i - m) - 1, attempt>>
                /\ first + (i - m) - 1 \in first..Last /\ call[merged'[i]] = "ok"
  <2>1. CASE i <= m
    BY <1>1, <1>6, <1>7, <2>1 DEF MergedIsWhole, m
  <2>2. CASE i > m
    <3>1. i - m \in 1..n /\ m + (i - m) = i
      BY <1>6, <2>2
    <3>2. merged'[i] = parts[i - m]
      BY <1>7, <3>1
    <3>3. parts[i - m] = <<first + (i - m) - 1, attempt>> /\ call[parts[i - m]] = "ok"
      BY <1>4, <3>1 DEF n
    <3>4. first + (i - m) - 1 \in first..Last
      BY <1>3, <1>5, <3>1 DEF n
    <3> QED
      BY <2>2, <3>1, <3>2, <3>3, <3>4
  <2> QED
    BY <1>6, <2>1, <2>2
<1>9. ASSUME NEW i \in 1..(m + n) PROVE merged'[i][1] < first' /\ call'[merged'[i]] = "ok"
  <2>1. merged'[i][1] < first \/ merged'[i][1] \in first..Last
    BY <1>8
  <2>2. merged'[i] \in Call
    BY <1>7, <1>6
  <2>3. merged'[i][1] \in Nat
    BY <2>2 DEF Call
  <2>4. call[merged'[i]] = "ok"
    BY <1>8
  <2>5. merged'[i][1] < first'
    <3>1. \A x \in Nat : x < first \/ x \in first..Last => x < Last + 1
      BY <1>3
    <3> QED
      BY <1>2, <2>1, <2>3, <3>1
  <2> QED
    BY <1>2, <2>4, <2>5
<1>10. ASSUME NEW i \in 1..(m + n), NEW j \in 1..(m + n), i < j
       PROVE  merged'[i][1] < merged'[j][1]
  <2>1. CASE j <= m
    BY <1>1, <1>6, <1>7, <1>10, <2>1 DEF MergedIsWhole, m
  <2>2. CASE i <= m /\ j > m
    <3>1. merged'[i][1] < first /\ merged'[i][1] \in Nat
      BY <1>6, <1>8, <2>2 DEF Call
    <3>2. merged'[j][1] \in first..Last
      BY <1>6, <1>8, <2>2
    <3> QED
      BY <1>3, <3>1, <3>2
  <2>3. CASE i > m
    <3>1. merged'[i][1] = first + (i - m) - 1 /\ merged'[j][1] = first + (j - m) - 1
      BY <1>6, <1>8, <1>10, <2>3
    <3> QED
      BY <1>3, <1>6, <1>10, <2>3, <3>1
  <2> QED
    BY <1>6, <1>10, <2>1, <2>2, <2>3
<1>11. ASSUME NEW i \in 1..(m + n), NEW p \in 1..Pages,
              (p - 1) \div concurrency = (merged'[i][1] - 1) \div concurrency
       PROVE  \E j \in 1..(m + n) : merged'[j] = <<p, merged'[i][2]>>
  <2>1. CASE i <= m
    <3>2. i \in 1..m /\ merged'[i] = merged[i]
      BY <1>6, <1>7, <2>1
    <3>3. (p - 1) \div concurrency = (merged[i][1] - 1) \div concurrency
      BY <1>11, <3>2
    <3>1. PICK j \in 1..m : merged[j] = <<p, merged[i][2]>>
      BY <1>1, <3>2, <3>3 DEF MergedIsWhole, m
    <3> QED
      BY <1>6, <1>7, <3>1, <3>2
  <2>2. CASE i > m
    <3>1. merged'[i][1] \in first..Last /\ merged'[i][2] = attempt
      BY <1>6, <1>8, <2>2
    <3>2. p \in first..Last
      BY <1>1, <1>3, <1>11, <3>1, ChunkIs
    <3>3. p - first + 1 \in 1..n /\ m + (p - first + 1) \in 1..(m + n)
           /\ first + (p - first + 1) - 1 = p
      BY <1>3, <1>5, <1>6, <3>2 DEF n
    <3>4. merged'[m + (p - first + 1)] = <<p, attempt>>
      BY <1>4, <1>7, <3>3 DEF n
    <3> QED
      BY <3>1, <3>3, <3>4
  <2> QED
    BY <1>6, <2>1, <2>2
<1>12. MergedIsWhole'
  <2>1. Len(merged') = m + n
    BY <1>7
  <2>2. \A i \in 1..Len(merged') : merged'[i][1] < first' /\ call'[merged'[i]] = "ok"
    BY <1>9, <2>1
  <2>3. \A i, j \in 1..Len(merged') : i < j => merged'[i][1] < merged'[j][1]
    BY <1>10, <2>1
  <2>4. \A i \in 1..Len(merged') : \A p \in 1..Pages :
          (p - 1) \div concurrency' = (merged'[i][1] - 1) \div concurrency' =>
            \E j \in 1..Len(merged') : merged'[j] = <<p, merged'[i][2]>>
    BY <1>2, <1>11, <2>1
  <2> QED
    BY <1>7, <2>2, <2>3, <2>4 DEF MergedIsWhole
<1>13. PartsInOrder'
  BY <1>2 DEF PartsInOrder
<1>14. ChunkIsAligned'
  BY <1>1, <1>2, <1>3, NextChunkIsAligned
<1> QED
  BY <1>12, <1>13, <1>14

\* The worker posts the page whose turn it is, or finds the job cancelled.
LEMMA NextKeepsPages ==
  ASSUME PagesInv, Next, NextPage
  PROVE  MergedIsWhole' /\ PartsInOrder' /\ ChunkIsAligned'
<1>1. Typed /\ PlaceIsRight /\ ChunkIsAligned /\ MergedIsWhole /\ PartsInOrder
  BY DEF PagesInv, Inv
<1>2. pc = "page" /\ next <= Last /\ UNCHANGED concurrency
  BY DEF NextPage, Next, Fixed
<1>3. CASE cancel
  <2>1. Drop /\ pc' = "canceled" /\ UNCHANGED <<first, merged>>
    BY <1>3 DEF NextPage, Settle, To, posVars
  <2> QED
    BY <1>2, <2>1, DropKeepsPages DEF Waiting
<1>4. CASE ~cancel
  <2>1. pc' = "result" /\ UNCHANGED <<first, attempt, next, parts, merged>>
    BY <1>4 DEF NextPage, To, posVars, pageVars
  <2>2. Last' = Last
    BY <1>2, <2>1 DEF Last
  <2>3. first \in Nat /\ next \in Nat /\ first <= next /\ attempt \in 1..2
    BY <1>1, <1>2 DEF PlaceIsRight
  <2>4. \A c \in Call : c[1] < next => call'[c] = call[c]
    BY <1>1, <1>4, <2>3 DEF NextPage, Ends, Typed, Call
  <2>5. MergedIsWhole'
    <3>1. \A c \in Call : c[1] < first => c[1] < next
      BY <2>3 DEF Call
    <3> QED
      BY <1>1, <1>2, <2>1, <2>3, <2>4, <3>1, MergedStays
  <2>6. PartsInOrder'
    <3>1. parts \in Seq(Call) /\ Len(parts) = next - first /\ next <= Last + 1
           /\ \A i \in 1..Len(parts) : parts[i] = <<first + i - 1, attempt>> /\ call[parts[i]] = "ok"
      BY <1>1, <1>2 DEF PartsInOrder
    <3>2. ASSUME NEW i \in 1..Len(parts) PROVE call'[parts[i]] = "ok"
      <4>1. parts[i] \in Call /\ parts[i][1] = first + i - 1 /\ call[parts[i]] = "ok"
        BY <3>1
      <4>2. first + i - 1 < next
        BY <2>3, <3>1
      <4> QED
        BY <2>4, <4>1, <4>2
    <3> QED
      BY <2>1, <2>2, <3>1, <3>2 DEF PartsInOrder, Waiting
  <2> QED
    BY <1>1, <1>2, <2>1, <2>5, <2>6 DEF ChunkIsAligned
<1> QED
  BY <1>3, <1>4

\* No step breaks a chunk apart or brings the pages out of order.
LEMMA PagesStep == PagesInv /\ [Next]_vars => PagesInv'
<1> SUFFICES ASSUME PagesInv, [Next]_vars PROVE MergedIsWhole' /\ PartsInOrder' /\ ChunkIsAligned'
  BY InvStep DEF PagesInv
<1>1. Typed /\ PlaceIsRight /\ ChunkIsAligned /\ MergedIsWhole /\ PartsInOrder
  BY DEF PagesInv, Inv
<1>2. first \in Nat /\ Waiting = {"queued", "wait", "waited"}
  BY <1>1 DEF PlaceIsRight, Waiting
<1>3. ASSUME UNCHANGED <<pc, parts, first, attempt, next, concurrency, merged>>,
             \A c \in Call : call[c] = "ok" => call'[c] = "ok"
      PROVE  MergedIsWhole' /\ PartsInOrder' /\ ChunkIsAligned'
  <2>1. PartsInOrder'
    BY <1>1, <1>3, PartsStay
  <2>2. MergedIsWhole'
    BY <1>1, <1>2, <1>3, MergedStays
  <2>3. ChunkIsAligned'
    BY <1>1, <1>3 DEF ChunkIsAligned
  <2> QED
    BY <2>1, <2>2, <2>3
<1>4. CASE UNCHANGED vars
  BY <1>3, <1>4 DEF vars, jobVars, posVars, pageVars, callVars
<1>5. CASE Next /\ ~Worker
  BY <1>1, <1>3, <1>5, OthersKeepPages
<1>6. CASE Next /\ Worker
  <2>0. UNCHANGED concurrency /\ Next
    BY <1>6 DEF Next, Fixed
  <2>1. CASE Dequeue \/ WaitCanceled \/ WaitAsk \/ WaitAnswer
    <3>1. /\ pc \in Waiting /\ pc' \notin {"page", "result"}
          /\ UNCHANGED <<parts, first, merged, call>>
      BY <1>2, <2>1 DEF Dequeue, WaitCanceled, WaitAsk, WaitAnswer, Ask, To, Settle, Rest,
                        pageVars, posVars, callVars
    <3>2. parts' = <<>>
      BY <1>1, <3>1 DEF PartsInOrder
    <3> QED
      BY <2>0, <3>1, <3>2, BetweenChunks
  <2>2. CASE ChunkHead \/ LoadAsk
    <3>1. /\ pc \in {"chunk", "load"} /\ pc' \notin {"page", "result"}
          /\ UNCHANGED <<parts, first, merged, call>>
      BY <2>2 DEF ChunkHead, LoadAsk, Ask, To, Settle, Rest, pageVars, posVars, callVars
    <3>2. parts' = <<>>
      BY <1>1, <3>1 DEF PartsInOrder
    <3> QED
      BY <2>0, <3>1, <3>2, BetweenChunks
  <2>3. CASE LoadCached
    BY <2>0, <2>3, BeginKeepsPages DEF LoadCached
  <2>4. ASSUME NEW why, Fails(why), pc \in {"loading", "result"}
        PROVE  MergedIsWhole' /\ PartsInOrder' /\ ChunkIsAligned'
    <3>1. Drop /\ parts' = <<>> /\ UNCHANGED merged /\ pc' \notin {"page", "result"}
           /\ (first' = first \/ first' = Last + 1)
      BY <2>4 DEF Fails, To
    <3> QED
      BY <2>0, <2>4, <3>1, DropKeepsPages
  <2>5. CASE LoadAnswer
    <3>1. pc = "loading"
      BY <2>5 DEF LoadAnswer
    <3>2. Begin \/ \E why : Fails(why)
      BY <2>5 DEF LoadAnswer
    <3> QED
      BY <2>0, <2>4, <3>1, <3>2, BeginKeepsPages
  <2>6. CASE NextPage
    BY <2>0, <2>6, NextKeepsPages
  <2>7. CASE EndChunk
    BY <2>0, <2>7, EndChunkKeepsPages
  <2>8. ASSUME NEW c \in Call, TakePage(c)
        PROVE  MergedIsWhole' /\ PartsInOrder' /\ ChunkIsAligned'
    BY <2>0, <2>8, TakeKeepsPages
  <2>9. ASSUME NEW c \in Call, PageRaises(c)
        PROVE  MergedIsWhole' /\ PartsInOrder' /\ ChunkIsAligned'
    <3>1. pc = "result" /\ ((pc' = "canceled" /\ Drop /\ UNCHANGED <<first, merged>>) \/ Fails(call[c]))
      BY <2>9 DEF PageRaises, Settle, To, posVars
    <3>2. CASE pc' = "canceled" /\ Drop /\ UNCHANGED <<first, merged>>
      BY <2>0, <1>2, <3>1, <3>2, DropKeepsPages
    <3>3. CASE Fails(call[c])
      BY <2>4, <3>1, <3>3
    <3> QED
      BY <3>1, <3>2, <3>3
  <2> QED
    BY <1>6, <2>1, <2>2, <2>3, <2>5, <2>6, <2>7, <2>8, <2>9 DEF Worker
<1> QED
  BY <1>4, <1>5, <1>6

\* Nothing is merged before the first chunk.
LEMMA PagesInit == Init => PagesInv
<1> SUFFICES ASSUME Init PROVE PagesInv
  OBVIOUS
<1>1. merged = <<>> /\ parts = <<>> /\ first = 1 /\ pc = "queued" /\ concurrency \in Nat
  BY SidecarAssumption DEF Init
<1>2. MergedIsWhole /\ PartsInOrder
  BY <1>1 DEF MergedIsWhole, PartsInOrder
<1>3. 0 \in 0..Pages /\ first = 0 * concurrency + 1
  BY <1>1, SidecarAssumption
<1> QED
  BY <1>2, <1>3, InvInit DEF PagesInv, ChunkIsAligned

\* Side by side or one by one, with attempts that fail and outages: the result has the
\* pages in order, a chunk is there as a whole and from one attempt, or not at all.
THEOREM ChunksAreWhole == Spec => []PagesInOrder
<1>1. PagesInv => PagesInOrder
  <2> SUFFICES ASSUME PagesInv PROVE PagesInOrder
    OBVIOUS
  <2>0. MergedIsWhole /\ merged \in Seq(Call)
    BY DEF PagesInv, MergedIsWhole
  <2>1. MergedIsWhole /\ DOMAIN merged = 1..Len(merged)
    BY <2>0
  <2> QED
    BY <2>1 DEF MergedIsWhole, PagesInOrder
<1>2. Spec => []PagesInv
  BY PagesInit, PagesStep, PTL DEF Spec
<1> QED
  BY <1>1, <1>2, PTL
=============================================================================
