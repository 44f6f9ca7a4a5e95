------------------------- MODULE ChunkRunner_proofs -------------------------
(***************************************************************************)
(* What the chunk loop merges, proved for any number of pages, any chunk   *)
(* size and either mode: page k of the result is page k of the document,   *)
(* a finished job has them all, and none has files of a failed attempt.    *)
(*                                                                         *)
(* And what lies in those pages, proved of PageContent for pages and       *)
(* chunks of any size: the references of a page and its layout name whole  *)
(* crops of that page.                                                     *)
(***************************************************************************)
EXTENDS ChunkRunner, PageContent, FiniteSetTheorems, SequenceTheorems, TLAPS

\* An entry of the result keeps the files of a good attempt at most, and only where
\* the engine's own Markdown was merged.
CleanFiles(source) == IF source \in {"ocr", "blank"} THEN {"good"} ELSE {}
Entry == {e \in [page : Nat, files : SUBSET {"good", "failed"}, source : Sources] :
            e.files \subseteq CleanFiles(e.source)}
InOrder == \A k \in 1..Len(merged) : merged[k].page = k

OfAPage == {"save", "begin", "call", "retry", "reset", "failed", "text"}   \* where a page or a chunk is worked on
InAChunk == OfAPage \cup {"repetitive", "mergePage", "nextPage", "drain", "mergeChunk", "endChunk"}

Typed == /\ mode \in {"multi", "per_page"}
         /\ status \in {"running", "done", "error", "canceled"}
         /\ pc \in InAChunk \cup {"loop", "settled"}
         /\ recovering \in BOOLEAN
         /\ donePages \in Nat /\ at \in Nat /\ n \in Nat /\ pieces \in Nat
         /\ files \in SUBSET {"good", "failed"}
         /\ merged \in Seq(Entry)

\* Nothing of a failed attempt lies in the directory when a call begins or is merged.
FilesArePlaced ==
  /\ pc \in {"save", "begin", "call", "text", "nextPage"} => files = {}
  /\ pc \in {"mergePage", "drain", "mergeChunk"} => files \subseteq {"good"}
  /\ pc \in {"mergePage", "mergeChunk"} => files = {"good"}

\* How much of the document has been merged, wherever the runner is.
PlaceIsRight ==
  /\ donePages <= Total
  /\ pc \in InAChunk => donePages < Total
  /\ pc = "loop" => Len(merged) = donePages
  /\ pc \in OfAPage \cup {"repetitive"} /\ ~recovering =>
       /\ Len(merged) = donePages /\ at = ChunkStart /\ n = ChunkLen
  /\ pc \in OfAPage \cup {"mergePage"} /\ recovering =>
       Len(merged) = at - 1 /\ at \in ChunkStart..ChunkEnd
  /\ pc = "nextPage" => recovering /\ Len(merged) = at /\ at \in donePages..ChunkEnd
  /\ pc \in {"repetitive", "drain", "mergeChunk"} => ~recovering
  /\ pc = "mergePage" => recovering
  /\ pc = "text" => Single
  /\ pc \in {"drain", "mergeChunk"} /\ "good" \in files =>
       Len(merged) = donePages /\ at = ChunkStart /\ n = ChunkLen
  /\ pc = "drain" /\ "good" \notin files => Len(merged) = ChunkEnd
  /\ pc = "endChunk" => Len(merged) = ChunkEnd

SettledIsRight ==
  /\ Len(merged) >= donePages
  /\ status # "running" => pc = "settled"
  /\ status = "done" => Len(merged) = Total

Inv == Typed /\ InOrder /\ FilesArePlaced /\ PlaceIsRight /\ SettledIsRight

-----------------------------------------------------------------------------
\* The chunk that is due has at least one page and ends within the document.
LEMMA LenOfChunk ==
  ASSUME mode \in {"multi", "per_page"}, donePages \in Nat, donePages < Total
  PROVE  /\ ChunkLen \in 1..(Total - donePages)
         /\ mode = "per_page" => ChunkLen = 1
<1>1. Size \in Nat \ {0} /\ Total - donePages \in Nat \ {0} /\ (mode = "per_page" => Size = 1)
  BY RunnerAssumption DEF Size
<1> DEFINE Least(x) == x \in {Size, Total - donePages}
                       /\ \A y \in {Size, Total - donePages} : x <= y
<1>2. \E x : Least(x)
  <2>1. CASE Size <= Total - donePages
    <3>1. Least(Size)
      BY <1>1, <2>1
    <3> QED
      BY <3>1
  <2>2. CASE ~(Size <= Total - donePages)
    <3>1. Least(Total - donePages)
      BY <1>1, <2>2
    <3> QED
      BY <3>1
  <2> QED
    BY <2>1, <2>2
<1>3. ChunkLen = CHOOSE x \in {Size, Total - donePages} :
                   \A y \in {Size, Total - donePages} : x <= y
  BY DEF ChunkLen, Min
<1>4. Least(ChunkLen)
  BY <1>2, <1>3
<1> QED
  BY <1>1, <1>4

\* add_chunk continues the result by one page after the other.
LEMMA MergeContinues ==
  ASSUME merged \in Seq(Entry), InOrder,
         NEW count \in Nat, NEW k \in Nat, NEW source \in Sources,
         NEW moved \in SUBSET {"good", "failed"}, moved \subseteq CleanFiles(source),
         Merge(Len(merged) + 1, count, k, source, moved)
  PROVE  /\ merged' \in Seq(Entry) /\ Len(merged') = Len(merged) + count
         /\ InOrder' /\ files' = {}
<1> DEFINE new == [i \in 1..count |->
                     [page |-> (Len(merged) + 1) + i - 1, files |-> moved,
                      source |-> IF i <= k THEN source ELSE "blank"]]
<1>1. merged' = merged \o new /\ files' = {}
  BY DEF Merge
<1>2. Len(merged) \in Nat
  BY LenProperties
<1>3. ASSUME NEW i \in 1..count PROVE new[i] \in Entry /\ new[i].page = Len(merged) + i
  <2>1. new[i] = [page |-> (Len(merged) + 1) + i - 1, files |-> moved,
                  source |-> IF i <= k THEN source ELSE "blank"]
    BY <1>3
  <2>2. (Len(merged) + 1) + i - 1 = Len(merged) + i /\ Len(merged) + i \in Nat
    BY <1>2, <1>3
  <2>3. (IF i <= k THEN source ELSE "blank") \in Sources
    BY DEF Sources
  <2>4. moved \subseteq CleanFiles(IF i <= k THEN source ELSE "blank")
    BY DEF CleanFiles
  <2> HIDE DEF new
  <2> QED
    <3>1. new[i].page \in Nat /\ new[i].source \in Sources /\ new[i].files \in SUBSET {"good", "failed"}
      BY <2>1, <2>2, <2>3
    <3>2. new[i] \in [page : Nat, files : SUBSET {"good", "failed"}, source : Sources]
      BY <2>1, <2>2, <2>3
    <3>3. new[i].files \subseteq CleanFiles(new[i].source)
      BY <2>1, <2>4
    <3>4. new[i].page = Len(merged) + i
      BY <2>1, <2>2
    <3> QED
      BY <3>2, <3>3, <3>4 DEF Entry
<1>4. new \in Seq(Entry) /\ Len(new) = count
  BY <1>3, IsASeq
<1> HIDE DEF new
<1>5. /\ merged \o new \in Seq(Entry) /\ Len(merged \o new) = Len(merged) + count
      /\ \A i \in 1..Len(merged) + count :
           (merged \o new)[i] = IF i <= Len(merged) THEN merged[i] ELSE new[i - Len(merged)]
  BY <1>4, ConcatProperties
<1>6. ASSUME NEW i \in 1..Len(merged') PROVE merged'[i].page = i
  <2>1. CASE i <= Len(merged)
    BY <1>1, <1>2, <1>5, <2>1 DEF InOrder
  <2>2. CASE i > Len(merged)
    <3>1. i - Len(merged) \in 1..count
      BY <1>1, <1>2, <1>5, <2>2
    <3> QED
      BY <1>1, <1>2, <1>3, <1>5, <2>2, <3>1
  <2> QED
    BY <1>1, <1>2, <1>5, <2>1, <2>2
<1> QED
  BY <1>1, <1>5, <1>6 DEF InOrder

\* The start of execute_job's loop.
LEMMA InvInit == Init => Inv
<1> SUFFICES ASSUME Init PROVE Inv
  OBVIOUS
<1>1. merged \in Seq(Entry) /\ Len(merged) = 0
  BY DEF Init
<1> QED
  <2>1. Typed
    BY <1>1 DEF Init, Typed, InAChunk
  <2>2. InOrder /\ FilesArePlaced
    BY <1>1 DEF Init, InOrder, FilesArePlaced
  <2>3. PlaceIsRight /\ SettledIsRight
    BY <1>1, RunnerAssumption DEF Init, PlaceIsRight, SettledIsRight, InAChunk, OfAPage
  <2> QED
    BY <2>1, <2>2, <2>3 DEF Inv

\* Every step of the loop, of the token sink and of a cancel keeps the invariant.
LEMMA InvStep == Inv /\ [Next]_vars => Inv'
<1> SUFFICES ASSUME Inv, [Next]_vars PROVE Inv'
  OBVIOUS
<1>0. /\ Total \in Nat /\ MaxDrained \in Nat /\ MaxWarnings \in Nat
      /\ Len(merged) \in Nat
  BY RunnerAssumption, LenProperties DEF Inv, Typed
<1>a. /\ donePages < Total => ChunkLen \in 1..(Total - donePages)
      /\ donePages < Total /\ mode = "per_page" => ChunkLen = 1
  BY LenOfChunk DEF Inv, Typed
<1>b. UNCHANGED <<mode, donePages>> => ChunkLen' = ChunkLen
  BY DEF ChunkLen, Size
<1>c. UNCHANGED merged /\ InOrder => InOrder'
  BY DEF InOrder
<1> USE <1>0, <1>a, <1>b, <1>c
    DEF Inv, Typed, FilesArePlaced, PlaceIsRight, SettledIsRight, InAChunk, OfAPage,
        loopVars, ChunkStart, ChunkEnd, To, Warn, Quiet, callVars, countVars, Settle, Single
<1>1. CASE StartChunk
  <2>1. Typed'
    <3>1. /\ at' = ChunkStart /\ n' = ChunkLen /\ recovering' = FALSE /\ pc' = "save"
          /\ files' = {} /\ donePages < Total
          /\ UNCHANGED <<mode, status, donePages, pieces, merged>>
      BY <1>1 DEF StartChunk
    <3>2. at' \in Nat /\ n' \in Nat
      BY <3>1
    <3> QED
      BY <3>1, <3>2
  <2>2. InOrder' /\ FilesArePlaced'
    BY <1>1 DEF StartChunk
  <2>3. PlaceIsRight'
    BY <1>1 DEF StartChunk
  <2>4. SettledIsRight'
    BY <1>1 DEF StartChunk
  <2> QED
    BY <2>1, <2>2, <2>3, <2>4
<1>2. CASE StreamPage
  BY <1>2 DEF StreamPage
<1>3. CASE CallReturns
  <2>1. Typed'
    BY <1>3 DEF CallReturns
  <2>2. InOrder' /\ FilesArePlaced'
    BY <1>3 DEF CallReturns
  <2>3. PlaceIsRight'
    BY <1>3 DEF CallReturns
  <2>4. SettledIsRight'
    BY <1>3 DEF CallReturns
  <2> QED
    BY <2>1, <2>2, <2>3, <2>4
<1>4. CASE CallRaises
  BY <1>4 DEF CallRaises
<1>5. CASE CallRepeats
  BY <1>5 DEF CallRepeats
<1>6. CASE Canceled
  BY <1>6 DEF Canceled
<1>7. CASE Retry
  BY <1>7 DEF Retry
<1>8. CASE TryText
  BY <1>8 DEF TryText
<1>9. CASE TextRecovers
  <2>1. /\ Merge(at, 1, 1, "text", files) /\ at = Len(merged) + 1
        /\ files \subseteq CleanFiles("text") /\ "text" \in Sources
    BY <1>9 DEF TextRecovers, CleanFiles, Sources
  <2>2. /\ merged' \in Seq(Entry) /\ Len(merged') = Len(merged) + 1
        /\ InOrder' /\ files' = {}
    BY <2>1, MergeContinues
  <2> QED
    BY <1>9, <2>1, <2>2 DEF TextRecovers
<1>10. CASE TextMissing
  <2>1. /\ Merge(at, 1, 1, "failed", files) /\ at = Len(merged) + 1
        /\ files \subseteq CleanFiles("failed") /\ "failed" \in Sources
    BY <1>10 DEF TextMissing, CleanFiles, Sources
  <2>2. /\ merged' \in Seq(Entry) /\ Len(merged') = Len(merged) + 1
        /\ InOrder' /\ files' = {}
    BY <2>1, MergeContinues
  <2> QED
    BY <1>10, <2>1, <2>2 DEF TextMissing
<1>11. CASE Placeholders
  <2>1. /\ Merge(at, n, n, "failed", {}) /\ at = Len(merged) + 1
        /\ {} \subseteq CleanFiles("failed") /\ "failed" \in Sources
    BY <1>11 DEF Placeholders, CleanFiles, Sources
  <2>2. /\ merged' \in Seq(Entry) /\ Len(merged') = Len(merged) + n
        /\ InOrder' /\ files' = {}
    BY <2>1, MergeContinues
  <2> QED
    BY <1>11, <2>1, <2>2 DEF Placeholders
<1>12. CASE Recover
  BY <1>12 DEF Recover
<1>13. CASE NextPage
  BY <1>13 DEF NextPage
<1>14. CASE MergePage
  <2>1. /\ Merge(at, 1, 1, "ocr", files) /\ at = Len(merged) + 1
        /\ files \subseteq CleanFiles("ocr") /\ "ocr" \in Sources
    BY <1>14 DEF MergePage, CleanFiles, Sources
  <2>2. /\ merged' \in Seq(Entry) /\ Len(merged') = Len(merged) + 1
        /\ InOrder' /\ files' = {}
    BY <2>1, MergeContinues
  <2> QED
    BY <1>14, <2>1, <2>2 DEF MergePage
<1>15. CASE Recovered
  BY <1>15 DEF Recovered
<1>16. CASE Drain
  BY <1>16 DEF Drain
<1>17. CASE MergeChunk
  <2>1. /\ Merge(at, n, pieces, "ocr", files) /\ at = Len(merged) + 1
        /\ files \subseteq CleanFiles("ocr") /\ "ocr" \in Sources
    BY <1>17 DEF MergeChunk, CleanFiles, Sources
  <2>2. /\ merged' \in Seq(Entry) /\ Len(merged') = Len(merged) + n
        /\ InOrder' /\ files' = {}
    BY <2>1, MergeContinues
  <2> QED
    BY <1>17, <2>1, <2>2 DEF MergeChunk
<1>18. CASE EndChunk
  BY <1>18 DEF EndChunk
<1>19. CASE WriteRaises
  BY <1>19 DEF WriteRaises
<1>20. CASE Finish
  BY <1>20 DEF Finish
<1>21. CASE RequestCancel
  BY <1>21 DEF RequestCancel
<1>22. CASE UNCHANGED vars
  BY <1>22 DEF vars
<1>23. CASE SaveProgress
  BY <1>23 DEF SaveProgress
<1>24. CASE BeginCall
  BY <1>24 DEF BeginCall
<1>25. CASE Reset
  BY <1>25 DEF Reset
<1> HIDE <1>0, <1>a, <1>b, <1>c
<1> QED
  BY <1>1, <1>2, <1>3, <1>4, <1>5, <1>6, <1>7, <1>8, <1>9, <1>10, <1>11, <1>12,
     <1>13, <1>14, <1>15, <1>16, <1>17, <1>18, <1>19, <1>20, <1>21, <1>22,
     <1>23, <1>24, <1>25
     DEF Next, RunnerStep

\* The strengthened invariant holds in every reachable state.
THEOREM RunnerIsRight == Spec => []Inv
BY InvInit, InvStep, PTL DEF Spec

\* Page k of the result is page k of the document (merge.py:195-216, runner.py:350-420).
THEOREM ResultIsAligned == Spec => []PagesAligned
<1>1. Inv => PagesAligned
  BY RunnerAssumption
     DEF Inv, Typed, InOrder, PlaceIsRight, SettledIsRight, PagesAligned
<1> QED
  BY RunnerIsRight, <1>1, PTL

\* Files of a failed attempt never reach the result (runner.py:196-199, 268-269, 309, 357).
THEOREM FailedFilesAreGone == Spec => []NoStaleFiles
<1>1. Inv => NoStaleFiles
  <2> SUFFICES ASSUME Inv, NEW k \in 1..Len(merged)
               PROVE  merged[k].files \subseteq CleanFiles(merged[k].source)
    BY DEF NoStaleFiles, CleanFiles
  <2>1. merged[k] \in Entry
    BY ElementOfSeq DEF Inv, Typed
  <2> QED
    BY <2>1 DEF Entry
<1> QED
  BY RunnerIsRight, <1>1, PTL

\* Where the next call is still to come, none has begun after the cancel: whoever
\* goes there has looked at the event.
LateIsOver ==
  /\ late \in {0, 1} /\ (late = 1 => cancelSet)
  /\ late = 1 => pc \notin {"loop", "save", "begin", "reset"} /\ status # "done"
  /\ pc # "settled" => status # "done"

\* At most one engine call begins after a cancel was requested, and a job with such a
\* call does not end as done (runner.py:226-239, 269-274, 311-318, 423).
THEOREM CancelStopsCalls == Spec => []LateCallIsTheLast
<1>1. Init => LateIsOver
  BY DEF Init, LateIsOver
<1>2. LateIsOver /\ [Next]_vars => LateIsOver'
  <2> SUFFICES ASSUME LateIsOver, [Next]_vars PROVE LateIsOver'
    OBVIOUS
  <2> USE DEF LateIsOver, To, Quiet, Settle, loopVars
  <2>1. CASE StartChunk \/ SaveProgress \/ Reset
    BY <2>1 DEF StartChunk, SaveProgress, Reset
  <2>2. CASE BeginCall
    <3>1. late = 0 /\ pc' = "call" /\ UNCHANGED <<cancelSet, status>>
      BY <2>2 DEF BeginCall
    <3>2. CASE cancelSet
      <4>1. late' = 1
        BY <2>2, <3>1, <3>2 DEF BeginCall
      <4>2. cancelSet'
        BY <3>1, <3>2, Zenon
      <4>3. status # "done"
        BY <2>2, <3>1 DEF BeginCall
      <4> QED
        BY <3>1, <4>1, <4>2, <4>3
    <3>3. CASE ~cancelSet
      BY <2>2, <3>1, <3>3 DEF BeginCall
    <3> QED
      BY <3>2, <3>3
  <2>3. CASE StreamPage \/ CallReturns \/ CallRaises \/ CallRepeats \/ Canceled
    BY <2>3 DEF StreamPage, CallReturns, CallRaises, CallRepeats, Canceled
  <2>4. CASE Retry \/ NextPage \/ EndChunk
    BY <2>4 DEF Retry, NextPage, EndChunk
  <2>5. CASE TryText \/ TextRecovers \/ TextMissing \/ Placeholders
    BY <2>5 DEF TryText, TextRecovers, TextMissing, Placeholders
  <2>6. CASE Recover \/ MergePage \/ Recovered \/ Drain \/ MergeChunk
    BY <2>6 DEF Recover, MergePage, Recovered, Drain, MergeChunk
  <2>7. CASE WriteRaises \/ Finish
    BY <2>7 DEF WriteRaises, Finish
  <2>8. CASE RequestCancel \/ UNCHANGED vars
    BY <2>8 DEF RequestCancel, vars
  <2> QED
    BY <2>1, <2>2, <2>3, <2>4, <2>5, <2>6, <2>7, <2>8 DEF Next, RunnerStep
<1>3. LateIsOver => LateCallIsTheLast
  BY DEF LateIsOver, LateCallIsTheLast
<1> QED
  BY <1>1, <1>2, <1>3, PTL DEF Spec

-----------------------------------------------------------------------------
(***************************************************************************)
(* The content of the pages.  The chunk satisfies with its own numbers     *)
(* what the result satisfies with those of the document, so that a merge   *)
(* has only to move it behind the pages that are there.                    *)
(***************************************************************************)

\* What the schema of an answer admits.
Tokens == {Text(i) : i \in Nat} \cup {Figure(k) : k \in Nat}
Blocks == [type : {"image", "text"}, box : Usable \cup {"none"}, order : Int,
           figure : Nat \cup {NoFigure}]
Admitted == [markdown : Seq(Tokens), blocks : Seq(Blocks)]

\* A page as sanitized: its images are usable, and a number belongs to one of them.
Sane == {page \in Admitted :
           /\ \A p \in Images(page) : page.blocks[p].box \in Usable
           /\ \A p, q \in Images(page) :
                page.blocks[p].figure = page.blocks[q].figure
                  => p = q \/ page.blocks[p].figure = NoFigure}

\* The tokens of the Markdown of a page.
Written == Tokens \cup {Ref(x) : x \in Nat \X Nat}

\* The tokens of the live text of a page.
Viewed == Tokens \cup {Box(b) : b \in Usable}

\* Where a text keeps its tokens when the placeholders with these numbers are replaced.
Standing(md, numbers) == {i \in DOMAIN md : IsFigure(md[i]) => md[i][2] \in numbers}

\* What the live view showed of a page: its boxes of figures that were saved and its text are,
\* in their order, what its Markdown begins with.
Kept(shown, fs) ==
  {k \in DOMAIN shown : shown[k][1] = "box" => shown[k] \in {Box(f.box) : f \in fs}}
IsShownAs(token, t, fs) ==
  IF token[1] = "ref" THEN \E f \in fs : f.name = token[2] /\ t = Box(f.box) ELSE t = token
BeginsAs(md, shown, fs) ==
  LET c == Cardinality(Kept(shown, fs))
  IN /\ c <= Len(md)
     /\ \A k \in 1..c : IsShownAs(md[k], shown[Ascending(Kept(shown, fs))[k]], fs)

\* The blocks of a page of raw_pages.json.
Shown == [image : BOOLEAN, box : Usable \cup {"none"}]

\* The blocks of a page of layout.json.
Laid == [image : BOOLEAN, box : Usable \cup {"none"}, name : Nat \X Nat]

\* The whole files of a page, and what a list of layout blocks needs of them.
Files == [name : Nat \X Nat, box : Usable \cup {"torn"}]
WholeOf(fs, p) == {f \in fs : f.name[1] = p /\ f.box # "torn"}
ShowsCrops(blocks, fs) ==
  \A i \in DOMAIN blocks :
    blocks[i].image => [name |-> blocks[i].name, box |-> blocks[i].box] \in fs

\* Crops with one name are one crop.
OneOfAName(fs) ==
  \A f, g \in fs : f.name = g.name /\ f.box # "torn" /\ g.box # "torn" => f = g

ContentTyped ==
  /\ single \in BOOLEAN /\ next \in 1..(Pages + 1)
  /\ chunk \in [markdown : Seq(Seq(Written)), raw : Seq(Seq(Shown)),
                boxes : SUBSET Files, files : SUBSET Files]
  /\ result \in Seq(Seq(Written)) /\ images \in SUBSET Files /\ boxes \in SUBSET Files
  /\ layout \in Seq(Seq(Laid)) /\ live \in Seq(Seq(Viewed))

\* Pages are counted by the result and the chunk together, as by the live view, and a chunk of
\* a per_page job has one: the number of a page in its chunk is right in both modes.
PagesCounted ==
  /\ next = Len(result) + Len(chunk.markdown) + 1
  /\ Len(chunk.raw) = Len(chunk.markdown) /\ Len(layout) = Len(result)
  /\ single => Len(chunk.markdown) <= 1
  /\ Len(live) = next - 1 /\ apart \in SUBSET 1..(next - 1)

\* Files belong to pages that are there: those of the next page or chunk take no name twice.
FilesAreOfPages ==
  /\ \A f \in images : f.name[1] <= Len(result)
  /\ \A f \in chunk.files : f.name[1] < Len(chunk.markdown)
CropsAreNamed == OneOfAName(images) /\ OneOfAName(chunk.files)

\* What the result has to satisfy, the chunk satisfies with its own numbers.
ChunkResolves ==
  \A p \in 1..Len(chunk.markdown) :
    References(chunk.markdown[p]) = {f.name : f \in WholeOf(chunk.files, p - 1)}
ChunkShowsItsCrops ==
  \A p \in 1..Len(chunk.raw) :
    ShowsCrops(LayoutOf(chunk.raw[p], p - 1), chunk.files \cap chunk.boxes)
ChunkBeginsAsShown ==
  \A p \in 1..Len(chunk.markdown) : Len(result) + p \in apart =>
    BeginsAs(chunk.markdown[p], live[Len(result) + p], WholeOf(chunk.files, p - 1))
ResultBeginsAsShown ==
  \A p \in 1..Len(result) : p \in apart => BeginsAs(result[p], live[p], WholeOf(images, p))

ContentInv == /\ ContentTyped /\ PagesCounted /\ FilesAreOfPages /\ CropsAreNamed
              /\ ChunkResolves /\ ChunkShowsItsCrops /\ ChunkBeginsAsShown
              /\ RefsResolve /\ LayoutShowsItsCrop /\ ResultBeginsAsShown

-----------------------------------------------------------------------------
\* Sets in an order.

\* A strict order that is total on a set.
Orders(before, S) ==
  /\ \A i \in S : <<i, i>> \notin before
  /\ \A i, j, k \in S : <<i, j>> \in before /\ <<j, k>> \in before => <<i, k>> \in before
  /\ \A i, j \in S : i = j \/ <<i, j>> \in before \/ <<j, i>> \in before

\* A sequence of the members of a set, each of them once.
Enumerates(f, S) ==
  /\ Cardinality(S) \in Nat /\ f \in [1..Cardinality(S) -> S]
  /\ \A i \in S : \E k \in 1..Cardinality(S) : f[k] = i
  /\ \A j, k \in 1..Cardinality(S) : f[j] = f[k] => j = k

\* Sorting enumerates a set, in its order.
LEMMA SortedIs ==
  ASSUME NEW S, IsFiniteSet(S), NEW before, Orders(before, S)
  PROVE  /\ Enumerates(Sorted(S, before), S)
         /\ \A j, k \in 1..Cardinality(S) :
              j < k => <<Sorted(S, before)[j], Sorted(S, before)[k]>> \in before
<1> DEFINE smaller(i) == {j \in S : <<j, i>> \in before}
           place(i) == Cardinality(smaller(i))
           c == Cardinality(S)
           f == Sorted(S, before)
<1>1. c \in Nat /\ \A i \in S : IsFiniteSet(smaller(i)) /\ place(i) \in Nat
  <2>1. \A i \in S : smaller(i) \subseteq S
    OBVIOUS
  <2> QED BY <2>1, FS_Subset, FS_CardinalityType
<1>2. c \in Nat /\ \A i \in S : place(i) \in Nat
  BY <1>1
<1>3. ASSUME NEW i \in S PROVE place(i) + 1 \in 1..c
  <2>1. smaller(i) \subseteq S /\ i \notin smaller(i)
    BY DEF Orders
  <2>2. place(i) <= c /\ place(i) # c
    BY <2>1, FS_Subset
  <2>3. place(i) \in Nat /\ c \in Nat
    BY <1>1
  <2> HIDE DEF place, c
  <2> QED BY <2>2, <2>3
<1>4. ASSUME NEW i \in S, NEW j \in S, <<i, j>> \in before PROVE place(i) < place(j)
  <2>1. smaller(i) \subseteq smaller(j) /\ i \in smaller(j) /\ i \notin smaller(i)
    BY <1>4 DEF Orders
  <2>2. place(i) <= place(j) /\ place(i) # place(j)
    BY <1>1, <2>1, FS_Subset
  <2> QED BY <1>1, <2>2
<1>5. \A k \in 1..c : \E i \in S : place(i) + 1 = k
  <2> DEFINE g == [i \in S |-> place(i) + 1]
  <2>1. g \in [S -> 1..c]
    BY <1>3
  <2>2. ASSUME NEW i \in S, NEW j \in S, g[i] = g[j] PROVE i = j
    <3>1. place(i) = place(j)
      BY <1>1, <2>2
    <3>2. ~(place(i) < place(j)) /\ ~(place(j) < place(i))
      BY <1>2, <3>1
    <3> QED BY <1>4, <3>2 DEF Orders
  <2>3. g \in Injection(S, 1..c)
    BY <2>1, <2>2 DEF Injection, IsInjective
  <2>4. IsFiniteSet(1..c) /\ Cardinality(1..c) = c
    BY <1>1, FS_Interval
  <2>5. g \in Surjection(S, 1..c)
    BY <2>3, <2>4, FS_Injection
  <2> QED BY <2>5 DEF Surjection
<1>6. \A k \in 1..c : f[k] = CHOOSE i \in S : place(i) = k - 1
  BY DEF Sorted
<1>7. \A k \in 1..c : f[k] \in S /\ place(f[k]) + 1 = k
  <2> TAKE k \in 1..c
  <2> HIDE DEF place, f, c
  <2>1. \E i \in S : place(i) = k - 1
    <3>1. PICK i \in S : place(i) + 1 = k
      BY <1>5
    <3>2. place(i) \in Nat
      BY <1>2
    <3> QED BY <3>1, <3>2
  <2>2. f[k] \in S /\ place(f[k]) = k - 1
    BY <1>6, <2>1
  <2> QED BY <1>2, <2>2
<1>8. f \in [1..c -> S]
  BY <1>7 DEF Sorted
<1>9. ASSUME NEW i \in S PROVE \E k \in 1..c : f[k] = i
  <2> DEFINE k == place(i) + 1
  <2>1. k \in 1..c
    BY <1>3
  <2>2. f[k] \in S /\ place(f[k]) = place(i)
    <3>1. place(f[k]) + 1 = k /\ f[k] \in S
      BY <1>7, <2>1
    <3>2. place(f[k]) \in Nat /\ place(i) \in Nat
      BY <1>2, <3>1
    <3> HIDE DEF f, place
    <3> QED BY <3>1, <3>2
  <2> HIDE DEF k, f
  <2>3. ~(place(f[k]) < place(i)) /\ ~(place(i) < place(f[k]))
    BY <1>2, <2>2
  <2>4. f[k] = i
    BY <1>4, <2>2, <2>3 DEF Orders
  <2> QED BY <2>1, <2>4
<1>10. ASSUME NEW j \in 1..c, NEW k \in 1..c, f[j] = f[k] PROVE j = k
  <2> HIDE DEF f, place
  <2> QED BY <1>7, <1>10
<1>11. ASSUME NEW j \in 1..c, NEW k \in 1..c, j < k PROVE <<f[j], f[k]>> \in before
  <2> HIDE DEF f, place, c
  <2>1. f[j] \in S /\ f[k] \in S /\ place(f[j]) < place(f[k])
    BY <1>2, <1>7, <1>11
  <2>2. f[j] # f[k]
    BY <1>10, <1>11
  <2>3. ~(place(f[k]) < place(f[j]))
    BY <1>2, <2>1
  <2> QED BY <1>4, <2>1, <2>2, <2>3 DEF Orders
<1> QED BY <1>1, <1>8, <1>9, <1>10, <1>11 DEF Enumerates

\* Numbers in their order.
LEMMA AscendingIs ==
  ASSUME NEW S \in SUBSET Int, IsFiniteSet(S)
  PROVE  /\ Enumerates(Ascending(S), S)
         /\ \A j, k \in 1..Cardinality(S) : j < k => Ascending(S)[j] < Ascending(S)[k]
<1> DEFINE less == {e \in S \X S : e[1] < e[2]}
<1>1. Orders(less, S)
  BY DEF Orders
<1>2. Ascending(S) = Sorted(S, less)
  BY DEF Ascending
<1>3. \A i, j : <<i, j>> \in less => i < j
  OBVIOUS
<1> HIDE DEF less
<1> QED BY <1>1, <1>2, <1>3, SortedIs

\* Numbers in the order of their keys.
LEMMA ByKeyIs ==
  ASSUME NEW S \in SUBSET Int, IsFiniteSet(S), NEW key, \A i \in S : key[i] \in Int
  PROVE  Enumerates(Sorted(S, By(key, S)), S)
<1>1. Orders(By(key, S), S)
  <2>1. \A i \in S : i \in Int /\ key[i] \in Int
    OBVIOUS
  <2>2. \A i, j \in S : <<i, j>> \in By(key, S) <=> key[i] < key[j] \/ (key[i] = key[j] /\ i < j)
    BY DEF By
  <2>3. \A i \in S : <<i, i>> \notin By(key, S)
    BY <2>1, <2>2
  <2>4. \A i, j, k \in S : <<i, j>> \in By(key, S) /\ <<j, k>> \in By(key, S)
                           => <<i, k>> \in By(key, S)
    BY <2>1, <2>2
  <2>5. \A i, j \in S : i = j \/ <<i, j>> \in By(key, S) \/ <<j, i>> \in By(key, S)
    <3> TAKE i, j \in S
    <3>1. i \in Int /\ j \in Int /\ key[i] \in Int /\ key[j] \in Int
      BY <2>1
    <3> QED BY <2>2, <3>1
  <2> QED BY <2>3, <2>4, <2>5 DEF Orders
<1> QED BY <1>1, SortedIs

\* The places of a sequence.
LEMMA PlacesAreFinite ==
  ASSUME NEW S, NEW s \in Seq(S)
  PROVE  /\ Len(s) \in Nat /\ DOMAIN s = 1..Len(s)
         /\ \A T \in SUBSET DOMAIN s : T \in SUBSET Int /\ IsFiniteSet(T)
<1>1. Len(s) \in Nat /\ DOMAIN s = 1..Len(s)
  BY LenProperties
<1>2. IsFiniteSet(1..Len(s))
  BY <1>1, FS_Interval
<1>3. 1..Len(s) \subseteq Int
  BY <1>1
<1> QED BY <1>1, <1>2, <1>3, FS_Subset

\* A rank is a number, less than the number of members for a member.
LEMMA RankIs ==
  ASSUME NEW S \in SUBSET Int, IsFiniteSet(S), NEW i
  PROVE  Rank(i, S) \in Nat
BY FS_Subset, FS_CardinalityType DEF Rank

\* A member stands where its rank puts it.
LEMMA PlacesAreRanks ==
  ASSUME NEW S \in SUBSET Int, IsFiniteSet(S), NEW k \in 1..Cardinality(S)
  PROVE  Ascending(S)[k] \in S /\ Rank(Ascending(S)[k], S) = k - 1
<1> DEFINE c == Cardinality(S)
           f == Ascending(S)
           A == {j \in S : j < f[k]}
           g == [q \in 1..(k - 1) |-> f[q]]
<1>1. /\ c \in Nat /\ f \in [1..c -> S]
      /\ \A j \in S : \E q \in 1..c : f[q] = j
      /\ \A j, q \in 1..c : f[j] = f[q] => j = q
      /\ \A j, q \in 1..c : j < q => f[j] < f[q]
  BY AscendingIs DEF Enumerates
<1>2. k \in 1..c
  OBVIOUS
<1> HIDE DEF c, f
<1>3. \A q \in 1..c : f[q] \in Int /\ f[q] \in S /\ q \in Int
  <2> TAKE q \in 1..c
  <2>1. f[q] \in S
    BY <1>1
  <2>2. f[q] \in Int
    BY <2>1
  <2> QED BY <1>1, <2>1, <2>2
<1>4. \A q \in 1..c : q < k <=> f[q] < f[k]
  <2> TAKE q \in 1..c
  <2>1. f[q] \in Int /\ f[k] \in Int /\ q \in Int /\ k \in Int
    BY <1>2, <1>3
  <2>2. q < k => f[q] < f[k]
    BY <1>1, <1>2
  <2>3. k < q => f[k] < f[q]
    BY <1>1, <1>2
  <2>4. q = k => f[q] = f[k]
    OBVIOUS
  <2> QED BY <2>1, <2>2, <2>3, <2>4
<1>5. \A q \in 1..(k - 1) : q \in 1..c /\ q < k
  BY <1>1, <1>2
<1>6. g \in [1..(k - 1) -> A]
  BY <1>3, <1>4, <1>5
<1>7. \A q, r \in 1..(k - 1) : g[q] = g[r] => q = r
  BY <1>1, <1>5
<1>8. \A j \in A : \E q \in 1..(k - 1) : g[q] = j
  <2> TAKE j \in A
  <2>1. PICK q \in 1..c : f[q] = j
    BY <1>1
  <2>2. q < k
    BY <1>4, <2>1
  <2>3. q \in 1..(k - 1)
    BY <1>1, <1>2, <2>2
  <2> QED BY <2>1, <2>3
<1> HIDE DEF g
<1>9. g \in Bijection(1..(k - 1), A)
  BY <1>6, <1>7, <1>8 DEF Bijection, Injection, Surjection, IsInjective
<1>10. k - 1 \in Nat
  BY <1>1, <1>2
<1>11. IsFiniteSet(1..(k - 1)) /\ Cardinality(1..(k - 1)) = k - 1
  BY <1>10, FS_Interval
<1>12. Cardinality(A) = k - 1
  <2> HIDE DEF A
  <2> QED BY <1>9, <1>11, FS_Bijection DEF ExistsBijection
<1> QED BY <1>2, <1>3, <1>12 DEF Rank, f

\* A sequence made of the members of a set.
LEMMA MadeOf ==
  ASSUME NEW f, NEW S, Enumerates(f, S), NEW T, NEW g, DOMAIN g = DOMAIN f,
         \A k \in DOMAIN f : g[k] \in T, g = [k \in DOMAIN g |-> g[k]]
  PROVE  /\ g \in Seq(T) /\ DOMAIN g = 1..Cardinality(S)
<1>1. DOMAIN f = 1..Cardinality(S) /\ Cardinality(S) \in Nat
  BY DEF Enumerates
<1>2. g \in [1..Cardinality(S) -> T]
  BY <1>1
<1> QED BY <1>1, <1>2

-----------------------------------------------------------------------------
\* Pages.

\* ovisocr2 answers a page that the schema admits.
LEMMA OvisIsAdmitted ==
  ASSUME NEW raw \in Seq(RawItems)
  PROVE  OvisPage(raw) \in Admitted
<1> DEFINE first == {i \in DOMAIN raw : /\ raw[i] \in Usable
                                        /\ \A j \in 1..(i - 1) : raw[j] # raw[i]}
           kept == {i \in first : Rank(i, first) < MaxFigures}
           shown == {i \in DOMAIN raw : raw[i] = "words"} \cup kept
           left == Ascending(shown)
           figures == Ascending(kept)
           markdown == [k \in DOMAIN left |-> IF left[k] \in kept THEN Figure(Rank(left[k], kept))
                                              ELSE Text(left[k])]
           blocks == [k \in DOMAIN figures |-> Block("image", raw[figures[k]], k - 1, k - 1)]
<1>1. OvisPage(raw) = [markdown |-> markdown, blocks |-> blocks]
  BY DEF OvisPage
<1>2. /\ Len(raw) \in Nat /\ DOMAIN raw = 1..Len(raw)
      /\ \A T \in SUBSET DOMAIN raw : T \in SUBSET Int /\ IsFiniteSet(T)
  BY PlacesAreFinite
<1>3. kept \in SUBSET DOMAIN raw /\ shown \in SUBSET DOMAIN raw
  OBVIOUS
<1> HIDE DEF kept, shown
<1>4. Enumerates(left, shown) /\ Enumerates(figures, kept)
  BY <1>2, <1>3, AscendingIs
<1>5. markdown \in Seq(Tokens)
  <2>1. ASSUME NEW k \in DOMAIN left PROVE markdown[k] \in Tokens
    <3>1. left[k] \in Nat
      BY <1>2, <1>3, <1>4 DEF Enumerates
    <3>2. Rank(left[k], kept) \in Nat
      BY <1>2, <1>3, RankIs
    <3> HIDE DEF left
    <3> QED BY <3>1, <3>2 DEF Tokens
  <2> HIDE DEF left
  <2>2. DOMAIN markdown = DOMAIN left /\ markdown = [k \in DOMAIN markdown |-> markdown[k]]
    OBVIOUS
  <2> HIDE DEF markdown
  <2> QED BY <1>4, <2>1, <2>2, MadeOf
<1>6. blocks \in Seq(Blocks)
  <2>1. ASSUME NEW k \in DOMAIN figures PROVE blocks[k] \in Blocks
    <3>1. k - 1 \in Nat
      BY <1>4 DEF Enumerates
    <3>2. figures[k] \in kept
      BY <1>4 DEF Enumerates
    <3>3. raw[figures[k]] \in Usable
      BY <3>2 DEF kept
    <3>4. blocks[k] = Block("image", raw[figures[k]], k - 1, k - 1)
      OBVIOUS
    <3> HIDE DEF figures, blocks
    <3> QED BY <3>1, <3>3, <3>4 DEF Blocks, Block
  <2> HIDE DEF figures
  <2>2. DOMAIN blocks = DOMAIN figures /\ blocks = [k \in DOMAIN blocks |-> blocks[k]]
    OBVIOUS
  <2> HIDE DEF blocks
  <2> QED BY <1>4, <2>1, <2>2, MadeOf
<1> HIDE DEF markdown, blocks
<1> QED BY <1>1, <1>5, <1>6 DEF Admitted

\* A block that paddleocr_vl has found, with any number as its place.
AnyListItem == [label : {"text", "image", "furniture"}, box : Usable \cup {"off"}, order : Int]

\* And so does paddleocr_vl.
LEMMA PaddleIsAdmitted ==
  ASSUME NEW list \in Seq(AnyListItem)
  PROVE  PaddlePage(list) \in Admitted
<1> DEFINE all == DOMAIN list
           key == [i \in all |-> IF list[i].order >= 0 THEN list[i].order ELSE i - 1]
           order == Sorted(all, By(key, all))
           item(p) == list[order[p]]
           figures == {p \in all : item(p).label = "image" /\ item(p).box \in Usable}
           kept == {p \in figures : Rank(p, figures) < MaxFigures}
           shown == {p \in all : item(p).label = "text"} \cup kept
           listed == {p \in all : item(p).label # "image"} \cup kept
           left == Ascending(shown)
           chosen == Ascending(listed)
           markdown == [k \in DOMAIN left |-> IF left[k] \in kept THEN Figure(Rank(left[k], kept))
                                              ELSE Text(order[left[k]])]
           block(p) == IF p \in kept THEN Block("image", item(p).box, p - 1, Rank(p, kept))
                       ELSE Block("text", IF item(p).box \in Usable THEN item(p).box ELSE "none",
                                  p - 1, NoFigure)
           blocks == [k \in DOMAIN chosen |-> block(chosen[k])]
<1>1. PaddlePage(list) = [markdown |-> markdown, blocks |-> blocks]
  BY DEF PaddlePage
<1>2. /\ Len(list) \in Nat /\ all = 1..Len(list)
      /\ \A T \in SUBSET all : T \in SUBSET Int /\ IsFiniteSet(T)
  BY PlacesAreFinite
<1>3. Enumerates(order, all) /\ Cardinality(all) = Len(list)
  <2>1. \A i \in all : key[i] \in Int
    <3>1. \A i \in all : list[i] \in AnyListItem /\ i \in Int
      BY <1>2
    <3>2. \A i \in all : list[i].order \in Int /\ i \in Int
      BY <3>1 DEF AnyListItem
    <3> QED BY <3>2
  <2>2. all \in SUBSET Int /\ IsFiniteSet(all)
    BY <1>2
  <2>3. Cardinality(all) = Len(list)
    BY <1>2, FS_Interval
  <2> HIDE DEF all, key
  <2> QED BY <2>1, <2>2, <2>3, ByKeyIs
<1>4. \A p \in all : order[p] \in Nat /\ item(p) \in AnyListItem
  <2>1. \A p \in all : order[p] \in all
    BY <1>2, <1>3 DEF Enumerates
  <2>2. \A i \in all : list[i] \in AnyListItem /\ i \in Nat
    BY <1>2
  <2> HIDE DEF order
  <2> QED BY <2>1, <2>2
<1>5. kept \in SUBSET all /\ shown \in SUBSET all /\ listed \in SUBSET all
  OBVIOUS
<1> HIDE DEF kept, shown, listed, order
<1>6. Enumerates(left, shown) /\ Enumerates(chosen, listed)
  BY <1>2, <1>5, AscendingIs
<1>7. markdown \in Seq(Tokens)
  <2>1. ASSUME NEW k \in DOMAIN left PROVE markdown[k] \in Tokens
    <3>1. left[k] \in all
      BY <1>5, <1>6 DEF Enumerates
    <3>2. order[left[k]] \in Nat
      BY <1>4, <3>1
    <3>3. Rank(left[k], kept) \in Nat
      BY <1>2, <1>5, RankIs
    <3> HIDE DEF left
    <3> QED BY <3>2, <3>3 DEF Tokens
  <2> HIDE DEF left
  <2>2. DOMAIN markdown = DOMAIN left /\ markdown = [k \in DOMAIN markdown |-> markdown[k]]
    OBVIOUS
  <2> HIDE DEF markdown
  <2> QED BY <1>6, <2>1, <2>2, MadeOf
<1>8. blocks \in Seq(Blocks)
  <2>1. ASSUME NEW k \in DOMAIN chosen PROVE blocks[k] \in Blocks
    <3>1. chosen[k] \in all
      BY <1>5, <1>6 DEF Enumerates
    <3>2. chosen[k] - 1 \in Int
      BY <1>2, <3>1
    <3>3. chosen[k] \in kept => item(chosen[k]).box \in Usable
      BY DEF kept
    <3>4. Rank(chosen[k], kept) \in Nat
      BY <1>2, <1>5, RankIs
    <3>5. blocks[k] = block(chosen[k])
      OBVIOUS
    <3>6. \A b \in Usable \cup {"none"}, m \in Int, f \in Nat :
            Block("image", b, m, f) \in Blocks /\ Block("text", b, m, NoFigure) \in Blocks
      BY DEF Blocks, Block
    <3> HIDE DEF chosen, item, blocks
    <3> QED BY <3>2, <3>3, <3>4, <3>5, <3>6
  <2> HIDE DEF chosen, block
  <2>2. DOMAIN blocks = DOMAIN chosen /\ blocks = [k \in DOMAIN blocks |-> blocks[k]]
    OBVIOUS
  <2> HIDE DEF blocks
  <2> QED BY <1>6, <2>1, <2>2, MadeOf
<1> HIDE DEF markdown, blocks
<1> QED BY <1>1, <1>7, <1>8 DEF Admitted

\* Every answer is admitted.
LEMMA AnswersAreAdmitted ==
  ASSUME NEW worked \in Nat, NEW answer \in Answers(worked)
  PROVE  answer \in Admitted
<1>1. MaxBlocks \in Nat /\ Smaller(worked) \in Nat
  BY PageContentAssumption DEF Smaller
<1>2. \A S, T : \A m \in Nat : S \subseteq T => SeqsUpTo(S, m) \subseteq Seq(T)
  BY DEF SeqsUpTo
<1>3. CASE \E raw \in SeqsUpTo(RawItems, worked) : answer = OvisPage(raw)
  <2> QED BY <1>2, <1>3, OvisIsAdmitted
<1>4. CASE \E list \in SeqsUpTo(ListItems, Smaller(worked)) : answer = PaddlePage(list)
  <2>1. ListItems \subseteq AnyListItem
    BY <1>1 DEF ListItems, AnyListItem, Usable
  <2> QED BY <1>1, <1>2, <1>4, <2>1, PaddleIsAdmitted
<1> DEFINE mds == SeqsUpTo({Text(1)} \cup {Figure(k) : k \in 0..(MaxBlocks - 1)}, Smaller(worked))
           bss == SeqsUpTo(AnyBlock, Smaller(worked))
<1>5. CASE answer \in [markdown : mds, blocks : bss]
  <2>1. {Text(1)} \cup {Figure(k) : k \in 0..(MaxBlocks - 1)} \subseteq Tokens
    BY <1>1 DEF Tokens
  <2>2. AnyBlock \subseteq Blocks
    BY <1>1 DEF AnyBlock, Blocks, Usable
  <2>3. mds \subseteq Seq(Tokens) /\ bss \subseteq Seq(Blocks)
    BY <1>1, <1>2, <2>1, <2>2
  <2> HIDE DEF mds, bss
  <2> QED BY <1>5, <2>3 DEF Admitted
<1>6. \/ answer \in {OvisPage(raw) : raw \in SeqsUpTo(RawItems, worked)}
      \/ answer \in {PaddlePage(list) : list \in SeqsUpTo(ListItems, Smaller(worked))}
      \/ answer \in [markdown : mds, blocks : bss]
  BY Zenon DEF Answers
<1> HIDE DEF mds, bss
<1> QED BY <1>3, <1>4, <1>5, <1>6

\* A page that is sanitized is sane: of the images that are kept the first that has a number
\* keeps it.
LEMMA SanitizeIsSane ==
  ASSUME NEW page \in Admitted
  PROVE  Sanitize(page) \in Sane
<1> DEFINE all == DOMAIN page.blocks
           key == [i \in all |-> page.blocks[i].order]
           order == Sorted(all, By(key, all))
           item(p) == page.blocks[order[p]]
           fit == {p \in all : item(p).type = "image" /\ item(p).box \in Usable}
           kept == {p \in fit : Rank(p, fit) < MaxFigures}
           taken(p) == \E q \in kept : q < p /\ item(q).figure = item(p).figure
           shown == {p \in all : item(p).type # "image"} \cup kept
           left == Ascending(shown)
           figure(p) == IF p \in kept /\ ~taken(p) THEN item(p).figure ELSE NoFigure
           bs == [k \in DOMAIN left |-> [item(left[k]) EXCEPT !.figure = figure(left[k])]]
           sane == [page EXCEPT !.blocks = bs]
<1>1. Sanitize(page) = sane
  BY DEF Sanitize
<1>2. page.markdown \in Seq(Tokens) /\ page.blocks \in Seq(Blocks)
  BY DEF Admitted
<1>3. /\ Len(page.blocks) \in Nat /\ all = 1..Len(page.blocks)
      /\ \A T \in SUBSET all : T \in SUBSET Int /\ IsFiniteSet(T)
  BY <1>2, PlacesAreFinite
<1>4. \A i \in all : page.blocks[i] \in Blocks
  BY <1>2, <1>3
<1>5. \A p \in all : item(p) \in Blocks
  <2>1. \A i \in all : key[i] \in Int
    <3>1. \A i \in all : page.blocks[i].order \in Int
      BY <1>4 DEF Blocks
    <3> QED BY <3>1
  <2>2. all \in SUBSET Int /\ IsFiniteSet(all) /\ Cardinality(all) = Len(page.blocks)
    BY <1>3, FS_Interval
  <2>3. Enumerates(order, all)
    <3> HIDE DEF all, key
    <3> QED BY <2>1, <2>2, ByKeyIs
  <2>4. \A p \in all : order[p] \in all
    BY <1>3, <2>2, <2>3 DEF Enumerates
  <2> HIDE DEF order, all
  <2> QED BY <1>4, <2>4
<1>6. shown \in SUBSET all /\ kept \in SUBSET all
  OBVIOUS
<1>7. \A p \in kept : item(p).box \in Usable
  OBVIOUS
<1>8. \A p \in shown : item(p).type = "image" => p \in kept
  OBVIOUS
<1> HIDE DEF item, fit, kept, shown
<1>9. Enumerates(left, shown)
  BY <1>3, <1>6, AscendingIs
<1>10. \A k \in DOMAIN left : left[k] \in shown
  BY <1>9 DEF Enumerates
<1>11. \A k, l \in DOMAIN left : left[k] = left[l] => k = l
  BY <1>9 DEF Enumerates
<1> HIDE DEF all, left
<1>12. \A p \in all : figure(p) \in Nat \cup {NoFigure}
  <2>1. \A p \in all : item(p).figure \in Nat \cup {NoFigure}
    BY <1>5 DEF Blocks
  <2> QED BY <2>1
<1>13. ASSUME NEW p \in kept, NEW q \in kept, figure(p) = figure(q), figure(p) # NoFigure
       PROVE  p = q
  <2>1. item(p).figure = item(q).figure /\ ~taken(p) /\ ~taken(q)
    BY <1>13
  <2>2. ~(q < p) /\ ~(p < q)
    BY <2>1
  <2>3. p \in Int /\ q \in Int
    BY <1>3, <1>6
  <2> QED BY <2>2, <2>3
<1> HIDE DEF figure
<1>14. ASSUME NEW k \in DOMAIN left
       PROVE  /\ bs[k] \in Blocks /\ bs[k].type = item(left[k]).type
              /\ bs[k].box = item(left[k]).box /\ bs[k].figure = figure(left[k])
  <2> DEFINE p == left[k]
  <2>1. item(p) \in Blocks /\ figure(p) \in Nat \cup {NoFigure}
    BY <1>5, <1>6, <1>10, <1>12
  <2>2. bs[k] = [item(p) EXCEPT !.figure = figure(p)]
    OBVIOUS
  <2> HIDE DEF p, bs
  <2>3. bs[k] \in Blocks
    BY <2>1, <2>2 DEF Blocks
  <2>4. bs[k].type = item(p).type /\ bs[k].box = item(p).box
    BY <2>1, <2>2 DEF Blocks
  <2>5. bs[k].figure = figure(p)
    BY <2>1, <2>2 DEF Blocks
  <2> QED BY <2>3, <2>4, <2>5 DEF p
<1>15. DOMAIN bs = DOMAIN left /\ bs = [k \in DOMAIN bs |-> bs[k]]
  OBVIOUS
<1> HIDE DEF bs
<1>16. bs \in Seq(Blocks)
  BY <1>9, <1>14, <1>15, MadeOf
<1>17. sane \in Admitted /\ sane.blocks = bs
  BY <1>2, <1>16 DEF Admitted
<1> HIDE DEF sane
<1>18. Images(sane) = {k \in DOMAIN left : item(left[k]).type = "image"}
  BY <1>14, <1>15, <1>17 DEF Images
<1>19. \A k \in Images(sane) : left[k] \in kept /\ k \in DOMAIN left
  BY <1>8, <1>10, <1>18
<1>20. \A k \in Images(sane) : sane.blocks[k].box \in Usable
  BY <1>7, <1>14, <1>17, <1>19
<1>21. ASSUME NEW k \in Images(sane), NEW l \in Images(sane),
              sane.blocks[k].figure = sane.blocks[l].figure
       PROVE  k = l \/ sane.blocks[k].figure = NoFigure
  BY <1>11, <1>13, <1>14, <1>17, <1>19, <1>21
<1> QED BY <1>1, <1>17, <1>20, <1>21 DEF Sane

-----------------------------------------------------------------------------
\* References and crops.

\* A saved crop has a box that can be used, and no other has its number.
LEMMA SavedIs ==
  ASSUME NEW page \in Sane, NEW worked \in Nat
  PROVE  /\ Saved(page, worked) \in SUBSET Nat /\ IsFiniteSet(Saved(page, worked))
         /\ Saved(page, worked) \subseteq Images(page)
         /\ Images(page) \subseteq DOMAIN page.blocks
         /\ \A p \in Saved(page, worked) : CropNumber(page, worked, p) \in Nat
         /\ \A p \in Images(page) : /\ page.blocks[p] \in Blocks
                                    /\ page.blocks[p].box \in Usable
         /\ \A p, q \in Saved(page, worked) :
              page.blocks[p].figure = page.blocks[q].figure
                => p = q \/ page.blocks[p].figure = NoFigure
<1>1. page \in Admitted /\ page.blocks \in Seq(Blocks)
  BY DEF Sane, Admitted
<1>2. /\ Len(page.blocks) \in Nat /\ DOMAIN page.blocks = 1..Len(page.blocks)
      /\ \A T \in SUBSET DOMAIN page.blocks : T \in SUBSET Int /\ IsFiniteSet(T)
  BY <1>1, PlacesAreFinite
<1>3. Saved(page, worked) \subseteq Images(page) /\ Images(page) \subseteq DOMAIN page.blocks
  BY DEF Saved, Images
<1>4. Saved(page, worked) \in SUBSET Nat /\ Saved(page, worked) \in SUBSET Int
  BY <1>2, <1>3
<1>5. IsFiniteSet(Saved(page, worked))
  BY <1>2, <1>3
<1>6. \A p \in Saved(page, worked) : CropNumber(page, worked, p) \in Nat
  BY <1>4, <1>5, RankIs DEF CropNumber
<1>7. \A p \in DOMAIN page.blocks : page.blocks[p] \in Blocks
  BY <1>1, <1>2, ElementOfSeq
<1> QED BY <1>3, <1>4, <1>5, <1>6, <1>7 DEF Sane

\* The shapes of tokens.
LEMMA TokensAre ==
  /\ \A x : Ref(x)[1] = "ref" /\ Ref(x)[2] = x /\ ~IsFigure(Ref(x))
  /\ \A t \in Tokens : t[1] # "ref" /\ (IsFigure(t) => t[2] \in Nat)
  /\ \A x : Ref(x) \notin Tokens
BY DEF Ref, Tokens, Text, Figure, IsFigure

\* What is referred to.
LEMMA ReferencesAre ==
  ASSUME NEW md, NEW x
  PROVE  x \in References(md) <=> \E i \in DOMAIN md : md[i][1] = "ref" /\ md[i][2] = x
BY DEF References

\* The references of two texts in a row.
LEMMA ReferencesJoin ==
  ASSUME NEW T, NEW s \in Seq(T), NEW t \in Seq(T)
  PROVE  References(s \o t) = References(s) \cup References(t)
<1>1. /\ Len(s) \in Nat /\ Len(t) \in Nat /\ DOMAIN s = 1..Len(s) /\ DOMAIN t = 1..Len(t)
      /\ s \o t \in Seq(T) /\ Len(s \o t) = Len(s) + Len(t)
      /\ \A i \in 1..(Len(s) + Len(t)) : (s \o t)[i] = IF i <= Len(s) THEN s[i] ELSE t[i - Len(s)]
  BY LenProperties, ConcatProperties
<1>2. DOMAIN (s \o t) = 1..(Len(s) + Len(t))
  BY <1>1, LenProperties
<1>3. \A i \in DOMAIN s : i \in DOMAIN (s \o t) /\ (s \o t)[i] = s[i]
  BY <1>1, <1>2
<1>4. \A i \in DOMAIN t : i + Len(s) \in DOMAIN (s \o t) /\ (s \o t)[i + Len(s)] = t[i]
  BY <1>1, <1>2
<1>5. \A i \in DOMAIN (s \o t) : \/ i \in DOMAIN s
                                 \/ i - Len(s) \in DOMAIN t /\ (s \o t)[i] = t[i - Len(s)]
  BY <1>1, <1>2
<1> DEFINE st == s \o t
<1>6. ASSUME NEW x \in References(st) PROVE x \in References(s) \/ x \in References(t)
  <2>1. PICK i \in DOMAIN st : st[i][1] = "ref" /\ st[i][2] = x
    BY <1>6, ReferencesAre
  <2>2. CASE i \in DOMAIN s
    <3>1. st[i] = s[i]
      BY <1>3, <2>2
    <3> HIDE DEF st
    <3> QED BY <2>1, <2>2, <3>1, ReferencesAre
  <2>3. CASE i - Len(s) \in DOMAIN t /\ st[i] = t[i - Len(s)]
    <3> HIDE DEF st
    <3> QED BY <2>1, <2>3, ReferencesAre
  <2> QED BY <1>5, <2>2, <2>3
<1>7. ASSUME NEW x \in References(s) PROVE x \in References(st)
  <2>1. PICK i \in DOMAIN s : s[i][1] = "ref" /\ s[i][2] = x
    BY ReferencesAre, <1>7
  <2>2. i \in DOMAIN st /\ st[i] = s[i]
    BY <1>3
  <2> HIDE DEF st
  <2> QED BY <2>1, <2>2, ReferencesAre
<1>8. ASSUME NEW x \in References(t) PROVE x \in References(st)
  <2>1. PICK i \in DOMAIN t : t[i][1] = "ref" /\ t[i][2] = x
    BY ReferencesAre, <1>8
  <2>2. i + Len(s) \in DOMAIN st /\ st[i + Len(s)] = t[i]
    BY <1>4
  <2> HIDE DEF st
  <2> QED BY <2>1, <2>2, ReferencesAre
<1> QED BY <1>6, <1>7, <1>8

\* What takes the place of the placeholders are the references found for their numbers.
LEMMA ReplaceIs ==
  ASSUME NEW md \in Seq(Tokens), NEW found,
         \A f \in DOMAIN found : \E x \in Nat \X Nat : found[f] = Ref(x)
  PROVE  /\ Replace(md, found) \in Seq(Written)
         /\ References(Replace(md, found)) = {found[f][2] : f \in Numbers(md) \cap DOMAIN found}
<1> DEFINE places == {i \in DOMAIN md : IsFigure(md[i]) => md[i][2] \in DOMAIN found}
           left == Ascending(places)
           token(i) == IF IsFigure(md[i]) THEN found[md[i][2]] ELSE md[i]
           text == [k \in DOMAIN left |-> token(left[k])]
<1>1. Replace(md, found) = text
  BY DEF Replace
<1>2. /\ Len(md) \in Nat /\ DOMAIN md = 1..Len(md) /\ \A i \in DOMAIN md : md[i] \in Tokens
      /\ \A T \in SUBSET DOMAIN md : T \in SUBSET Int /\ IsFiniteSet(T)
  BY PlacesAreFinite
<1>3. Enumerates(left, places)
  <2>1. places \in SUBSET DOMAIN md
    OBVIOUS
  <2> HIDE DEF places
  <2> QED BY <1>2, <2>1, AscendingIs
<1>4. \A k \in DOMAIN left : left[k] \in places
  BY <1>3 DEF Enumerates
<1>5. \A i \in places : \E k \in DOMAIN left : left[k] = i
  BY <1>3 DEF Enumerates
<1> HIDE DEF left
<1>6. DOMAIN text = DOMAIN left /\ \A k \in DOMAIN left : text[k] = token(left[k])
  OBVIOUS
<1>7. \A i \in places : token(i) \in Written
  BY <1>2 DEF Written
<1>8. text \in Seq(Written)
  <2>1. text = [k \in DOMAIN text |-> text[k]] /\ \A k \in DOMAIN left : text[k] \in Written
    BY <1>4, <1>6, <1>7
  <2> HIDE DEF text, places, token
  <2> QED BY <1>3, <1>6, <2>1, MadeOf
<1>9. \A i \in places : token(i)[1] = "ref" =>
        md[i][2] \in Numbers(md) \cap DOMAIN found /\ token(i)[2] = found[md[i][2]][2]
  BY <1>2, TokensAre DEF Numbers
<1>10. ASSUME NEW f \in Numbers(md) \cap DOMAIN found
       PROVE  \E i \in places : token(i)[1] = "ref" /\ token(i)[2] = found[f][2]
  <2>1. PICK i \in DOMAIN md : IsFigure(md[i]) /\ md[i][2] = f
    BY DEF Numbers
  <2>2. i \in places /\ token(i) = found[f]
    BY <2>1
  <2> QED BY <2>2, TokensAre
<1> HIDE DEF text, token, places
<1>11. References(text) \subseteq {found[f][2] : f \in Numbers(md) \cap DOMAIN found}
  BY <1>4, <1>6, <1>9 DEF References
<1>12. ASSUME NEW f \in Numbers(md) \cap DOMAIN found PROVE found[f][2] \in References(text)
  <2>1. PICK i \in places : token(i)[1] = "ref" /\ token(i)[2] = found[f][2]
    BY <1>10
  <2>2. PICK k \in DOMAIN left : left[k] = i
    BY <1>5
  <2>3. k \in DOMAIN text /\ text[k][1] = "ref" /\ text[k][2] = found[f][2]
    BY <1>6, <2>1, <2>2
  <2> QED BY <2>3 DEF References
<1> QED BY <1>1, <1>8, <1>11, <1>12

\* A reference to each crop of a set.
LEMMA ReferencesTo ==
  ASSUME NEW S, NEW ps, Enumerates(ps, S), NEW names, \A p \in S : names[p] \in Nat \X Nat
  PROVE  LET refs == [i \in DOMAIN ps |-> Ref(names[ps[i]])]
         IN refs \in Seq(Written) /\ References(refs) = {names[p] : p \in S}
<1> DEFINE refs == [i \in DOMAIN ps |-> Ref(names[ps[i]])]
<1>1. \A i \in DOMAIN ps : ps[i] \in S
  BY DEF Enumerates
<1>2. \A p \in S : \E i \in DOMAIN ps : ps[i] = p
  BY DEF Enumerates
<1>3. DOMAIN refs = DOMAIN ps /\ \A i \in DOMAIN ps : refs[i] = Ref(names[ps[i]])
  OBVIOUS
<1>4. \A i \in DOMAIN ps : refs[i] \in Written
  BY <1>1, <1>3 DEF Written
<1>5. refs = [i \in DOMAIN refs |-> refs[i]]
  OBVIOUS
<1> HIDE DEF refs
<1>6. refs \in Seq(Written)
  BY <1>3, <1>4, <1>5, MadeOf
<1>7. \A i \in DOMAIN refs : refs[i][1] = "ref" /\ refs[i][2] = names[ps[i]]
  BY <1>3, TokensAre
<1>8. References(refs) = {names[p] : p \in S}
  BY <1>1, <1>2, <1>3, <1>7 DEF References
<1> QED BY <1>6, <1>8 DEF refs

\* The crops that are saved are referred to, and nothing else: in the place of the
\* placeholder that names the crop, or after that.
LEMMA CropsAreReferenced ==
  ASSUME NEW page \in Sane, NEW worked \in Nat, NEW local \in Nat
  PROVE  /\ Markdown(page, local, worked) \in Seq(Written)
         /\ References(Markdown(page, local, worked)) = {f.name : f \in Crops(page, local, worked)}
         /\ Len(Placed(page, local, worked)) <= Len(Markdown(page, local, worked))
         /\ \A k \in 1..Len(Placed(page, local, worked)) :
              Markdown(page, local, worked)[k] = Placed(page, local, worked)[k]
<1> DEFINE saved == Saved(page, worked)
           name(p) == Name(page, local, worked, p)
           names == [p \in saved |-> name(p)]
           figure == [p \in saved |-> page.blocks[p].figure]
           numbers == Numbers(page.markdown)
           first(f) == CHOOSE p \in saved : page.blocks[p].figure = f
           found == [f \in {page.blocks[p].figure : p \in saved} |-> Ref(name(first(f)))]
           unnamed == {p \in saved : figure[p] \notin numbers \cup {NoFigure}}
           leftovers == Sorted(unnamed, By(figure, unnamed))
           nameless == {p \in saved : figure[p] = NoFigure}
           orphans == Ascending(nameless)
           refs(ps) == [i \in DOMAIN ps |-> Ref(name(ps[i]))]
           placed == Replace(page.markdown, found)
<1>1. /\ Markdown(page, local, worked) = placed \o refs(leftovers) \o refs(orphans)
      /\ Placed(page, local, worked) = placed
  BY DEF Markdown, Placed
<1>2. page.markdown \in Seq(Tokens)
  BY DEF Sane, Admitted
<1>3. /\ saved \in SUBSET Nat /\ IsFiniteSet(saved)
      /\ \A p \in saved : CropNumber(page, worked, p) \in Nat /\ page.blocks[p] \in Blocks
      /\ \A p, q \in saved : page.blocks[p].figure = page.blocks[q].figure
                               => p = q \/ page.blocks[p].figure = NoFigure
  BY SavedIs
<1> HIDE DEF saved
<1>4. \A p \in saved : name(p) \in Nat \X Nat /\ names[p] = name(p)
  BY <1>3 DEF Name
<1>5. \A p \in saved : figure[p] = page.blocks[p].figure /\ figure[p] \in Nat \cup {NoFigure}
  BY <1>3 DEF Blocks
<1> HIDE DEF name
<1>6. {f.name : f \in Crops(page, local, worked)} = {name(p) : p \in saved}
  <2>1. Crops(page, local, worked) = {[name |-> name(p), box |-> page.blocks[p].box] : p \in saved}
    BY DEF Crops, name, saved
  <2> DEFINE crop(p) == [name |-> name(p), box |-> page.blocks[p].box]
  <2>2. \A p \in saved : crop(p).name = name(p)
    OBVIOUS
  <2>3. Crops(page, local, worked) = {crop(p) : p \in saved}
    BY <2>1
  <2> HIDE DEF crop
  <2> QED BY <2>2, <2>3
<1>7. numbers \subseteq Nat
  <2>1. \A i \in DOMAIN page.markdown : page.markdown[i] \in Tokens
    BY <1>2, PlacesAreFinite
  <2> QED BY <2>1, TokensAre DEF Numbers
<1> HIDE DEF numbers, figure, names
<1>8. \A f \in DOMAIN found : first(f) \in saved /\ page.blocks[first(f)].figure = f
  OBVIOUS
<1>9. DOMAIN found = {figure[p] : p \in saved} /\ \A f \in DOMAIN found : found[f] = Ref(name(first(f)))
  BY <1>5
<1> HIDE DEF first, found
<1>10. \A f \in DOMAIN found : \E x \in Nat \X Nat : found[f] = Ref(x)
  BY <1>4, <1>8, <1>9
<1>11. /\ placed \in Seq(Written)
       /\ References(placed) = {found[f][2] : f \in Numbers(page.markdown) \cap DOMAIN found}
  BY <1>2, <1>10, ReplaceIs
<1>12. References(placed) = {name(first(f)) : f \in numbers \cap DOMAIN found}
  <2>1. \A f \in DOMAIN found : found[f][2] = name(first(f))
    BY <1>9, TokensAre
  <2> QED BY <1>11, <2>1 DEF numbers
<1> HIDE DEF placed
<1>13. /\ unnamed \in SUBSET saved /\ IsFiniteSet(unnamed) /\ unnamed \in SUBSET Int
       /\ nameless \in SUBSET saved /\ IsFiniteSet(nameless) /\ nameless \in SUBSET Int
  <2>1. unnamed \in SUBSET saved /\ nameless \in SUBSET saved
    OBVIOUS
  <2>2. \A p \in saved : p \in Int
    <3>1. saved \in SUBSET Nat
      BY <1>3
    <3>2. \A p \in saved : p \in Nat
      BY <3>1
    <3> QED BY <3>2
  <2> HIDE DEF unnamed, nameless
  <2>3. IsFiniteSet(unnamed) /\ IsFiniteSet(nameless)
    BY <1>3, <2>1, FS_Subset
  <2> QED BY <2>1, <2>2, <2>3
<1>14. Enumerates(leftovers, unnamed) /\ Enumerates(orphans, nameless)
  <2>1. \A p \in unnamed : figure[p] \in Int
    BY <1>5, <1>13
  <2> HIDE DEF unnamed, nameless
  <2> QED BY <1>13, <2>1, ByKeyIs, AscendingIs
<1>15. /\ refs(leftovers) \in Seq(Written)
       /\ References(refs(leftovers)) = {name(p) : p \in unnamed}
  <2>1. \A p \in unnamed : names[p] \in Nat \X Nat /\ names[p] = name(p)
    BY <1>4, <1>13
  <2>2. \A i \in DOMAIN leftovers : leftovers[i] \in unnamed
    BY <1>14 DEF Enumerates
  <2> HIDE DEF unnamed, leftovers
  <2>3. refs(leftovers) = [i \in DOMAIN leftovers |-> Ref(names[leftovers[i]])]
    BY <2>1, <2>2
  <2>4. {names[p] : p \in unnamed} = {name(p) : p \in unnamed}
    BY <2>1
  <2> QED BY <1>14, <2>1, <2>3, <2>4, ReferencesTo
<1>16. /\ refs(orphans) \in Seq(Written)
       /\ References(refs(orphans)) = {name(p) : p \in nameless}
  <2>1. \A p \in nameless : names[p] \in Nat \X Nat /\ names[p] = name(p)
    BY <1>4, <1>13
  <2>2. \A i \in DOMAIN orphans : orphans[i] \in nameless
    BY <1>14 DEF Enumerates
  <2> HIDE DEF nameless, orphans
  <2>3. refs(orphans) = [i \in DOMAIN orphans |-> Ref(names[orphans[i]])]
    BY <2>1, <2>2
  <2>4. {names[p] : p \in nameless} = {name(p) : p \in nameless}
    BY <2>1
  <2> QED BY <1>14, <2>1, <2>3, <2>4, ReferencesTo
<1> DEFINE most == placed \o refs(leftovers)
           md == most \o refs(orphans)
<1>17. /\ md \in Seq(Written)
       /\ References(md) = {name(first(f)) : f \in numbers \cap DOMAIN found}
                             \cup {name(p) : p \in unnamed} \cup {name(p) : p \in nameless}
  <2> HIDE DEF refs, leftovers, orphans, unnamed, nameless
  <2>1. most \in Seq(Written) /\ References(most) = References(placed) \cup References(refs(leftovers))
    BY <1>11, <1>15, ReferencesJoin
  <2> HIDE DEF most
  <2>2. md \in Seq(Written) /\ References(md) = References(most) \cup References(refs(orphans))
    BY <1>16, <2>1, ReferencesJoin
  <2> HIDE DEF md
  <2> QED BY <1>12, <1>15, <1>16, <2>1, <2>2
<1>18. ASSUME NEW p \in saved
       PROVE  \/ \E f \in numbers \cap DOMAIN found : first(f) = p
              \/ p \in unnamed \/ p \in nameless
  <2>1. CASE figure[p] \in numbers
    <3>1. figure[p] \in DOMAIN found /\ figure[p] # NoFigure
      BY <1>7, <1>9, <2>1 DEF NoFigure
    <3>2. first(figure[p]) \in saved /\ page.blocks[first(figure[p])].figure = page.blocks[p].figure
      BY <1>5, <1>8, <3>1
    <3>3. first(figure[p]) = p
      BY <1>3, <1>5, <3>1, <3>2
    <3> QED BY <2>1, <3>1, <3>3
  <2>2. CASE figure[p] \notin numbers
    BY <2>2
  <2> QED BY <2>1, <2>2
<1>19. {name(first(f)) : f \in numbers \cap DOMAIN found}
         \cup {name(p) : p \in unnamed} \cup {name(p) : p \in nameless}
       = {name(p) : p \in saved}
  <2> HIDE DEF unnamed, nameless
  <2>1. \A f \in numbers \cap DOMAIN found : first(f) \in saved
    BY <1>8
  <2> QED BY <1>13, <1>18, <2>1
<1>20. Len(placed) <= Len(md) /\ \A k \in 1..Len(placed) : md[k] = placed[k]
  <2> HIDE DEF refs, leftovers, orphans, unnamed, nameless
  <2>1. /\ Len(most) = Len(placed) + Len(refs(leftovers))
        /\ \A i \in 1..(Len(placed) + Len(refs(leftovers))) :
             most[i] = IF i <= Len(placed) THEN placed[i] ELSE refs(leftovers)[i - Len(placed)]
    BY <1>11, <1>15, ConcatProperties
  <2>4. most \in Seq(Written)
    BY <1>11, <1>15, ConcatProperties
  <2> HIDE DEF most
  <2>2. /\ Len(md) = Len(most) + Len(refs(orphans))
        /\ \A i \in 1..(Len(most) + Len(refs(orphans))) :
             md[i] = IF i <= Len(most) THEN most[i] ELSE refs(orphans)[i - Len(most)]
    BY <1>16, <2>4, ConcatProperties
  <2>3. Len(placed) \in Nat /\ Len(refs(leftovers)) \in Nat /\ Len(refs(orphans)) \in Nat
    BY <1>11, <1>15, <1>16, LenProperties
  <2> HIDE DEF md
  <2> QED BY <2>1, <2>2, <2>3
<1> HIDE DEF md, unnamed, nameless
<1>21. Markdown(page, local, worked) = md
  BY <1>1 DEF md
<1> QED BY <1>1, <1>6, <1>17, <1>19, <1>20, <1>21

-----------------------------------------------------------------------------
\* The layout.

\* Counting the members of a set where they are listed gives their rank.
LEMMA RanksAgree ==
  ASSUME NEW S \in SUBSET Int, IsFiniteSet(S), NEW T \in SUBSET S, NEW i \in 1..Cardinality(S)
  PROVE  Rank(i, {q \in 1..Cardinality(S) : Ascending(S)[q] \in T}) = Rank(Ascending(S)[i], T)
<1> DEFINE c == Cardinality(S)
           f == Ascending(S)
           A == {q \in {r \in 1..c : f[r] \in T} : q < i}
           B == {j \in T : j < f[i]}
           g == [q \in A |-> f[q]]
<1>1. /\ c \in Nat /\ f \in [1..c -> S]
      /\ \A j \in S : \E k \in 1..c : f[k] = j
      /\ \A j, k \in 1..c : f[j] = f[k] => j = k
      /\ \A j, k \in 1..c : j < k => f[j] < f[k]
  BY AscendingIs DEF Enumerates
<1>2. i \in 1..c
  OBVIOUS
<1> HIDE DEF c, f
<1>3. \A q \in 1..c : f[q] \in Int /\ f[q] \in S /\ q \in Int
  <2> TAKE q \in 1..c
  <2>1. f[q] \in S
    BY <1>1
  <2>2. f[q] \in Int
    BY <2>1
  <2> QED BY <1>1, <2>1, <2>2
<1>4. \A q \in 1..c : q < i <=> f[q] < f[i]
  <2> TAKE q \in 1..c
  <2>1. f[q] \in Int /\ f[i] \in Int /\ q \in Int /\ i \in Int
    BY <1>2, <1>3
  <2>2. q < i => f[q] < f[i]
    BY <1>1, <1>2
  <2>3. i < q => f[i] < f[q]
    BY <1>1, <1>2
  <2>4. q = i => f[q] = f[i]
    OBVIOUS
  <2> QED BY <2>1, <2>2, <2>3, <2>4
<1>5. \A q \in A : q \in 1..c /\ f[q] \in B
  BY <1>4
<1>6. g \in [A -> B]
  BY <1>5
<1>7. \A q, r \in A : g[q] = g[r] => q = r
  BY <1>1, <1>5
<1>8. \A j \in B : \E q \in A : g[q] = j
  <2> TAKE j \in B
  <2>1. PICK q \in 1..c : f[q] = j
    BY <1>1
  <2>2. q \in A
    BY <1>4, <2>1
  <2> QED BY <2>1, <2>2
<1> HIDE DEF g
<1>9. g \in Bijection(A, B)
  BY <1>6, <1>7, <1>8 DEF Bijection, Injection, Surjection, IsInjective
<1>10. IsFiniteSet(A)
  <2>1. IsFiniteSet(1..c) /\ A \subseteq 1..c
    BY <1>1, FS_Interval
  <2> QED BY <2>1, FS_Subset
<1>11. Cardinality(A) = Cardinality(B)
  <2> HIDE DEF A, B
  <2> QED BY <1>9, <1>10, FS_Bijection DEF ExistsBijection
<1> QED BY <1>11 DEF Rank, c, f

\* The images of raw_pages.json are the saved crops, and counting them gives the numbers of
\* the crops.
LEMMA RawPageIs ==
  ASSUME NEW page \in Sane, NEW worked \in 0..Len(page.blocks)
  PROVE  LET raw == RawPage(page, worked)
         IN /\ raw \in Seq(Shown)
            /\ \A i \in DOMAIN raw : raw[i].image =>
                 \E p \in Saved(page, worked) :
                   /\ raw[i].box = page.blocks[p].box
                   /\ Rank(i, {q \in DOMAIN raw : raw[q].image}) = CropNumber(page, worked, p)
<1> DEFINE saved == Saved(page, worked)
           there == {p \in 1..worked : /\ page.blocks[p].box # "none"
                                       /\ p \in Images(page) => p \in saved}
           left == Ascending(there)
           raw == [k \in DOMAIN left |-> [image |-> left[k] \in Images(page),
                                          box |-> page.blocks[left[k]].box]]
<1>1. RawPage(page, worked) = raw
  BY DEF RawPage
<1>2. /\ page.blocks \in Seq(Blocks) /\ Len(page.blocks) \in Nat
      /\ DOMAIN page.blocks = 1..Len(page.blocks) /\ worked \in Nat /\ worked <= Len(page.blocks)
  <2>1. page.blocks \in Seq(Blocks)
    BY DEF Sane, Admitted
  <2>2. Len(page.blocks) \in Nat /\ DOMAIN page.blocks = 1..Len(page.blocks)
    BY <2>1, PlacesAreFinite
  <2> QED BY <2>1, <2>2
<1>3. \A p \in 1..worked : page.blocks[p] \in Blocks
  BY <1>2
<1>4. /\ saved \subseteq Images(page) /\ Images(page) \subseteq DOMAIN page.blocks
      /\ \A p \in Images(page) : page.blocks[p].box \in Usable
  BY <1>2, SavedIs
<1>5. saved \subseteq there
  <2>1. \A p \in saved : p \in 1..worked
    BY <1>2, <1>4 DEF Saved
  <2>2. \A p \in saved : page.blocks[p].box # "none"
    BY <1>4 DEF Usable
  <2> HIDE DEF saved
  <2> QED BY <2>1, <2>2
<1>6. there \subseteq 1..worked /\ \A p \in there : p \in Images(page) => p \in saved
  OBVIOUS
<1>7. there \in SUBSET Int /\ IsFiniteSet(there)
  <2>1. IsFiniteSet(1..worked) /\ 1..worked \subseteq Int
    BY <1>2, FS_Interval
  <2> HIDE DEF there
  <2> QED BY <1>6, <2>1, FS_Subset
<1> HIDE DEF there, saved
<1>8. Enumerates(left, there)
  BY <1>7, AscendingIs
<1>9. DOMAIN left = 1..Cardinality(there) /\ \A k \in DOMAIN left : left[k] \in there
  BY <1>8 DEF Enumerates
<1>10. \A k \in 1..Cardinality(there) :
         Rank(k, {q \in 1..Cardinality(there) : left[q] \in saved}) = Rank(left[k], saved)
  BY <1>5, <1>7, RanksAgree
<1> HIDE DEF left
<1>11. DOMAIN raw = DOMAIN left /\ \A k \in DOMAIN left :
          /\ raw[k] = [image |-> left[k] \in Images(page), box |-> page.blocks[left[k]].box]
          /\ raw[k].image <=> left[k] \in saved
  BY <1>4, <1>6, <1>9
<1>12. raw \in Seq(Shown)
  <2>1. raw = [k \in DOMAIN raw |-> raw[k]]
    OBVIOUS
  <2>2. \A k \in DOMAIN left : raw[k] \in Shown
    <3> TAKE k \in DOMAIN left
    <3> DEFINE image == left[k] \in Images(page)
               box == page.blocks[left[k]].box
    <3>1. \A p \in 1..worked : page.blocks[p].box \in Usable \cup {"none"}
      BY <1>3 DEF Blocks
    <3>2. box \in Usable \cup {"none"}
      BY <1>6, <1>9, <3>1
    <3>3. image \in BOOLEAN
      OBVIOUS
    <3>4. raw[k] = [image |-> image, box |-> box]
      OBVIOUS
    <3> HIDE DEF image, box, raw
    <3> QED BY <3>2, <3>3, <3>4 DEF Shown
  <2> HIDE DEF raw
  <2> QED BY <1>8, <1>11, <2>1, <2>2, MadeOf
<1> HIDE DEF raw
<1>13. {q \in DOMAIN raw : raw[q].image} = {q \in 1..Cardinality(there) : left[q] \in saved}
  BY <1>9, <1>11
<1>14. ASSUME NEW i \in DOMAIN raw, raw[i].image
       PROVE  \E p \in saved : /\ raw[i].box = page.blocks[p].box
                               /\ Rank(i, {q \in DOMAIN raw : raw[q].image})
                                    = CropNumber(page, worked, p)
  <2>1. left[i] \in saved /\ raw[i].box = page.blocks[left[i]].box
    BY <1>11, <1>14
  <2>2. Rank(i, {q \in DOMAIN raw : raw[q].image}) = CropNumber(page, worked, left[i])
    BY <1>9, <1>10, <1>11, <1>13 DEF CropNumber, saved
  <2> QED BY <2>1, <2>2
<1> QED BY <1>1, <1>12, <1>14 DEF saved

-----------------------------------------------------------------------------
\* The live view.

\* Of a set of numbers and a part of it: the part in order is what the whole in order leaves
\* of it.
LEMMA PartsInOrder ==
  ASSUME NEW S \in SUBSET Int, IsFiniteSet(S), NEW T \in SUBSET S
  PROVE  LET K == {k \in 1..Cardinality(S) : Ascending(S)[k] \in T}
         IN /\ Cardinality(K) = Cardinality(T)
            /\ \A j \in 1..Cardinality(T) : Ascending(S)[Ascending(K)[j]] = Ascending(T)[j]
<1> DEFINE c == Cardinality(S)
           f == Ascending(S)
           K == {k \in 1..c : f[k] \in T}
           g == Ascending(K)
           h == Ascending(T)
           part == [k \in K |-> f[k]]
<1>1. /\ c \in Nat /\ f \in [1..c -> S]
      /\ \A j \in S : \E k \in 1..c : f[k] = j
      /\ \A j, k \in 1..c : f[j] = f[k] => j = k
  BY AscendingIs DEF Enumerates
<1>2. IsFiniteSet(T) /\ T \in SUBSET Int
  BY FS_Subset
<1>3. K \in SUBSET Int /\ IsFiniteSet(K) /\ K \subseteq 1..c
  <2>1. IsFiniteSet(1..c) /\ K \subseteq 1..c /\ 1..c \subseteq Int
    BY <1>1, FS_Interval
  <2> HIDE DEF K
  <2> QED BY <2>1, FS_Subset
<1>4. \A k \in 1..c : Rank(k, K) = Rank(f[k], T)
  BY RanksAgree
<1>5. Cardinality(K) = Cardinality(T)
  <2>1. part \in [K -> T]
    OBVIOUS
  <2>2. \A j, k \in K : part[j] = part[k] => j = k
    BY <1>1
  <2>3. \A j \in T : \E k \in K : part[k] = j
    <3> TAKE j \in T
    <3>1. PICK k \in 1..c : f[k] = j
      BY <1>1
    <3> QED BY <3>1
  <2> HIDE DEF part
  <2>4. part \in Bijection(K, T)
    BY <2>1, <2>2, <2>3 DEF Bijection, Injection, Surjection, IsInjective
  <2> HIDE DEF K
  <2> QED BY <1>3, <2>4, FS_Bijection DEF ExistsBijection
<1> HIDE DEF c, f, part
<1>6. ASSUME NEW j \in 1..Cardinality(T) PROVE f[g[j]] = h[j]
  <2>1. g[j] \in K /\ Rank(g[j], K) = j - 1
    <3> HIDE DEF K
    <3> QED BY <1>3, <1>5, PlacesAreRanks
  <2>2. Rank(f[g[j]], T) = j - 1 /\ f[g[j]] \in T
    BY <1>4, <2>1
  <2>3. PICK k \in 1..Cardinality(T) : h[k] = f[g[j]]
    BY <1>2, <2>2, AscendingIs DEF Enumerates
  <2>4. Rank(h[k], T) = k - 1
    BY <1>2, PlacesAreRanks
  <2>5. j \in Int /\ k \in Int
    OBVIOUS
  <2>6. j = k
    BY <2>2, <2>3, <2>4, <2>5
  <2> QED BY <2>3, <2>6
<1> QED BY <1>5, <1>6 DEF c, f

\* The tokens of a text that stand, placeholders replaced by what is found.
LEMMA ReplaceStands ==
  ASSUME NEW md \in Seq(Tokens), NEW found, NEW T,
         \A i \in Standing(md, DOMAIN found) :
           (IF IsFigure(md[i]) THEN found[md[i][2]] ELSE md[i]) \in T
  PROVE  LET places == Standing(md, DOMAIN found)
         IN /\ Enumerates(Ascending(places), places)
            /\ places \in SUBSET Int /\ IsFiniteSet(places) /\ places \subseteq DOMAIN md
            /\ Replace(md, found) \in Seq(T)
            /\ Len(Replace(md, found)) = Cardinality(places)
            /\ \A k \in 1..Cardinality(places) :
                 Replace(md, found)[k] = IF IsFigure(md[Ascending(places)[k]])
                                         THEN found[md[Ascending(places)[k]][2]]
                                         ELSE md[Ascending(places)[k]]
<1> DEFINE places == Standing(md, DOMAIN found)
           left == Ascending(places)
           token(i) == IF IsFigure(md[i]) THEN found[md[i][2]] ELSE md[i]
           text == [k \in DOMAIN left |-> token(left[k])]
<1>1. Replace(md, found) = text
  BY DEF Replace, Standing
<1>2. places \subseteq DOMAIN md
  BY DEF Standing
<1>3. places \in SUBSET Int /\ IsFiniteSet(places)
  BY <1>2, PlacesAreFinite
<1>4. \A i \in places : token(i) \in T
  OBVIOUS
<1> HIDE DEF places
<1>5. Enumerates(left, places)
  BY <1>3, AscendingIs
<1>6. /\ Cardinality(places) \in Nat /\ DOMAIN left = 1..Cardinality(places)
      /\ \A k \in DOMAIN left : left[k] \in places
  BY <1>5 DEF Enumerates
<1> HIDE DEF left, token
<1>7. DOMAIN text = DOMAIN left /\ \A k \in DOMAIN left : text[k] = token(left[k])
  OBVIOUS
<1>8. text = [k \in DOMAIN text |-> text[k]]
  OBVIOUS
<1> HIDE DEF text
<1>9. \A k \in DOMAIN left : text[k] \in T
  BY <1>4, <1>6, <1>7
<1>10. text \in Seq(T) /\ DOMAIN text = 1..Cardinality(places)
  BY <1>5, <1>7, <1>8, <1>9, MadeOf
<1>11. Len(text) = Cardinality(places)
  BY <1>6, <1>10, LenProperties
<1> QED BY <1>1, <1>2, <1>3, <1>5, <1>6, <1>7, <1>10, <1>11 DEF places, left, token

\* The figures of a page and those that are saved, by their numbers.
NumbersOf(page, ps) == {page.blocks[p].figure : p \in ps}

\* The live text: text as it is, and for a placeholder the box of the image it names.
LEMMA LiveTextIs ==
  ASSUME NEW page \in Sane
  PROVE  LET places == Standing(page.markdown, NumbersOf(page, Images(page)))
             shown == LiveText(page)
         IN /\ Enumerates(Ascending(places), places)
            /\ places \in SUBSET Int /\ IsFiniteSet(places) /\ places \subseteq DOMAIN page.markdown
            /\ shown \in Seq(Viewed) /\ Len(shown) = Cardinality(places)
            /\ \A k \in 1..Cardinality(places) :
                 LET token == page.markdown[Ascending(places)[k]]
                 IN /\ ~IsFigure(token) => shown[k] = token
                    /\ IsFigure(token) => \E p \in Images(page) :
                         page.blocks[p].figure = token[2] /\ shown[k] = Box(page.blocks[p].box)
<1> DEFINE figures == Images(page)
           numbers == NumbersOf(page, figures)
           first(f) == CHOOSE p \in figures : page.blocks[p].figure = f
           found == [f \in numbers |-> Box(page.blocks[first(f)].box)]
           places == Standing(page.markdown, numbers)
           left == Ascending(places)
           shown == LiveText(page)
<1>1. shown = Replace(page.markdown, found)
  BY DEF LiveText, NumbersOf
<1>2. page.markdown \in Seq(Tokens) /\ \A i \in DOMAIN page.markdown : page.markdown[i] \in Tokens
  <2>1. page.markdown \in Seq(Tokens)
    BY DEF Sane, Admitted
  <2> QED BY <2>1, PlacesAreFinite
<1>3. \A f \in numbers : first(f) \in figures /\ page.blocks[first(f)].figure = f
  BY DEF NumbersOf
<1>4. \A p \in figures : page.blocks[p].box \in Usable
  BY DEF Sane
<1>5. DOMAIN found = numbers /\ \A f \in numbers : found[f] = Box(page.blocks[first(f)].box)
  OBVIOUS
<1> HIDE DEF first, figures, numbers, found, shown
<1>6. \A f \in numbers : found[f] \in Viewed
  BY <1>3, <1>4, <1>5 DEF Viewed
<1>7. \A i \in places :
        /\ i \in DOMAIN page.markdown
        /\ IsFigure(page.markdown[i]) => page.markdown[i][2] \in numbers
  BY DEF Standing
<1>8. \A i \in places :
        (IF IsFigure(page.markdown[i]) THEN found[page.markdown[i][2]] ELSE page.markdown[i]) \in Viewed
  BY <1>2, <1>6, <1>7 DEF Viewed
<1> HIDE DEF places, left
<1>9. /\ Enumerates(left, places)
      /\ places \in SUBSET Int /\ IsFiniteSet(places) /\ places \subseteq DOMAIN page.markdown
      /\ shown \in Seq(Viewed) /\ Len(shown) = Cardinality(places)
      /\ \A k \in 1..Cardinality(places) :
           shown[k] = IF IsFigure(page.markdown[left[k]]) THEN found[page.markdown[left[k]][2]]
                      ELSE page.markdown[left[k]]
  <2>1. places = Standing(page.markdown, DOMAIN found) /\ left = Ascending(places)
    BY <1>5 DEF places, left
  <2> QED BY <1>1, <1>2, <1>8, <2>1, ReplaceStands
<1>10. \A k \in 1..Cardinality(places) : left[k] \in places
  BY <1>9 DEF Enumerates
<1>11. ASSUME NEW k \in 1..Cardinality(places)
       PROVE  LET token == page.markdown[left[k]]
              IN /\ ~IsFigure(token) => shown[k] = token
                 /\ IsFigure(token) => \E p \in figures :
                      page.blocks[p].figure = token[2] /\ shown[k] = Box(page.blocks[p].box)
  <2> DEFINE token == page.markdown[left[k]]
  <2>1. left[k] \in places /\ shown[k] = IF IsFigure(token) THEN found[token[2]] ELSE token
    BY <1>9, <1>10
  <2>2. IsFigure(token) => token[2] \in numbers
    BY <1>7, <2>1
  <2> HIDE DEF token
  <2>3. ASSUME IsFigure(token)
        PROVE  \E p \in figures : page.blocks[p].figure = token[2] /\ shown[k] = Box(page.blocks[p].box)
    <3>1. first(token[2]) \in figures /\ page.blocks[first(token[2])].figure = token[2]
          /\ shown[k] = Box(page.blocks[first(token[2])].box)
      BY <1>3, <1>5, <2>1, <2>2, <2>3
    <3> QED BY <3>1
  <2> QED BY <2>1, <2>3 DEF token
<1> QED BY <1>9, <1>11 DEF places, left, shown, numbers, figures

\* The Markdown up to what is added: text as it is, and for a placeholder the reference to
\* the crop it names.
LEMMA PlacedIs ==
  ASSUME NEW page \in Sane, NEW worked \in Nat, NEW local \in Nat
  PROVE  LET places == Standing(page.markdown, NumbersOf(page, Saved(page, worked)))
             text == Placed(page, local, worked)
         IN /\ text \in Seq(Written) /\ Len(text) = Cardinality(places)
            /\ \A k \in 1..Cardinality(places) :
                 LET token == page.markdown[Ascending(places)[k]]
                 IN /\ ~IsFigure(token) => text[k] = token
                    /\ IsFigure(token) => \E p \in Saved(page, worked) :
                         page.blocks[p].figure = token[2] /\ text[k] = Ref(Name(page, local, worked, p))
<1> DEFINE saved == Saved(page, worked)
           numbers == NumbersOf(page, saved)
           name(p) == Name(page, local, worked, p)
           first(f) == CHOOSE p \in saved : page.blocks[p].figure = f
           found == [f \in numbers |-> Ref(name(first(f)))]
           places == Standing(page.markdown, numbers)
           left == Ascending(places)
           text == Placed(page, local, worked)
<1>1. text = Replace(page.markdown, found)
  BY DEF Placed, NumbersOf
<1>2. page.markdown \in Seq(Tokens) /\ \A i \in DOMAIN page.markdown : page.markdown[i] \in Tokens
  <2>1. page.markdown \in Seq(Tokens)
    BY DEF Sane, Admitted
  <2> QED BY <2>1, PlacesAreFinite
<1>3. \A f \in numbers : first(f) \in saved /\ page.blocks[first(f)].figure = f
  BY DEF NumbersOf
<1>4. \A p \in saved : name(p) \in Nat \X Nat
  BY SavedIs DEF Name
<1>5. DOMAIN found = numbers /\ \A f \in numbers : found[f] = Ref(name(first(f)))
  OBVIOUS
<1> HIDE DEF first, saved, numbers, name, found, text
<1>6. \A f \in numbers : found[f] \in Written
  BY <1>3, <1>4, <1>5 DEF Written
<1>7. \A i \in places :
        /\ i \in DOMAIN page.markdown
        /\ IsFigure(page.markdown[i]) => page.markdown[i][2] \in numbers
  BY DEF Standing
<1>8. \A i \in places :
        (IF IsFigure(page.markdown[i]) THEN found[page.markdown[i][2]] ELSE page.markdown[i]) \in Written
  BY <1>2, <1>6, <1>7 DEF Written
<1> HIDE DEF places, left
<1>9. /\ Enumerates(left, places)
      /\ text \in Seq(Written) /\ Len(text) = Cardinality(places)
      /\ \A k \in 1..Cardinality(places) :
           text[k] = IF IsFigure(page.markdown[left[k]]) THEN found[page.markdown[left[k]][2]]
                     ELSE page.markdown[left[k]]
  <2>1. places = Standing(page.markdown, DOMAIN found) /\ left = Ascending(places)
    BY <1>5 DEF places, left
  <2> QED BY <1>1, <1>2, <1>8, <2>1, ReplaceStands
<1>10. \A k \in 1..Cardinality(places) : left[k] \in places
  BY <1>9 DEF Enumerates
<1>11. ASSUME NEW k \in 1..Cardinality(places)
       PROVE  LET token == page.markdown[left[k]]
              IN /\ ~IsFigure(token) => text[k] = token
                 /\ IsFigure(token) => \E p \in saved :
                      page.blocks[p].figure = token[2] /\ text[k] = Ref(name(p))
  <2> DEFINE token == page.markdown[left[k]]
  <2>1. left[k] \in places /\ text[k] = IF IsFigure(token) THEN found[token[2]] ELSE token
    BY <1>9, <1>10
  <2>2. IsFigure(token) => token[2] \in numbers
    BY <1>7, <2>1
  <2> HIDE DEF token
  <2>3. ASSUME IsFigure(token)
        PROVE  \E p \in saved : page.blocks[p].figure = token[2] /\ text[k] = Ref(name(p))
    <3>1. first(token[2]) \in saved /\ page.blocks[first(token[2])].figure = token[2]
          /\ text[k] = Ref(name(first(token[2])))
      BY <1>3, <1>5, <2>1, <2>2, <2>3
    <3> QED BY <3>1
  <2> QED BY <2>1, <2>3 DEF token
<1> QED BY <1>9, <1>11 DEF places, left, text, numbers, saved, name

\* The saved crops of a page are counted, so each has a name of its own.
LEMMA CropsHaveNames ==
  ASSUME NEW page \in Sane, NEW worked \in Nat, NEW local \in Nat
  PROVE  OneOfAName(Crops(page, local, worked))
<1> DEFINE saved == Saved(page, worked)
           crop(p) == [name |-> <<local, CropNumber(page, worked, p)>>, box |-> page.blocks[p].box]
<1>1. saved \in SUBSET Int /\ IsFiniteSet(saved)
  <2>1. saved \in SUBSET Nat /\ IsFiniteSet(saved)
    BY SavedIs
  <2> HIDE DEF saved
  <2>2. \A p \in saved : p \in Int
    <3>1. \A p \in saved : p \in Nat
      BY <2>1
    <3> QED BY <3>1
  <2> QED BY <2>1, <2>2
<1>2. ASSUME NEW p \in saved, NEW q \in saved, CropNumber(page, worked, p) = CropNumber(page, worked, q)
      PROVE  p = q
  <2> HIDE DEF saved
  <2>1. PICK j \in 1..Cardinality(saved) : Ascending(saved)[j] = p
    BY <1>1, AscendingIs DEF Enumerates
  <2>2. PICK k \in 1..Cardinality(saved) : Ascending(saved)[k] = q
    BY <1>1, AscendingIs DEF Enumerates
  <2>3. Rank(p, saved) = j - 1 /\ Rank(q, saved) = k - 1
    BY <1>1, <2>1, <2>2, PlacesAreRanks
  <2>4. Rank(p, saved) = Rank(q, saved)
    BY <1>2 DEF CropNumber, saved
  <2>5. j = k
    BY <2>3, <2>4
  <2> QED BY <2>1, <2>2, <2>5
<1>3. Crops(page, local, worked) = {crop(p) : p \in saved}
  BY DEF Crops, Name
<1>4. \A p, q \in saved : crop(p).name = crop(q).name => crop(p) = crop(q)
  BY <1>2
<1> HIDE DEF crop, saved
<1> QED BY <1>3, <1>4 DEF OneOfAName

\* The text of no token is a box, and boxes are as different as their classes.
LEMMA BoxesAre ==
  /\ \A t \in Tokens : t[1] # "box"
  /\ \A b, c : Box(b)[1] = "box" /\ (Box(b) = Box(c) <=> b = c)
BY DEF Tokens, Text, Figure, Box

\* A page of images with different boxes begins as the live view showed it.
LEMMA PageBeginsAsShown ==
  ASSUME NEW page \in Sane, Apart(page), NEW worked \in Nat, NEW local \in Nat
  PROVE  BeginsAs(Markdown(page, local, worked), LiveText(page), Crops(page, local, worked))
<1> DEFINE figures == Images(page)
           saved == Saved(page, worked)
           all == Standing(page.markdown, NumbersOf(page, figures))
           part == Standing(page.markdown, NumbersOf(page, saved))
           shown == LiveText(page)
           text == Placed(page, local, worked)
           md == Markdown(page, local, worked)
           fs == Crops(page, local, worked)
           name(p) == Name(page, local, worked, p)
           token(k) == page.markdown[Ascending(all)[k]]
           K == {k \in 1..Cardinality(all) : Ascending(all)[k] \in part}
<1>1. /\ saved \subseteq figures /\ \A p \in figures : page.blocks[p].box \in Usable
      /\ \A p, q \in figures : page.blocks[p].figure = page.blocks[q].figure
                                 => p = q \/ page.blocks[p].figure = NoFigure
      /\ \A p, q \in figures : page.blocks[p].box = page.blocks[q].box => p = q
  BY DEF Saved, Sane, Apart
<1>2. \A i \in DOMAIN page.markdown : page.markdown[i] \in Tokens
  <2>1. page.markdown \in Seq(Tokens)
    BY DEF Sane, Admitted
  <2> QED BY <2>1, PlacesAreFinite
<1>3. /\ \A f \in fs : \E q \in saved : f.name = name(q) /\ f.box = page.blocks[q].box
      /\ \A q \in saved : \E f \in fs : f.name = name(q) /\ f.box = page.blocks[q].box
  <2> DEFINE crop(p) == [name |-> name(p), box |-> page.blocks[p].box]
  <2>1. fs = {crop(p) : p \in saved}
    BY DEF Crops
  <2>2. \A p \in saved : crop(p).name = name(p) /\ crop(p).box = page.blocks[p].box
    OBVIOUS
  <2> HIDE DEF crop, fs, saved, name
  <2> QED BY <2>1, <2>2
<1>4. /\ all \in SUBSET Int /\ IsFiniteSet(all) /\ all \subseteq DOMAIN page.markdown
      /\ Enumerates(Ascending(all), all)
      /\ shown \in Seq(Viewed) /\ Len(shown) = Cardinality(all)
      /\ \A k \in 1..Cardinality(all) :
           /\ ~IsFigure(token(k)) => shown[k] = token(k)
           /\ IsFigure(token(k)) => \E p \in figures :
                page.blocks[p].figure = token(k)[2] /\ shown[k] = Box(page.blocks[p].box)
  BY LiveTextIs
<1>5. /\ text \in Seq(Written) /\ Len(text) = Cardinality(part)
      /\ \A k \in 1..Cardinality(part) :
           LET t == page.markdown[Ascending(part)[k]]
           IN /\ ~IsFigure(t) => text[k] = t
              /\ IsFigure(t) => \E p \in saved :
                   page.blocks[p].figure = t[2] /\ text[k] = Ref(name(p))
  BY PlacedIs
<1>6. Len(text) <= Len(md) /\ \A k \in 1..Len(text) : md[k] = text[k]
  BY CropsAreReferenced
<1>7. part \in SUBSET all
  BY <1>1 DEF Standing, NumbersOf
<1>8. \A i \in all : i \in part <=> (IsFigure(page.markdown[i]) => \E q \in saved :
                                       page.blocks[q].figure = page.markdown[i][2])
  BY <1>4 DEF Standing, NumbersOf
<1>9. \A k \in 1..Cardinality(all) : Ascending(all)[k] \in all /\ token(k) \in Tokens
  BY <1>2, <1>4 DEF Enumerates
<1>10. Cardinality(K) = Cardinality(part)
       /\ \A j \in 1..Cardinality(part) : Ascending(all)[Ascending(K)[j]] = Ascending(part)[j]
  BY <1>4, <1>7, PartsInOrder
<1>11. /\ DOMAIN shown = 1..Cardinality(all) /\ Cardinality(all) \in Nat
       /\ Cardinality(part) \in Nat
  <2>1. Cardinality(all) \in Nat
    BY <1>4, FS_CardinalityType
  <2>2. IsFiniteSet(part)
    BY <1>4, <1>7, FS_Subset
  <2> QED BY <1>4, <2>1, <2>2, LenProperties, FS_CardinalityType
<1> HIDE DEF part, all, saved, figures, shown, text, md, fs, name, token
\* A placeholder for a number that one image has is shown with that image.
<1>12. ASSUME NEW k \in 1..Cardinality(all), IsFigure(token(k)),
              NEW p \in figures, page.blocks[p].figure = token(k)[2],
              NEW q \in saved, page.blocks[q].figure = token(k)[2]
       PROVE  p = q
  <2>1. token(k)[2] \in Nat
    BY <1>9, <1>12, TokensAre
  <2>2. token(k)[2] # NoFigure
    BY <2>1 DEF NoFigure
  <2> QED BY <1>1, <1>12, <2>2
<1>13. ASSUME NEW k \in 1..Cardinality(all) PROVE k \in Kept(shown, fs) <=> k \in K
  <2>1. k \in K <=> (IsFigure(token(k)) => \E q \in saved : page.blocks[q].figure = token(k)[2])
    BY <1>8, <1>9 DEF token
  <2>2. k \in Kept(shown, fs) <=> (shown[k][1] = "box" => \E f \in fs : shown[k] = Box(f.box))
    BY <1>11 DEF Kept
  <2>3. CASE ~IsFigure(token(k))
    <3>1. shown[k][1] # "box"
      BY <1>4, <1>9, <2>3, BoxesAre
    <3> QED BY <2>1, <2>2, <2>3, <3>1
  <2>4. CASE IsFigure(token(k))
    <3>1. PICK p \in figures : page.blocks[p].figure = token(k)[2] /\ shown[k] = Box(page.blocks[p].box)
      BY <1>4, <2>4
    <3>2. shown[k][1] = "box"
      BY <3>1, BoxesAre
    <3>3. ASSUME NEW q \in saved, page.blocks[q].figure = token(k)[2]
          PROVE  \E f \in fs : shown[k] = Box(f.box)
      <4>1. p = q
        BY <1>12, <2>4, <3>1, <3>3
      <4>2. PICK f \in fs : f.box = page.blocks[q].box
        BY <1>3
      <4> QED BY <3>1, <4>1, <4>2
    <3>4. ASSUME NEW f \in fs, shown[k] = Box(f.box)
          PROVE  \E q \in saved : page.blocks[q].figure = token(k)[2]
      <4>1. PICK q \in saved : f.box = page.blocks[q].box
        BY <1>3
      <4>2. page.blocks[p].box = page.blocks[q].box
        BY <3>1, <3>4, <4>1, BoxesAre
      <4>3. q \in figures /\ p = q
        BY <1>1, <4>1, <4>2
      <4> QED BY <3>1, <4>1, <4>3
    <3> QED BY <2>1, <2>2, <2>4, <3>2, <3>3, <3>4
  <2> QED BY <2>3, <2>4
<1>14. Kept(shown, fs) = K
  <2>1. \A k \in Kept(shown, fs) : k \in 1..Cardinality(all)
    BY <1>11 DEF Kept
  <2> QED BY <1>13, <2>1
<1>15. ASSUME NEW j \in 1..Cardinality(part)
       PROVE  IsShownAs(md[j], shown[Ascending(K)[j]], fs)
  <2> DEFINE k == Ascending(K)[j]
  <2>1. k \in K
    <3>1. K \in SUBSET Int /\ IsFiniteSet(K)
      <4>1. IsFiniteSet(1..Cardinality(all)) /\ K \subseteq 1..Cardinality(all)
            /\ 1..Cardinality(all) \subseteq Int
        BY <1>11, FS_Interval
      <4> HIDE DEF K
      <4> QED BY <4>1, FS_Subset
    <3> HIDE DEF K
    <3> QED BY <1>10, <3>1, PlacesAreRanks
  <2>2. k \in 1..Cardinality(all) /\ page.markdown[Ascending(part)[j]] = token(k)
    BY <1>10, <2>1 DEF token
  <2>3. md[j] = text[j]
    BY <1>5, <1>6
  <2> HIDE DEF k, K
  <2>4. CASE ~IsFigure(token(k))
    <3>1. shown[k] = token(k) /\ text[j] = token(k)
      BY <1>4, <1>5, <2>2, <2>4
    <3>2. token(k)[1] # "ref"
      BY <1>9, <2>2, TokensAre
    <3> QED BY <2>3, <3>1, <3>2 DEF IsShownAs, k
  <2>5. CASE IsFigure(token(k))
    <3>1. PICK q \in saved : page.blocks[q].figure = token(k)[2] /\ text[j] = Ref(name(q))
      BY <1>5, <2>2, <2>5
    <3>2. PICK p \in figures : page.blocks[p].figure = token(k)[2] /\ shown[k] = Box(page.blocks[p].box)
      BY <1>4, <2>2, <2>5
    <3>3. p = q
      BY <1>12, <2>2, <2>5, <3>1, <3>2
    <3>4. PICK f \in fs : f.name = name(q) /\ f.box = page.blocks[q].box
      BY <1>3
    <3>5. md[j][1] = "ref" /\ md[j][2] = name(q)
      BY <2>3, <3>1, TokensAre
    <3> QED BY <3>2, <3>3, <3>4, <3>5 DEF IsShownAs, k
  <2> QED BY <2>4, <2>5
<1>16. BeginsAs(md, shown, fs)
  <2> HIDE DEF K
  <2> QED BY <1>5, <1>6, <1>10, <1>14, <1>15 DEF BeginsAs
<1> QED BY <1>16 DEF md, shown, fs

-----------------------------------------------------------------------------
\* The specification.

\* The crops of a page are files of that page, and whole.
LEMMA CropsAre ==
  ASSUME NEW page \in Sane, NEW worked \in Nat, NEW local \in Nat
  PROVE  /\ Crops(page, local, worked) \subseteq Files
         /\ \A f \in Crops(page, local, worked) : f.name[1] = local /\ f.box # "torn"
         /\ \A p \in Saved(page, worked) :
              [name |-> <<local, CropNumber(page, worked, p)>>, box |-> page.blocks[p].box]
                \in Crops(page, local, worked)
<1> DEFINE crop(p) == [name |-> <<local, CropNumber(page, worked, p)>>, box |-> page.blocks[p].box]
<1>1. Crops(page, local, worked) = {crop(p) : p \in Saved(page, worked)}
  BY DEF Crops, Name
<1>2. ASSUME NEW p \in Saved(page, worked)
      PROVE  crop(p) \in Files /\ crop(p).name[1] = local /\ crop(p).box # "torn"
  <2>1. CropNumber(page, worked, p) \in Nat /\ page.blocks[p].box \in Usable
    BY SavedIs
  <2>2. "torn" \notin Usable
    BY DEF Usable
  <2> QED BY <2>1, <2>2 DEF Files
<1> HIDE DEF crop
<1>3. Crops(page, local, worked) \subseteq Files
      /\ \A f \in Crops(page, local, worked) : f.name[1] = local /\ f.box # "torn"
  BY <1>1, <1>2
<1>4. \A p \in Saved(page, worked) : crop(p) \in Crops(page, local, worked)
  BY <1>1
<1> QED BY <1>3, <1>4 DEF crop

\* The layout of a page shows its crops, whichever number the page gets.
LEMMA PageShowsItsCrops ==
  ASSUME NEW page \in Sane, NEW worked \in 0..Len(page.blocks), NEW local \in Nat
  PROVE  ShowsCrops(LayoutOf(RawPage(page, worked), local), Crops(page, local, worked))
<1> DEFINE raw == RawPage(page, worked)
           number(i) == Rank(i, {q \in DOMAIN raw : raw[q].image})
           out == LayoutOf(raw, local)
<1>1. worked \in Nat
  <2>1. page.blocks \in Seq(Blocks)
    BY DEF Sane, Admitted
  <2> QED BY <2>1, LenProperties
<1>2. \A i \in DOMAIN raw : raw[i].image =>
        \E p \in Saved(page, worked) :
          raw[i].box = page.blocks[p].box /\ number(i) = CropNumber(page, worked, p)
  BY RawPageIs
<1>3. /\ DOMAIN out = DOMAIN raw
      /\ \A i \in DOMAIN raw : /\ out[i].image = raw[i].image /\ out[i].box = raw[i].box
                               /\ out[i].name = <<local, number(i)>>
  BY DEF LayoutOf
<1> HIDE DEF raw, number, out
<1>4. ASSUME NEW i \in DOMAIN out, out[i].image
      PROVE  [name |-> out[i].name, box |-> out[i].box] \in Crops(page, local, worked)
  <2>1. PICK p \in Saved(page, worked) :
          raw[i].box = page.blocks[p].box /\ number(i) = CropNumber(page, worked, p)
    BY <1>2, <1>3, <1>4
  <2>2. [name |-> out[i].name, box |-> out[i].box]
          = [name |-> <<local, CropNumber(page, worked, p)>>, box |-> page.blocks[p].box]
    BY <1>3, <1>4, <2>1
  <2> QED BY <1>1, <2>2, CropsAre
<1> QED BY <1>4 DEF ShowsCrops, out, raw

\* It holds at first.
LEMMA ContentInvInit == ContentInit => ContentInv
<1> SUFFICES ASSUME ContentInit PROVE ContentInv
  OBVIOUS
<1>1. /\ <<>> \in Seq(Seq(Written)) /\ <<>> \in Seq(Seq(Shown)) /\ <<>> \in Seq(Seq(Laid))
      /\ <<>> \in Seq(Seq(Viewed))
      /\ Len(<<>>) = 0 /\ DOMAIN <<>> = 1..0
  OBVIOUS
<1>2. Pages \in Nat
  BY PageContentAssumption, LenProperties DEF Pages
<1>3. ContentTyped /\ PagesCounted
  BY <1>1, <1>2 DEF ContentInit, EmptyChunk, ContentTyped, PagesCounted
<1>4. FilesAreOfPages /\ ChunkResolves /\ ChunkShowsItsCrops
  BY <1>1 DEF ContentInit, EmptyChunk, FilesAreOfPages, ChunkResolves, ChunkShowsItsCrops
<1>5. RefsResolve /\ LayoutShowsItsCrop
  BY <1>1 DEF ContentInit, RefsResolve, LayoutShowsItsCrop
<1>6. CropsAreNamed /\ ChunkBeginsAsShown /\ ResultBeginsAsShown
  BY <1>1 DEF ContentInit, EmptyChunk, CropsAreNamed, OneOfAName, ChunkBeginsAsShown,
              ResultBeginsAsShown
<1> QED BY <1>3, <1>4, <1>5, <1>6 DEF ContentInv

\* A page more in the chunk: its crops get names of their own, a torn one has no reference.
LEMMA ContentInvParse ==
  ASSUME ContentInv, ParsePage
  PROVE  ContentInv'
<1>1. /\ next \in 1..(Pages + 1) /\ next <= Pages /\ Pages \in Nat
      /\ single \in BOOLEAN /\ next = Len(result) + Len(chunk.markdown) + 1
      /\ Len(result) \in Nat /\ Len(chunk.markdown) \in Nat /\ Len(chunk.raw) = Len(chunk.markdown)
  <2>1. Pages \in Nat
    BY PageContentAssumption, LenProperties DEF Pages
  <2>2. Len(result) \in Nat /\ Len(chunk.markdown) \in Nat
    BY LenProperties DEF ContentInv, ContentTyped
  <2> QED BY <2>1, <2>2 DEF ContentInv, ContentTyped, PagesCounted, ParsePage
<1> DEFINE m == Len(chunk.markdown)
<1>2. Items[next] \in Nat
  <2>1. next \in 1..Len(Items)
    BY <1>1 DEF Pages
  <2> QED BY <2>1, PageContentAssumption, LenProperties
<1>3. PICK page \in Sane :
        \E worked \in 0..Len(page.blocks), torn \in BOOLEAN : RunPage(page, worked, torn)
  <2>1. PICK answer \in Answers(Items[next]) :
          \E worked \in 0..Len(Sanitize(answer).blocks) :
            \E torn \in BOOLEAN : RunPage(Sanitize(answer), worked, torn)
    BY DEF ParsePage
  <2>2. Sanitize(answer) \in Sane
    BY <1>2, <2>1, AnswersAreAdmitted, SanitizeIsSane
  <2> QED BY <2>1, <2>2
<1>24. PICK worked \in 0..Len(page.blocks), torn \in BOOLEAN : RunPage(page, worked, torn)
  BY <1>3
<1>4. worked \in Nat
  <2>1. page.blocks \in Seq(Blocks)
    BY DEF Sane, Admitted
  <2> QED BY <2>1, LenProperties
<1> DEFINE local == IF single THEN 0 ELSE next - Start - 1
           broken == [name |-> <<local, Cardinality(Saved(page, worked))>>, box |-> "torn"]
           text == Markdown(page, local, worked)
           raw == RawPage(page, worked)
           crops == Crops(page, local, worked)
           extra == IF torn THEN {broken} ELSE {}
<1>5. local = m
  <2>1. CASE ~single
    BY <1>1, <2>1 DEF Start
  <2>2. CASE single
    <3>1. m <= 1
      BY <2>2 DEF ContentInv, PagesCounted
    <3>2. m # 1
      <4>1. SUFFICES ASSUME m = 1 PROVE FALSE
        OBVIOUS
      <4>2. next - 1 \in 1..Pages
        BY <1>1, <4>1
      <4>3. chunk = EmptyChunk
        BY <2>2, <4>2 DEF ParsePage, Ends
      <4> QED BY <4>1, <4>3 DEF EmptyChunk
    <3>3. m = 0 /\ local = 0
      <4>1. m \in Nat
        BY <1>1
      <4>2. local = 0
        BY <2>2
      <4> HIDE DEF m, local
      <4> QED BY <3>1, <3>2, <4>1, <4>2
    <3> QED BY <3>3
  <2> QED BY <1>1, <2>1, <2>2
<1>6. /\ chunk' = [markdown |-> Append(chunk.markdown, text), raw |-> Append(chunk.raw, raw),
                   boxes |-> chunk.boxes \cup crops, files |-> chunk.files \cup crops \cup extra]
      /\ next' = next + 1 /\ UNCHANGED <<single, result, images, boxes, layout>>
      /\ live' = Append(live, LiveText(page))
      /\ apart' = apart \cup (IF Apart(page) THEN {next} ELSE {})
  BY <1>24 DEF RunPage
<1> HIDE DEF local
<1>7. local \in Nat /\ m \in Nat
  BY <1>1, <1>5
<1>8. text \in Seq(Written) /\ References(text) = {f.name : f \in crops}
  BY <1>4, <1>7, CropsAreReferenced
<1>9. crops \subseteq Files /\ \A f \in crops : f.name[1] = m /\ f.box # "torn"
  BY <1>4, <1>5, <1>7, CropsAre
<1>10. raw \in Seq(Shown)
  BY RawPageIs
<1>11. ShowsCrops(LayoutOf(raw, m), crops)
  BY <1>5, <1>7, PageShowsItsCrops
<1>12. extra \subseteq Files /\ \A f \in extra : f.name[1] = m /\ f.box = "torn"
  <2>1. Cardinality(Saved(page, worked)) \in Nat
    BY <1>4, SavedIs, FS_CardinalityType
  <2> QED BY <1>5, <1>7, <2>1 DEF Files
<1> HIDE DEF text, raw, crops, extra
<1>13. /\ chunk.markdown \in Seq(Seq(Written)) /\ chunk.raw \in Seq(Seq(Shown))
       /\ chunk.files \subseteq Files /\ chunk.boxes \subseteq Files
  BY DEF ContentInv, ContentTyped
<1>14. /\ chunk'.markdown = Append(chunk.markdown, text) /\ chunk'.raw = Append(chunk.raw, raw)
       /\ chunk'.boxes = chunk.boxes \cup crops
       /\ chunk'.files = chunk.files \cup crops \cup extra
  BY <1>6
<1>15. /\ chunk'.markdown \in Seq(Seq(Written)) /\ Len(chunk'.markdown) = m + 1
       /\ \A p \in 1..m : chunk'.markdown[p] = chunk.markdown[p]
       /\ chunk'.markdown[m + 1] = text
  BY <1>8, <1>13, <1>14, AppendProperties
<1>16. /\ chunk'.raw \in Seq(Seq(Shown)) /\ Len(chunk'.raw) = m + 1
       /\ \A p \in 1..m : chunk'.raw[p] = chunk.raw[p]
       /\ chunk'.raw[m + 1] = raw
  BY <1>1, <1>10, <1>13, <1>14, AppendProperties
<1>25. /\ live' \in Seq(Seq(Viewed)) /\ Len(live) = next - 1 /\ Len(live') = next
       /\ \A p \in 1..(next - 1) : live'[p] = live[p]
       /\ live'[next] = LiveText(page)
  <2>1. LiveText(page) \in Seq(Viewed)
    BY LiveTextIs
  <2>2. live \in Seq(Seq(Viewed)) /\ Len(live) = next - 1
    BY DEF ContentInv, ContentTyped, PagesCounted
  <2> DEFINE shown == LiveText(page)
  <2>3. shown \in Seq(Viewed) /\ live' = Append(live, shown) /\ next - 1 + 1 = next
    BY <1>1, <1>6, <2>1
  <2> HIDE DEF shown
  <2>4. /\ live' \in Seq(Seq(Viewed)) /\ Len(live') = Len(live) + 1
        /\ \A p \in 1..Len(live) : live'[p] = live[p]
        /\ live'[Len(live) + 1] = shown
    BY <2>2, <2>3, AppendProperties
  <2> QED BY <2>2, <2>3, <2>4 DEF shown
<1>26. /\ apart' \in SUBSET 1..next /\ (next \in apart' => Apart(page))
       /\ \A p \in 1..(next - 1) : p \in apart' => p \in apart
  <2>1. apart \in SUBSET 1..(next - 1)
    BY DEF ContentInv, PagesCounted
  <2>2. next \in Nat /\ next \in 1..next /\ next \notin 1..(next - 1)
    BY <1>1
  <2>3. 1..(next - 1) \subseteq 1..next
    BY <2>2
  <2>4. apart' = apart \cup (IF Apart(page) THEN {next} ELSE {})
    BY <1>6
  <2> QED BY <2>1, <2>2, <2>3, <2>4, Zenon
<1>17. ContentTyped'
  <2>1. chunk' \in [markdown : Seq(Seq(Written)), raw : Seq(Seq(Shown)),
                    boxes : SUBSET Files, files : SUBSET Files]
    BY <1>6, <1>9, <1>12, <1>13, <1>14, <1>15, <1>16
  <2>2. next' \in 1..(Pages + 1)
    BY <1>1, <1>6
  <2> QED BY <1>6, <1>25, <2>1, <2>2 DEF ContentInv, ContentTyped
<1>18. PagesCounted'
  <2>1. single => m + 1 <= 1
    <3>1. single => m = 0
      BY <1>5 DEF local
    <3> QED BY <1>7, <3>1
  <2>2. Len(live') = next' - 1 /\ apart' \in SUBSET 1..(next' - 1)
    BY <1>1, <1>6, <1>25, <1>26
  <2> QED BY <1>1, <1>6, <1>15, <1>16, <2>1, <2>2 DEF ContentInv, PagesCounted
<1>19. \A f \in chunk.files : f.name[1] < m /\ f.name[1] \in Nat
  BY <1>13 DEF ContentInv, FilesAreOfPages, Files
<1>20. FilesAreOfPages'
  <2>1. \A f \in chunk'.files : f.name[1] < m + 1
    BY <1>7, <1>9, <1>12, <1>14, <1>19
  <2> QED BY <1>6, <1>15, <2>1 DEF ContentInv, FilesAreOfPages
<1>27. ASSUME NEW p \in 1..m PROVE WholeOf(chunk'.files, p - 1) = WholeOf(chunk.files, p - 1)
  <2>1. p - 1 # m
    BY <1>7
  <2> QED BY <1>9, <1>12, <1>14, <2>1 DEF WholeOf
<1>28. WholeOf(chunk'.files, m) = crops
  <2>1. \A f \in chunk.files : f.name[1] # m
    BY <1>7, <1>19
  <2> QED BY <1>9, <1>12, <1>14, <2>1 DEF WholeOf
<1>21. ChunkResolves'
  <2>3. ASSUME NEW p \in 1..(m + 1)
        PROVE  References(chunk'.markdown[p]) = {f.name : f \in WholeOf(chunk'.files, p - 1)}
    <3>1. CASE p \in 1..m
      BY <1>15, <1>27, <3>1 DEF ContentInv, ChunkResolves
    <3>2. CASE p = m + 1
      <4>1. p - 1 = m
        BY <1>7, <3>2
      <4> QED BY <1>8, <1>15, <1>28, <3>2, <4>1
    <3> QED BY <1>7, <3>1, <3>2
  <2> QED BY <1>15, <2>3 DEF ChunkResolves
<1>22. ChunkShowsItsCrops'
  <2>1. ASSUME NEW p \in 1..(m + 1)
        PROVE  ShowsCrops(LayoutOf(chunk'.raw[p], p - 1), chunk'.files \cap chunk'.boxes)
    <3>1. CASE p \in 1..m
      <4>1. ShowsCrops(LayoutOf(chunk.raw[p], p - 1), chunk.files \cap chunk.boxes)
        BY <1>1, <3>1 DEF ContentInv, ChunkShowsItsCrops
      <4>2. chunk'.raw[p] = chunk.raw[p]
        BY <1>16, <3>1
      <4> QED BY <1>14, <4>1, <4>2 DEF ShowsCrops
    <3>2. CASE p = m + 1
      <4>1. p - 1 = m /\ chunk'.raw[p] = raw
        BY <1>7, <1>16, <3>2
      <4> QED BY <1>11, <1>14, <4>1 DEF ShowsCrops
    <3> QED BY <1>7, <3>1, <3>2
  <2> QED BY <1>16, <2>1 DEF ChunkShowsItsCrops
<1>23. RefsResolve' /\ LayoutShowsItsCrop'
  BY <1>6 DEF ContentInv, RefsResolve, LayoutShowsItsCrop, CropsOf
<1>29. CropsAreNamed'
  <2>1. OneOfAName(crops)
    BY <1>4, <1>7, CropsHaveNames DEF crops
  <2>2. \A f \in chunk.files : f.name[1] # m
    BY <1>7, <1>19
  <2>3. OneOfAName(chunk.files) /\ OneOfAName(images)
    BY DEF ContentInv, CropsAreNamed
  <2>4. OneOfAName(chunk'.files)
    BY <1>9, <1>12, <1>14, <2>1, <2>2, <2>3 DEF OneOfAName
  <2> QED BY <1>6, <2>3, <2>4 DEF CropsAreNamed
<1>30. ChunkBeginsAsShown'
  <2>1. ASSUME NEW p \in 1..(m + 1), Len(result) + p \in apart'
        PROVE  BeginsAs(chunk'.markdown[p], live'[Len(result) + p], WholeOf(chunk'.files, p - 1))
    <3>1. CASE p \in 1..m
      <4>1. Len(result) + p \in 1..(next - 1)
        BY <1>1, <3>1
      <4>2. Len(result) + p \in apart /\ live'[Len(result) + p] = live[Len(result) + p]
        BY <1>25, <1>26, <2>1, <4>1
      <4>3. BeginsAs(chunk.markdown[p], live[Len(result) + p], WholeOf(chunk.files, p - 1))
        BY <3>1, <4>2 DEF ContentInv, ChunkBeginsAsShown
      <4> QED BY <1>15, <1>27, <3>1, <4>2, <4>3
    <3>2. CASE p = m + 1
      <4>1. p - 1 = m /\ Len(result) + p = next
        BY <1>1, <1>7, <3>2
      <4>2. Apart(page)
        BY <1>26, <2>1, <4>1
      <4>3. BeginsAs(text, LiveText(page), crops)
        BY <1>4, <1>7, <4>2, PageBeginsAsShown DEF text, crops
      <4> QED BY <1>15, <1>25, <1>28, <3>2, <4>1, <4>3
    <3> QED BY <1>7, <3>1, <3>2
  <2> QED BY <1>6, <1>15, <2>1 DEF ChunkBeginsAsShown
<1>31. ResultBeginsAsShown'
  <2>1. ASSUME NEW p \in 1..Len(result), p \in apart'
        PROVE  BeginsAs(result[p], live'[p], WholeOf(images, p))
    <3>1. p \in 1..(next - 1)
      BY <1>1
    <3>2. p \in apart /\ live'[p] = live[p]
      BY <1>25, <1>26, <2>1, <3>1
    <3> QED BY <3>2 DEF ContentInv, ResultBeginsAsShown
  <2> QED BY <1>6, <2>1 DEF ResultBeginsAsShown
<1> QED BY <1>17, <1>18, <1>20, <1>21, <1>22, <1>23, <1>29, <1>30, <1>31 DEF ContentInv

-----------------------------------------------------------------------------
\* The merge.

\* A text moved to its page refers to the moved names, and to nothing else.
LEMMA ReferencesMove ==
  ASSUME NEW md \in Seq(Written), NEW start \in Nat
  PROVE  /\ Rewritten(start, md) \in Seq(Written)
         /\ References(Rewritten(start, md)) = {Global(start, x) : x \in References(md)}
<1> DEFINE text == Rewritten(start, md)
<1>1. Len(md) \in Nat /\ DOMAIN md = 1..Len(md) /\ \A i \in DOMAIN md : md[i] \in Written
  BY LenProperties, ElementOfSeq
<1>2. \A t \in Written : t[1] = "ref" => t[2] \in Nat \X Nat
  <2>1. \A t \in Tokens : t[1] # "ref"
    BY TokensAre
  <2>2. \A x \in Nat \X Nat : Ref(x)[2] = x
    BY TokensAre
  <2> QED BY <2>1, <2>2 DEF Written
<1>3. \A x \in Nat \X Nat : Global(start, x) \in Nat \X Nat
  BY DEF Global
<1>4. DOMAIN text = DOMAIN md /\ \A i \in DOMAIN md :
        text[i] = IF md[i][1] = "ref" THEN Ref(Global(start, md[i][2])) ELSE md[i]
  BY DEF Rewritten
<1>5. text = [i \in 1..Len(md) |-> text[i]]
  BY <1>1 DEF Rewritten
<1> HIDE DEF text
<1>6. \A i \in DOMAIN md : text[i] \in Written
  <2> TAKE i \in DOMAIN md
  <2>1. CASE md[i][1] = "ref"
    <3>1. Global(start, md[i][2]) \in Nat \X Nat
      BY <1>1, <1>2, <1>3, <2>1
    <3> QED BY <1>4, <2>1, <3>1 DEF Written
  <2>2. CASE md[i][1] # "ref"
    BY <1>1, <1>4, <2>2
  <2> QED BY <2>1, <2>2
<1>7. text \in Seq(Written)
  BY <1>1, <1>5, <1>6
<1>8. \A i \in DOMAIN md : /\ text[i][1] = "ref" <=> md[i][1] = "ref"
                           /\ md[i][1] = "ref" => text[i][2] = Global(start, md[i][2])
  <2> TAKE i \in DOMAIN md
  <2>1. \A x : Ref(x)[1] = "ref" /\ Ref(x)[2] = x
    BY TokensAre
  <2> QED BY <1>4, <2>1
<1>9. \A y : y \in References(text) <=> \E x \in References(md) : y = Global(start, x)
  <2> TAKE y
  <2>1. y \in References(text) <=> \E i \in DOMAIN text : text[i][1] = "ref" /\ text[i][2] = y
    BY ReferencesAre
  <2>2. \A x : x \in References(md) <=> \E i \in DOMAIN md : md[i][1] = "ref" /\ md[i][2] = x
    BY ReferencesAre
  <2>3. ASSUME y \in References(text) PROVE \E x \in References(md) : y = Global(start, x)
    <3>1. PICK i \in DOMAIN md : text[i][1] = "ref" /\ text[i][2] = y
      BY <1>4, <2>1, <2>3
    <3>2. md[i][1] = "ref" /\ y = Global(start, md[i][2])
      BY <1>8, <3>1
    <3>3. md[i][2] \in References(md)
      BY <2>2, <3>2
    <3> QED BY <3>2, <3>3
  <2>4. ASSUME NEW x \in References(md), y = Global(start, x) PROVE y \in References(text)
    <3>1. PICK i \in DOMAIN md : md[i][1] = "ref" /\ md[i][2] = x
      BY <2>2
    <3>2. i \in DOMAIN text /\ text[i][1] = "ref" /\ text[i][2] = y
      BY <1>4, <1>8, <2>4, <3>1
    <3> QED BY <2>1, <3>2
  <2> QED BY <2>3, <2>4
<1> QED BY <1>7, <1>9 DEF text

\* Moved files keep what they show, and their pages keep their order.
LEMMA MovedIs ==
  ASSUME NEW f \in Files, NEW start \in Nat
  PROVE  /\ Moved(start, f) \in Files
         /\ Moved(start, f).name = Global(start, f.name)
         /\ Moved(start, f).name[1] = start + 1 + f.name[1]
         /\ Moved(start, f).box = f.box
         /\ Moved(start, f) = [name |-> Global(start, f.name), box |-> f.box]
<1>1. f.name \in Nat \X Nat /\ f.box \in Usable \cup {"torn"}
  BY DEF Files
<1>2. Global(start, f.name) \in Nat \X Nat /\ Global(start, f.name)[1] = start + 1 + f.name[1]
  BY <1>1 DEF Global
<1>3. /\ Moved(start, f).name = Global(start, f.name) /\ Moved(start, f).box = f.box
      /\ Moved(start, f) = [name |-> Global(start, f.name), box |-> f.box]
  BY DEF Moved, Files
<1>4. Moved(start, f) \in Files
  BY <1>1, <1>2, <1>3 DEF Files
<1> QED BY <1>2, <1>3, <1>4

\* The files of a chunk, moved behind the pages that are there.
Behind(start, gs) == {Moved(start, g) : g \in gs}

\* They leave the files of those pages alone.
LEMMA WholeMove ==
  ASSUME NEW fs \in SUBSET Files, NEW gs \in SUBSET Files, NEW start \in Nat,
         \A f \in fs : f.name[1] <= start
  PROVE  /\ \A p \in 1..start : WholeOf(fs \cup Behind(start, gs), p) = WholeOf(fs, p)
         /\ \A local \in Nat :
              WholeOf(fs \cup Behind(start, gs), start + 1 + local) = Behind(start, WholeOf(gs, local))
<1> DEFINE moved == Behind(start, gs)
           all == fs \cup moved
<1>1. \A f \in fs : f.name[1] \in Nat
  BY DEF Files
<1>2. \A g \in gs : /\ g.name[1] \in Nat /\ Moved(start, g).name[1] = start + 1 + g.name[1]
                    /\ Moved(start, g).box = g.box
  BY MovedIs DEF Files
<1>3. \A h \in moved : \E g \in gs : h = Moved(start, g)
  BY DEF Behind
<1>4. \A g \in gs : Moved(start, g) \in moved
  BY DEF Behind
<1> HIDE DEF moved
<1>5. ASSUME NEW p \in 1..start PROVE WholeOf(all, p) = WholeOf(fs, p)
  <2>1. \A h \in moved : h.name[1] # p
    BY <1>2, <1>3
  <2> QED BY <2>1 DEF WholeOf
<1>6. ASSUME NEW local \in Nat
      PROVE  WholeOf(all, start + 1 + local) = Behind(start, WholeOf(gs, local))
  <2>1. \A f \in fs : f.name[1] # start + 1 + local
    BY <1>1
  <2>2. \A g \in gs : Moved(start, g).name[1] = start + 1 + local <=> g.name[1] = local
    BY <1>2
  <2>3. ASSUME NEW h \in WholeOf(all, start + 1 + local)
        PROVE  \E g \in WholeOf(gs, local) : h = Moved(start, g)
    <3>1. h \in all /\ h.name[1] = start + 1 + local /\ h.box # "torn"
      BY DEF WholeOf
    <3>2. PICK g \in gs : h = Moved(start, g)
      BY <1>3, <2>1, <3>1
    <3>3. g \in WholeOf(gs, local)
      BY <1>2, <2>2, <3>1, <3>2 DEF WholeOf
    <3> QED BY <3>2, <3>3
  <2>4. ASSUME NEW g \in WholeOf(gs, local)
        PROVE  Moved(start, g) \in WholeOf(all, start + 1 + local)
    <3>1. g \in gs /\ g.name[1] = local /\ g.box # "torn"
      BY DEF WholeOf
    <3>2. Moved(start, g) \in all /\ Moved(start, g).name[1] = start + 1 + local
          /\ Moved(start, g).box # "torn"
      BY <1>2, <1>4, <2>2, <3>1
    <3> QED BY <3>2 DEF WholeOf
  <2> HIDE DEF all
  <2> QED BY <2>3, <2>4 DEF Behind
<1> QED BY <1>5, <1>6 DEF moved

\* A layout gets names of files.
LEMMA LayoutIs ==
  ASSUME NEW raw \in Seq(Shown), NEW page \in Nat
  PROVE  LayoutOf(raw, page) \in Seq(Laid)
<1> DEFINE shown == {q \in DOMAIN raw : raw[q].image}
           out == LayoutOf(raw, page)
<1>1. Len(raw) \in Nat /\ DOMAIN raw = 1..Len(raw) /\ shown \in SUBSET Int /\ IsFiniteSet(shown)
  BY PlacesAreFinite
<1>2. \A i \in DOMAIN raw : raw[i].image \in BOOLEAN /\ raw[i].box \in Usable \cup {"none"}
  <2>1. \A i \in DOMAIN raw : raw[i] \in Shown
    BY ElementOfSeq
  <2> QED BY <2>1 DEF Shown
<1> HIDE DEF shown
<1>3. \A i : Rank(i, shown) \in Nat
  BY <1>1, RankIs
<1>4. \A i \in DOMAIN raw :
        out[i] = [image |-> raw[i].image, box |-> raw[i].box, name |-> <<page, Rank(i, shown)>>]
  BY DEF LayoutOf, shown
<1>5. out = [i \in 1..Len(raw) |-> out[i]]
  BY <1>1 DEF LayoutOf
<1> HIDE DEF out
<1>6. \A i \in 1..Len(raw) : out[i] \in Laid
  <2> TAKE i \in 1..Len(raw)
  <2> DEFINE image == raw[i].image
             box == raw[i].box
             name == <<page, Rank(i, shown)>>
  <2>1. name \in Nat \X Nat
    BY <1>3
  <2>2. image \in BOOLEAN /\ box \in Usable \cup {"none"}
    BY <1>1, <1>2
  <2>3. out[i] = [image |-> image, box |-> box, name |-> name]
    BY <1>1, <1>4
  <2> HIDE DEF image, box, name
  <2> QED BY <2>1, <2>2, <2>3 DEF Laid
<1>7. out \in Seq(Laid)
  BY <1>1, <1>5, <1>6
<1> QED BY <1>7 DEF out

\* And shows the moved crops if it showed the crops.
LEMMA LayoutMoves ==
  ASSUME NEW raw \in Seq(Shown), NEW start \in Nat, NEW local \in Nat,
         NEW fs \in SUBSET Files, NEW all, \A f \in fs : Moved(start, f) \in all,
         ShowsCrops(LayoutOf(raw, local), fs)
  PROVE  ShowsCrops(LayoutOf(raw, start + 1 + local), all)
<1> DEFINE number(i) == Rank(i, {q \in DOMAIN raw : raw[q].image})
           file(i) == [name |-> <<local, number(i)>>, box |-> raw[i].box]
<1>1. \A page : /\ DOMAIN LayoutOf(raw, page) = DOMAIN raw
                /\ \A i \in DOMAIN raw :
                     /\ LayoutOf(raw, page)[i].image = raw[i].image
                     /\ LayoutOf(raw, page)[i].box = raw[i].box
                     /\ LayoutOf(raw, page)[i].name = <<page, number(i)>>
  BY DEF LayoutOf
<1>2. \A i \in DOMAIN raw : raw[i].image => file(i) \in fs
  <2> TAKE i \in DOMAIN raw
  <2>1. raw[i].image =>
          [name |-> LayoutOf(raw, local)[i].name, box |-> LayoutOf(raw, local)[i].box] \in fs
    BY <1>1 DEF ShowsCrops
  <2>2. [name |-> LayoutOf(raw, local)[i].name, box |-> LayoutOf(raw, local)[i].box] = file(i)
    BY <1>1
  <2> QED BY <2>1, <2>2
<1> HIDE DEF number
<1>3. \A i \in DOMAIN raw : raw[i].image =>
        [name |-> <<start + 1 + local, number(i)>>, box |-> raw[i].box] \in all
  <2> TAKE i \in DOMAIN raw
  <2> HAVE raw[i].image
  <2>1. file(i) \in fs
    BY <1>2
  <2>2. Moved(start, file(i)) = [name |-> Global(start, file(i).name), box |-> file(i).box]
    BY <2>1, MovedIs
  <2>3. Global(start, file(i).name) = <<start + 1 + local, number(i)>>
    BY DEF Global
  <2>4. file(i).box = raw[i].box
    OBVIOUS
  <2> HIDE DEF file
  <2> QED BY <2>1, <2>2, <2>3, <2>4
<1>4. ASSUME NEW i \in DOMAIN LayoutOf(raw, start + 1 + local),
             LayoutOf(raw, start + 1 + local)[i].image
      PROVE  [name |-> LayoutOf(raw, start + 1 + local)[i].name,
              box |-> LayoutOf(raw, start + 1 + local)[i].box] \in all
  <2>1. i \in DOMAIN raw /\ raw[i].image
    BY <1>1, <1>4
  <2>2. [name |-> LayoutOf(raw, start + 1 + local)[i].name,
         box |-> LayoutOf(raw, start + 1 + local)[i].box]
          = [name |-> <<start + 1 + local, number(i)>>, box |-> raw[i].box]
    BY <1>1, <2>1
  <2> QED BY <1>3, <2>1, <2>2
<1> DEFINE blocks == LayoutOf(raw, start + 1 + local)
<1>5. \A i \in DOMAIN blocks :
        blocks[i].image => [name |-> blocks[i].name, box |-> blocks[i].box] \in all
  BY <1>4
<1> HIDE DEF blocks
<1>6. ShowsCrops(blocks, all)
  BY <1>5 DEF ShowsCrops
<1> QED BY <1>6 DEF blocks

\* A page moved begins as it did.
LEMMA BeginsMove ==
  ASSUME NEW md \in Seq(Written), NEW shown \in Seq(Viewed), NEW fs \in SUBSET Files,
         NEW start \in Nat, BeginsAs(md, shown, fs)
  PROVE  BeginsAs(Rewritten(start, md), shown, Behind(start, fs))
<1> DEFINE moved == Behind(start, fs)
           text == Rewritten(start, md)
           kept == Kept(shown, fs)
           c == Cardinality(kept)
<1>1. /\ \A f \in fs : \E g \in moved : g.name = Global(start, f.name) /\ g.box = f.box
      /\ \A g \in moved : \E f \in fs : g.box = f.box
  <2>1. ASSUME NEW f \in fs
        PROVE  Moved(start, f).name = Global(start, f.name) /\ Moved(start, f).box = f.box
    <3>1. f \in Files
      OBVIOUS
    <3> QED BY <3>1, MovedIs
  <2>2. \A g : g \in moved <=> \E f \in fs : g = Moved(start, f)
    BY Zenon DEF Behind
  <2> HIDE DEF moved
  <2> QED BY <2>1, <2>2
<1>2. Kept(shown, moved) = kept
  <2>1. \A t : t \in {Box(f.box) : f \in fs} <=> t \in {Box(g.box) : g \in moved}
    BY <1>1
  <2> QED BY <2>1 DEF Kept
<1>3. c \in Nat
  <2>1. kept \subseteq DOMAIN shown
    BY DEF Kept
  <2> QED BY <2>1, PlacesAreFinite, FS_CardinalityType
<1>4. /\ c <= Len(md) /\ Len(md) \in Nat /\ DOMAIN md = 1..Len(md)
      /\ \A k \in 1..c : IsShownAs(md[k], shown[Ascending(kept)[k]], fs)
  BY LenProperties DEF BeginsAs
<1>5. /\ DOMAIN text = DOMAIN md /\ Len(text) = Len(md)
      /\ \A i \in DOMAIN md :
           text[i] = IF md[i][1] = "ref" THEN Ref(Global(start, md[i][2])) ELSE md[i]
  <2>1. text \in Seq(Written)
    BY ReferencesMove
  <2>2. DOMAIN text = DOMAIN md
    BY DEF Rewritten
  <2>3. Len(text) = Len(md)
    BY <2>1, <2>2, LenProperties
  <2> QED BY <2>2, <2>3 DEF Rewritten
<1> HIDE DEF text, moved, c, kept
<1>6. ASSUME NEW k \in 1..c PROVE IsShownAs(text[k], shown[Ascending(kept)[k]], moved)
  <2>1. k \in DOMAIN md /\ IsShownAs(md[k], shown[Ascending(kept)[k]], fs)
    BY <1>3, <1>4
  <2>2. CASE md[k][1] = "ref"
    <3>1. PICK f \in fs : f.name = md[k][2] /\ shown[Ascending(kept)[k]] = Box(f.box)
      BY <2>1, <2>2 DEF IsShownAs
    <3>2. PICK g \in moved : g.name = Global(start, f.name) /\ g.box = f.box
      BY <1>1
    <3>3. text[k][1] = "ref" /\ text[k][2] = Global(start, md[k][2])
      BY <1>5, <2>1, <2>2, TokensAre
    <3> QED BY <3>1, <3>2, <3>3 DEF IsShownAs
  <2>3. CASE md[k][1] # "ref"
    BY <1>5, <2>1, <2>3 DEF IsShownAs
  <2> QED BY <2>2, <2>3
<1> QED BY <1>2, <1>4, <1>5, <1>6 DEF BeginsAs, text, moved, c, kept

\* And files moved have names of their own.
LEMMA NamesMove ==
  ASSUME NEW fs \in SUBSET Files, NEW gs \in SUBSET Files, NEW start \in Nat,
         \A f \in fs : f.name[1] <= start, OneOfAName(fs), OneOfAName(gs)
  PROVE  OneOfAName(fs \cup Behind(start, gs))
<1> DEFINE moved == Behind(start, gs)
<1>1. \A g \in gs : /\ g.name \in Nat \X Nat /\ Moved(start, g).name = Global(start, g.name)
                    /\ Moved(start, g).name[1] = start + 1 + g.name[1]
                    /\ Moved(start, g).box = g.box
  BY MovedIs DEF Files
<1>2. \A x, y \in Nat \X Nat : Global(start, x) = Global(start, y) => x = y
  BY DEF Global
<1>3. \A f, g \in gs : Moved(start, f).name = Moved(start, g).name => f.name = g.name
  BY <1>1, <1>2
<1>4. ASSUME NEW f \in moved, NEW g \in moved, f.name = g.name, f.box # "torn", g.box # "torn"
      PROVE  f = g
  <2>1. PICK d \in gs : f = Moved(start, d)
    BY DEF Behind
  <2>2. PICK e \in gs : g = Moved(start, e)
    BY DEF Behind
  <2>3. d = e
    BY <1>1, <1>3, <1>4, <2>1, <2>2 DEF OneOfAName
  <2> QED BY <2>1, <2>2, <2>3
<1>5. \A f \in fs, g \in moved : f.name # g.name
  <2>1. \A g \in moved : g.name[1] > start
    <3>1. \A g \in gs : Moved(start, g).name[1] > start
      BY <1>1
    <3> QED BY <3>1 DEF Behind
  <2>2. \A f \in fs : f.name[1] \in Nat
    BY DEF Files
  <2>3. \A g \in moved : g.name[1] \in Nat
    BY <1>1 DEF Behind
  <2> QED BY <2>1, <2>2, <2>3
<1> HIDE DEF moved
<1>6. OneOfAName(fs \cup moved)
  BY <1>4, <1>5 DEF OneOfAName
<1> QED BY <1>6 DEF moved

\* The chunk becomes pages of the result, behind those that are there.
LEMMA ContentInvMerge ==
  ASSUME ContentInv, MergeContent
  PROVE  ContentInv'
<1> DEFINE m == Len(chunk.markdown)
           texts == [l \in DOMAIN chunk.markdown |-> Rewritten(Start, chunk.markdown[l])]
           laid == [l \in DOMAIN chunk.raw |-> LayoutOf(chunk.raw[l], Start + l)]
           arrived == Behind(Start, chunk.files)
           tags == Behind(Start, chunk.boxes)
<1>1. /\ result' = result \o texts /\ images' = images \cup arrived /\ boxes' = boxes \cup tags
      /\ layout' = layout \o laid /\ chunk' = EmptyChunk /\ UNCHANGED <<single, next, live, apart>>
  BY DEF MergeContent, Behind
<1>2. /\ chunk.markdown \in Seq(Seq(Written)) /\ chunk.raw \in Seq(Seq(Shown))
      /\ chunk.files \in SUBSET Files /\ chunk.boxes \in SUBSET Files
      /\ result \in Seq(Seq(Written)) /\ layout \in Seq(Seq(Laid))
      /\ images \in SUBSET Files /\ boxes \in SUBSET Files
  BY DEF ContentInv, ContentTyped
<1>3. /\ m \in Nat /\ DOMAIN chunk.markdown = 1..m /\ DOMAIN chunk.raw = 1..m
      /\ Start \in Nat /\ DOMAIN result = 1..Start
      /\ Len(layout) = Start /\ DOMAIN layout = 1..Start
  <2>1. Len(chunk.raw) = m /\ Len(layout) = Len(result)
    BY DEF ContentInv, PagesCounted
  <2> QED BY <1>2, <2>1, LenProperties DEF Start
<1>4. \A l \in 1..m : chunk.markdown[l] \in Seq(Written) /\ chunk.raw[l] \in Seq(Shown)
  BY <1>2, <1>3, ElementOfSeq, LenProperties
<1>5. texts \in Seq(Seq(Written)) /\ Len(texts) = m /\ \A l \in 1..m :
        /\ texts[l] = Rewritten(Start, chunk.markdown[l])
        /\ References(texts[l]) = {Global(Start, x) : x \in References(chunk.markdown[l])}
  <2>1. \A l \in 1..m :
          /\ Rewritten(Start, chunk.markdown[l]) \in Seq(Written)
          /\ References(Rewritten(Start, chunk.markdown[l]))
               = {Global(Start, x) : x \in References(chunk.markdown[l])}
    BY <1>3, <1>4, ReferencesMove
  <2> DEFINE text(l) == Rewritten(Start, chunk.markdown[l])
  <2>2. texts = [l \in 1..m |-> text(l)]
    BY <1>3
  <2> HIDE DEF texts, m, text
  <2>3. \A l \in 1..m : text(l) \in Seq(Written)
    BY <2>1 DEF text
  <2>4. texts \in Seq(Seq(Written)) /\ Len(texts) = m /\ \A l \in 1..m : texts[l] = text(l)
    BY <1>3, <2>2, <2>3
  <2> QED BY <2>1, <2>4 DEF text
<1>6. laid \in Seq(Seq(Laid)) /\ Len(laid) = m
      /\ \A l \in 1..m : laid[l] = LayoutOf(chunk.raw[l], Start + l)
  <2>1. \A l \in 1..m : LayoutOf(chunk.raw[l], Start + l) \in Seq(Laid)
    <3> TAKE l \in 1..m
    <3>1. Start + l \in Nat
      BY <1>3
    <3> QED BY <1>4, <3>1, LayoutIs
  <2>2. laid = [l \in 1..m |-> LayoutOf(chunk.raw[l], Start + l)]
    BY <1>3
  <2> HIDE DEF laid, m
  <2> QED BY <1>3, <2>1, <2>2
<1> HIDE DEF texts, laid, m
<1>7. /\ result' \in Seq(Seq(Written)) /\ Len(result') = Start + m
      /\ \A p \in 1..Start : result'[p] = result[p]
      /\ \A l \in 1..m : result'[Start + l] = texts[l]
  <2>1. /\ Len(result) = Start /\ Len(texts) = m
        /\ result \in Seq(Seq(Written)) /\ texts \in Seq(Seq(Written))
    BY <1>2, <1>3, <1>5 DEF Start
  <2>2. /\ result \o texts \in Seq(Seq(Written)) /\ Len(result \o texts) = Start + m
        /\ \A i \in 1..(Start + m) :
             (result \o texts)[i] = IF i <= Start THEN result[i] ELSE texts[i - Start]
    BY <2>1, ConcatProperties
  <2> DEFINE joined == result \o texts
  <2> HIDE DEF joined
  <2>3. \A p \in 1..Start : p \in 1..(Start + m) /\ p <= Start
    BY <1>3
  <2>5. \A p \in 1..Start : joined[p] = result[p]
    BY <2>2, <2>3 DEF joined
  <2>6. \A l \in 1..m : joined[Start + l] = texts[l]
    <3> TAKE l \in 1..m
    <3> DEFINE i == Start + l
    <3>1. i \in 1..(Start + m) /\ ~(i <= Start) /\ i - Start = l
      <4>1. Start \in Nat /\ m \in Nat /\ l \in Nat /\ 1 <= l /\ l <= m
        BY <1>3
      <4> QED BY <4>1
    <3> HIDE DEF i
    <3>2. joined[i] = texts[i - Start]
      BY <2>2, <3>1 DEF joined
    <3>3. joined[i] = texts[l]
      BY <3>1, <3>2
    <3> QED BY <3>3 DEF i
  <2> QED BY <1>1, <2>2, <2>5, <2>6 DEF joined
<1>8. /\ layout' \in Seq(Seq(Laid)) /\ Len(layout') = Start + m
      /\ \A p \in 1..Start : layout'[p] = layout[p]
      /\ \A l \in 1..m : layout'[Start + l] = laid[l]
  <2>1. /\ Len(layout) = Start /\ Len(laid) = m
        /\ layout \in Seq(Seq(Laid)) /\ laid \in Seq(Seq(Laid))
    BY <1>2, <1>3, <1>6 DEF Start
  <2>2. /\ layout \o laid \in Seq(Seq(Laid)) /\ Len(layout \o laid) = Start + m
        /\ \A i \in 1..(Start + m) :
             (layout \o laid)[i] = IF i <= Start THEN layout[i] ELSE laid[i - Start]
    BY <2>1, ConcatProperties
  <2> DEFINE joined == layout \o laid
  <2> HIDE DEF joined
  <2>3. \A p \in 1..Start : p \in 1..(Start + m) /\ p <= Start
    BY <1>3
  <2>5. \A p \in 1..Start : joined[p] = layout[p]
    BY <2>2, <2>3 DEF joined
  <2>6. \A l \in 1..m : joined[Start + l] = laid[l]
    <3> TAKE l \in 1..m
    <3> DEFINE i == Start + l
    <3>1. i \in 1..(Start + m) /\ ~(i <= Start) /\ i - Start = l
      <4>1. Start \in Nat /\ m \in Nat /\ l \in Nat /\ 1 <= l /\ l <= m
        BY <1>3
      <4> QED BY <4>1
    <3> HIDE DEF i
    <3>2. joined[i] = laid[i - Start]
      BY <2>2, <3>1 DEF joined
    <3>3. joined[i] = laid[l]
      BY <3>1, <3>2
    <3> QED BY <3>3 DEF i
  <2> QED BY <1>1, <2>2, <2>5, <2>6 DEF joined
<1>9. arrived \subseteq Files /\ tags \subseteq Files
  BY <1>2, <1>3, MovedIs DEF Behind
<1>10. chunk'.markdown = <<>> /\ chunk'.raw = <<>> /\ chunk'.files = {} /\ Len(<<>>) = 0
       /\ chunk' \in [markdown : Seq(Seq(Written)), raw : Seq(Seq(Shown)),
                      boxes : SUBSET Files, files : SUBSET Files]
  BY <1>1 DEF EmptyChunk
<1>11. \A f \in images : f.name[1] <= Start
  BY DEF ContentInv, FilesAreOfPages, Start
<1>12. ContentTyped'
  BY <1>1, <1>2, <1>7, <1>8, <1>9, <1>10 DEF ContentInv, ContentTyped
<1>13. PagesCounted'
  <2>1. next = Start + m + 1 /\ Len(live) = next - 1 /\ apart \in SUBSET 1..(next - 1)
    BY DEF ContentInv, PagesCounted, Start, m
  <2>2. Len(live') = next' - 1 /\ apart' \in SUBSET 1..(next' - 1)
    BY <1>1, <2>1
  <2> QED BY <1>1, <1>3, <1>7, <1>8, <1>10, <2>1, <2>2 DEF PagesCounted
<1>14. FilesAreOfPages'
  <2>1. \A f \in images : f.name[1] <= Start + m
    <3>1. \A f \in images : f.name[1] \in Nat
      BY <1>2 DEF Files
    <3> QED BY <1>3, <1>11, <3>1
  <2>2. \A f \in chunk.files : Moved(Start, f).name[1] <= Start + m
    <3> TAKE f \in chunk.files
    <3>1. f.name[1] < m /\ f.name[1] \in Nat
      BY <1>2 DEF ContentInv, FilesAreOfPages, Files, m
    <3>2. Moved(Start, f).name[1] = Start + 1 + f.name[1]
      BY <1>2, <1>3, MovedIs
    <3> QED BY <1>3, <3>1, <3>2
  <2>3. \A f \in images' : f.name[1] <= Start + m
    BY <1>1, <2>1, <2>2 DEF Behind
  <2> QED BY <1>7, <1>10, <2>3 DEF FilesAreOfPages
<1>15. ChunkResolves' /\ ChunkShowsItsCrops'
  BY <1>10 DEF ChunkResolves, ChunkShowsItsCrops
<1>16. /\ \A p \in 1..Start : WholeOf(images', p) = WholeOf(images, p)
       /\ \A local \in Nat :
            WholeOf(images', Start + 1 + local) = Behind(Start, WholeOf(chunk.files, local))
  <2>1. images \in SUBSET Files /\ chunk.files \in SUBSET Files /\ Start \in Nat
    BY <1>2, <1>3
  <2>2. images' = images \cup Behind(Start, chunk.files)
    BY <1>1
  <2>3. /\ \A p \in 1..Start :
             WholeOf(images \cup Behind(Start, chunk.files), p) = WholeOf(images, p)
        /\ \A local \in Nat :
             WholeOf(images \cup Behind(Start, chunk.files), Start + 1 + local)
               = Behind(Start, WholeOf(chunk.files, local))
    BY <1>11, <2>1, WholeMove
  <2> QED BY <2>2, <2>3
<1>17. RefsResolve'
  <2>1. ASSUME NEW p \in 1..(Start + m)
        PROVE  References(result'[p]) = {f.name : f \in WholeOf(images', p)}
    <3>1. CASE p \in 1..Start
      <4>1. References(result[p]) = {f.name : f \in WholeOf(images, p)}
        BY <1>3, <3>1 DEF ContentInv, RefsResolve, CropsOf, WholeOf
      <4> QED BY <1>7, <1>16, <3>1, <4>1
    <3>2. CASE p \notin 1..Start
      <4> DEFINE l == p - Start
                 whole == WholeOf(chunk.files, l - 1)
      <4>1. l \in 1..m /\ l - 1 \in Nat /\ p = Start + l /\ p = Start + 1 + (l - 1)
        BY <1>3, <3>2
      <4> HIDE DEF l
      <4>2. References(result'[p]) = {Global(Start, x) : x \in References(chunk.markdown[l])}
        BY <1>5, <1>7, <4>1
      <4>3. References(chunk.markdown[l]) = {f.name : f \in whole}
        BY <4>1 DEF ContentInv, ChunkResolves, m
      <4>4. WholeOf(images', p) = Behind(Start, whole)
        BY <1>16, <4>1
      <4>5. \A g \in whole : Moved(Start, g).name = Global(Start, g.name)
        BY <1>2, <1>3, MovedIs DEF WholeOf
      <4> HIDE DEF whole
      <4> QED BY <4>2, <4>3, <4>4, <4>5 DEF Behind
    <3> QED BY <3>1, <3>2
  <2>2. DOMAIN result' = 1..(Start + m)
    BY <1>7, LenProperties
  <2> QED BY <2>1, <2>2 DEF RefsResolve, CropsOf, WholeOf
<1>18. LayoutShowsItsCrop'
  <2> DEFINE all == images' \cap boxes'
  <2>1. ASSUME NEW p \in 1..(Start + m)
        PROVE  ShowsCrops(layout'[p], all)
    <3>1. CASE p \in 1..Start
      <4>1. ShowsCrops(layout[p], images \cap boxes)
        BY <1>3, <3>1 DEF ContentInv, LayoutShowsItsCrop, ShowsCrops
      <4>2. images \cap boxes \subseteq all /\ layout'[p] = layout[p]
        BY <1>1, <1>8, <3>1
      <4> HIDE DEF all
      <4> QED BY <4>1, <4>2 DEF ShowsCrops
    <3>2. CASE p \notin 1..Start
      <4> DEFINE l == p - Start
                 fs == chunk.files \cap chunk.boxes
      <4>1. l \in 1..m /\ l - 1 \in Nat /\ p = Start + l /\ p = Start + 1 + (l - 1)
        BY <1>3, <3>2
      <4> HIDE DEF l
      <4>2. ShowsCrops(LayoutOf(chunk.raw[l], l - 1), fs)
        <5>1. l \in 1..Len(chunk.raw)
          BY <4>1 DEF ContentInv, PagesCounted, m
        <5> QED BY <5>1 DEF ContentInv, ChunkShowsItsCrops
      <4>3. \A f \in fs : Moved(Start, f) \in all
        BY <1>1 DEF Behind
      <4>4. fs \in SUBSET Files /\ chunk.raw[l] \in Seq(Shown)
        BY <1>2, <1>4, <4>1
      <4> HIDE DEF fs, all
      <4>5. ShowsCrops(LayoutOf(chunk.raw[l], Start + 1 + (l - 1)), all)
        BY <1>3, <4>1, <4>2, <4>3, <4>4, LayoutMoves
      <4>6. layout'[p] = LayoutOf(chunk.raw[l], Start + 1 + (l - 1))
        BY <1>6, <1>8, <4>1
      <4> QED BY <4>5, <4>6
    <3> QED BY <3>1, <3>2
  <2>2. DOMAIN layout' = 1..(Start + m)
    BY <1>8, LenProperties
  <2> QED BY <2>1, <2>2 DEF LayoutShowsItsCrop, ShowsCrops
<1>19. CropsAreNamed'
  <2>1. OneOfAName(images) /\ OneOfAName(chunk.files)
    BY DEF ContentInv, CropsAreNamed
  <2>2. OneOfAName(images \cup Behind(Start, chunk.files))
    BY <1>2, <1>3, <1>11, <2>1, NamesMove
  <2>3. OneOfAName(images')
    BY <1>1, <2>2
  <2>4. OneOfAName(chunk'.files)
    BY <1>10 DEF OneOfAName
  <2> QED BY <2>3, <2>4 DEF CropsAreNamed
<1>20. ChunkBeginsAsShown'
  BY <1>10 DEF ChunkBeginsAsShown
<1>21. ResultBeginsAsShown'
  <2>1. ASSUME NEW p \in 1..(Start + m), p \in apart
        PROVE  BeginsAs(result'[p], live[p], WholeOf(images', p))
    <3>1. CASE p \in 1..Start
      <4>1. BeginsAs(result[p], live[p], WholeOf(images, p))
        BY <2>1, <3>1 DEF ContentInv, ResultBeginsAsShown, Start
      <4> QED BY <1>7, <1>16, <3>1, <4>1
    <3>2. CASE p \notin 1..Start
      <4> DEFINE l == p - Start
                 whole == WholeOf(chunk.files, l - 1)
      <4>1. l \in 1..m /\ l - 1 \in Nat /\ p = Start + l /\ p = Start + 1 + (l - 1)
        BY <1>3, <3>2
      <4> HIDE DEF l
      <4>2. BeginsAs(chunk.markdown[l], live[p], whole)
        BY <2>1, <4>1 DEF ContentInv, ChunkBeginsAsShown, Start, m
      <4>3. WholeOf(images', p) = Behind(Start, whole)
        BY <1>16, <4>1
      <4>4. result'[p] = Rewritten(Start, chunk.markdown[l])
        BY <1>5, <1>7, <4>1
      <4>5. whole \in SUBSET Files /\ chunk.markdown[l] \in Seq(Written)
        BY <1>2, <1>4, <4>1 DEF WholeOf
      <4>6. live[p] \in Seq(Viewed)
        <5>1. live \in Seq(Seq(Viewed)) /\ Len(live) = Start + m
          <6>1. next = Start + m + 1 /\ Len(live) = next - 1
            BY DEF ContentInv, PagesCounted, Start, m
          <6> QED BY <1>3, <6>1 DEF ContentInv, ContentTyped
        <5> QED BY <5>1, LenProperties, ElementOfSeq
      <4> HIDE DEF whole
      <4> QED BY <1>3, <4>2, <4>3, <4>4, <4>5, <4>6, BeginsMove
    <3> QED BY <3>1, <3>2
  <2> QED BY <1>1, <1>7, <2>1 DEF ResultBeginsAsShown
<1> QED BY <1>12, <1>13, <1>14, <1>15, <1>17, <1>18, <1>19, <1>20, <1>21 DEF ContentInv

\* The inductive invariant holds in every state.
LEMMA ContentInvAlways == ContentSpec => []ContentInv
<1>1. ContentInv /\ [ContentNext]_contentVars => ContentInv'
  <2> SUFFICES ASSUME ContentInv, [ContentNext]_contentVars PROVE ContentInv'
    OBVIOUS
  <2>1. CASE ParsePage
    BY <2>1, ContentInvParse
  <2>2. CASE MergeContent
    BY <2>2, ContentInvMerge
  <2>3. CASE UNCHANGED contentVars
    BY <2>3 DEF contentVars, ContentInv, ContentTyped, PagesCounted, FilesAreOfPages,
                CropsAreNamed, ChunkResolves, ChunkShowsItsCrops, ChunkBeginsAsShown,
                RefsResolve, LayoutShowsItsCrop, ResultBeginsAsShown, CropsOf
  <2> QED BY <2>1, <2>2, <2>3 DEF ContentNext
<1> QED BY <1>1, ContentInvInit, PTL DEF ContentSpec

\* Every reference of the result names a whole crop of its page, and every whole crop is
\* referred to on its page (materializer.py:100-170, merge.py:94-193).
THEOREM ReferencesResolve == ContentSpec => []RefsResolve
<1>1. ContentInv => RefsResolve
  BY DEF ContentInv
<1> QED BY <1>1, ContentInvAlways, PTL

\* Every image of the layout view is a file that shows the box where the view puts it, though
\* view and crops count their images apart (layout.py:40-84,
\* materializer.py:74-146, merge.py:145-177).
THEOREM LayoutIsShown == ContentSpec => []LayoutShowsItsCrop
<1>1. ContentInv => LayoutShowsItsCrop
  BY DEF ContentInv
<1> QED BY <1>1, ContentInvAlways, PTL

\* The result begins as the live view showed it, figures that were not saved left out
\* (engine/sidecar.py:144-174, materializer.py:149-171).
LEMMA BeginsIsShown == ContentInv => LiveShowsTheResult
<1> SUFFICES ASSUME ContentInv, NEW p \in DOMAIN result \cap apart
             PROVE  LET saved == {Box(f.box) : f \in CropsOf(p)}
                        left == Ascending({i \in DOMAIN live[p] :
                                             live[p][i][1] = "box" => live[p][i] \in saved})
                    IN IsPrefix([k \in DOMAIN left |-> live[p][left[k]]],
                                [i \in DOMAIN result[p] |-> ShownAs(result[p][i])])
  BY DEF LiveShowsTheResult
<1> DEFINE fs == WholeOf(images, p)
           kept == Kept(live[p], fs)
           left == Ascending(kept)
           c == Cardinality(kept)
           s == [k \in DOMAIN left |-> live[p][left[k]]]
           t == [i \in DOMAIN result[p] |-> ShownAs(result[p][i])]
<1>1. CropsOf(p) = fs
  BY DEF CropsOf, WholeOf
<1>2. kept = {i \in DOMAIN live[p] : live[p][i][1] = "box" => live[p][i] \in {Box(f.box) : f \in CropsOf(p)}}
  BY <1>1 DEF Kept
<1>3. /\ p \in 1..Len(result) /\ Len(result) \in Nat
      /\ result[p] \in Seq(Written) /\ live[p] \in Seq(Viewed)
  <2>1. result \in Seq(Seq(Written)) /\ live \in Seq(Seq(Viewed)) /\ chunk.markdown \in Seq(Seq(Written))
    BY DEF ContentInv, ContentTyped
  <2>2. Len(result) \in Nat /\ Len(chunk.markdown) \in Nat /\ p \in 1..Len(result)
    BY <2>1, LenProperties
  <2>3. Len(live) = Len(result) + Len(chunk.markdown)
    BY <2>2 DEF ContentInv, PagesCounted
  <2>4. p \in 1..Len(live)
    BY <2>2, <2>3
  <2> QED BY <2>1, <2>2, <2>4, ElementOfSeq
<1>4. BeginsAs(result[p], live[p], fs)
  BY <1>3 DEF ContentInv, ResultBeginsAsShown
<1>5. Enumerates(left, kept)
  <2>1. kept \in SUBSET DOMAIN live[p]
    BY DEF Kept
  <2>2. kept \in SUBSET Int /\ IsFiniteSet(kept)
    BY <1>3, <2>1, PlacesAreFinite
  <2> HIDE DEF kept
  <2> QED BY <2>2, AscendingIs
<1>6. c \in Nat /\ DOMAIN left = 1..c
  BY <1>5 DEF Enumerates
<1>7. /\ c <= Len(result[p]) /\ Len(result[p]) \in Nat /\ DOMAIN result[p] = 1..Len(result[p])
      /\ \A k \in 1..c : IsShownAs(result[p][k], live[p][left[k]], fs)
  BY <1>3, <1>4, LenProperties DEF BeginsAs
<1> HIDE DEF left, c, kept
<1>8. ASSUME NEW k \in 1..c PROVE s[k] = t[k]
  <2> DEFINE token == result[p][k]
  <2>1. k \in DOMAIN result[p] /\ k \in DOMAIN left /\ IsShownAs(token, live[p][left[k]], fs)
    BY <1>6, <1>7
  <2>2. s[k] = live[p][left[k]] /\ t[k] = ShownAs(token)
    BY <2>1
  <2> HIDE DEF token
  <2>3. CASE token[1] = "ref"
    <3>1. PICK f \in fs : f.name = token[2] /\ live[p][left[k]] = Box(f.box)
      BY <2>1, <2>3 DEF IsShownAs
    <3>2. f \in images /\ f.box # "torn"
      BY DEF WholeOf
    <3> DEFINE g == CHOOSE h \in images : h.name = token[2] /\ h.box # "torn"
    <3>3. g \in images /\ g.name = token[2] /\ g.box # "torn"
      BY <3>1, <3>2
    <3>4. BoxOf(token[2]) = g.box
      BY DEF BoxOf
    <3> HIDE DEF g
    <3>5. g = f
      BY <3>1, <3>2, <3>3 DEF ContentInv, CropsAreNamed, OneOfAName
    <3> QED BY <2>2, <2>3, <3>1, <3>4, <3>5 DEF ShownAs
  <2>4. CASE token[1] # "ref"
    BY <2>1, <2>2, <2>4 DEF IsShownAs, ShownAs
  <2> QED BY <2>3, <2>4
<1> DEFINE S == {s[k] : k \in 1..c} \cup {t[k] : k \in DOMAIN result[p]}
<1>9. s \in Seq(S) /\ Len(s) = c /\ t \in Seq(S) /\ Len(t) = Len(result[p])
  <2>1. s = [k \in 1..c |-> s[k]] /\ t = [k \in 1..Len(result[p]) |-> t[k]]
    BY <1>6, <1>7
  <2>2. \A k \in 1..c : s[k] \in S
    OBVIOUS
  <2>3. \A k \in 1..Len(result[p]) : t[k] \in S
    BY <1>7
  <2> HIDE DEF s, t, S
  <2> QED BY <1>6, <1>7, <2>1, <2>2, <2>3
<1> HIDE DEF s, t, S
<1>10. SubSeq(s, 1, c) = SubSeq(t, 1, c)
  <2>1. SubSeq(s, 1, c) = [k \in 1..c |-> s[k]] /\ SubSeq(t, 1, c) = [k \in 1..c |-> t[k]]
    BY <1>6, <1>7, <1>9
  <2> QED BY <1>8, <2>1
<1>11. IsPrefix(s, t)
  BY <1>7, <1>9, <1>10 DEF IsPrefix
<1> QED BY <1>2, <1>11 DEF s, t, left

\* The live view does not show what the result will not: the order of the figures and of the
\* text is the result's, whatever was cut, renamed or merged on the way
\* (engine/sidecar.py:144-174, materializer.py:149-171, merge.py:94-193).
THEOREM LiveIsShown == ContentSpec => []LiveShowsTheResult
<1> QED BY ContentInvAlways, BeginsIsShown, PTL
=============================================================================
