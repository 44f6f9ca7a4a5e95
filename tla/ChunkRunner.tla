----------------------------- MODULE ChunkRunner -----------------------------
(***************************************************************************)
(* The chunk loop of execute_job (pipeline/runner.py) and what it hands to *)
(* IncrementalMerger (pipeline/merge.py): the OCR engine is called once    *)
(* per chunk, retried once, and a chunk it cannot do is replaced page by   *)
(* page: by single-page calls, by the text layer of the PDF, by a          *)
(* placeholder.  The engine is external here: a call returns Markdown with *)
(* some number of pages, raises, raises RepetitiveOutputError or raises    *)
(* JobCanceled, and leaves crops and layout files in the call's directory. *)
(*                                                                         *)
(* The loop runs on the worker thread alone.  What it shares is the cancel *)
(* event, which a request may set between any two steps, and the progress  *)
(* the token sink advances while a call runs.  Page numbers count from 1.  *)
(***************************************************************************)
EXTENDS Naturals, Sequences, FiniteSetsExt

CONSTANTS Total,       \* pages of the document
          ChunkSize,   \* settings.pages_per_chunk or preferred_chunk_size
          MaxWarnings, \* _MAX_JOB_WARNINGS
          MaxDrained   \* bound: warnings the engine leaves per chunk

ASSUME RunnerAssumption ==
  /\ Total \in Nat /\ ChunkSize \in Nat \ {0}
  /\ MaxWarnings \in Nat /\ MaxDrained \in Nat

VARIABLES
  mode,       \* job.mode
  status,     \* job.status
  cancelSet,  \* the cancel event
  pc,
  donePages,  \* pages of the chunks completed
  at, n,      \* the engine call at hand: its first page, its number of pages
  recovering, \* a multi chunk is being redone page by page
  attempt,    \* 1, or 2 for the retry
  pieces,     \* pages in the Markdown the call returned
  files,      \* what lies in the call's directory: from a failed and a good attempt
  failedPages, failedChunks,
  merged,     \* IncrementalMerger.pages_md: per entry its page, source and files
  current,    \* progress["current_page"]
  warnings,   \* len(merger.warnings)
  late        \* ghost: engine calls that began after a cancel was requested

callVars == <<at, n, recovering, attempt, pieces>>
countVars == <<donePages, failedPages, failedChunks>>
loopVars == <<mode, status, pc, callVars, files, countVars, merged, current, warnings>>
vars == <<loopVars, cancelSet, late>>

Size == IF mode = "per_page" THEN 1 ELSE ChunkSize
ChunkStart == donePages + 1
ChunkLen == Min({Size, Total - donePages})
ChunkEnd == donePages + ChunkLen
Single == mode = "per_page" \/ recovering

To(p) == pc' = p
Warn(k) == warnings' = warnings + k
Quiet == UNCHANGED <<mode, status, cancelSet, late>>

\* except JobCanceled and except Exception of execute_job.
Settle(s) == /\ status' = s /\ To("settled")
             /\ UNCHANGED <<mode, cancelSet, late, callVars, files, countVars, merged, current, warnings>>

-----------------------------------------------------------------------------
\* IncrementalMerger.add_chunk: the pieces become exactly as many pages as the
\* chunk has, surplus ones joined to the last and missing ones left empty, with a
\* warning for either; the files of the directory move along.

Merge(start, count, k, source, moved) ==
  /\ merged' = merged \o [i \in 1..count |->
                  [page |-> start + i - 1, files |-> moved,
                   source |-> IF i <= k THEN source ELSE "blank"]]
  /\ files' = {}
Surprise(count, k) == IF k = count THEN 0 ELSE 1

-----------------------------------------------------------------------------
\* The head of the loop: a cancel check, then the chunk's first page becomes the
\* progress.
StartChunk ==
  /\ pc = "loop" /\ donePages < Total /\ ~cancelSet
  /\ at' = ChunkStart /\ n' = ChunkLen /\ recovering' = FALSE /\ attempt' = 1
  /\ current' = ChunkStart
  /\ files' = {} /\ failedPages' = 0
  /\ To("save")
  /\ UNCHANGED <<pieces, donePages, failedChunks, merged, warnings>> /\ Quiet

\* The progress is saved and published before the call.
SaveProgress ==
  /\ pc = "save"
  /\ To("begin")
  /\ UNCHANGED <<callVars, files, countVars, merged, current, warnings>> /\ Quiet

\* The engine is called.  Nobody looks at the cancel event any more: what the
\* chunk, the retry and the page do between their check and this call is a step
\* or two of theirs.
BeginCall ==
  /\ pc = "begin"
  /\ late' = IF cancelSet THEN late + 1 ELSE late
  /\ To("call")
  /\ UNCHANGED <<mode, status, cancelSet, callVars, files, countVars, merged, current, warnings>>

\* The engine's token stream declares pages, as many as the model likes:
\* BrokerSink.on_text moves the progress on, never back or beyond the document.
StreamPage ==
  /\ pc = "call"
  /\ current' \in {page \in at..Total : page > current}
  /\ UNCHANGED <<pc, callVars, files, countVars, merged, warnings>> /\ Quiet

\* The call returns; a single-page call always stands for one piece.
CallReturns ==
  /\ pc = "call"
  /\ pieces' \in IF Single THEN {1} ELSE 0..(n + 1)
  /\ files' = files \cup {"good"}
  /\ To(IF recovering THEN "mergePage" ELSE "drain")
  /\ UNCHANGED <<at, n, recovering, attempt, countVars, merged, current, warnings>> /\ Quiet

\* Any exception but the two below: the first is retried, after it the call has
\* failed for good; what the attempt wrote stays in the directory.
CallRaises ==
  /\ pc = "call"
  /\ files' \in {files, files \cup {"failed"}}
  /\ To(IF attempt = 1 THEN "retry" ELSE "failed")
  /\ UNCHANGED <<callVars, countVars, merged, current, warnings>> /\ Quiet

\* RepetitiveOutputError is never retried; a cancel that is set wins over it.
CallRepeats ==
  /\ pc = "call"
  /\ files' \in {files, files \cup {"failed"}}
  /\ To(IF recovering THEN "failed" ELSE "repetitive")
  /\ UNCHANGED <<callVars, countVars, merged, current, warnings>> /\ Quiet

\* JobCanceled: every check, and the engine while it runs.  There is none between
\* the last page of a recovery and the merge, nor after the last chunk.
Canceled ==
  /\ cancelSet
  /\ \/ pc \in {"call", "retry", "failed", "repetitive", "text", "endChunk"}
     \/ pc = "loop" /\ donePages < Total
     \/ pc = "nextPage" /\ at < ChunkEnd
  /\ Settle("canceled")

\* Mutants of Retry: no look at the cancel event; no limit.
Retry_Canceled ==
  /\ pc = "retry"
  /\ attempt' = 2 /\ To("reset")
  /\ UNCHANGED <<at, n, recovering, pieces, files, countVars, merged, current, warnings>> /\ Quiet
Retry_Again ==
  /\ pc = "retry" /\ ~cancelSet
  /\ To("reset")
  /\ UNCHANGED <<callVars, files, countVars, merged, current, warnings>> /\ Quiet

\* The one retry, unless the job is cancelled.
Retry ==
  /\ pc = "retry" /\ ~cancelSet
  /\ attempt' = 2
  /\ To("reset")
  /\ UNCHANGED <<at, n, recovering, pieces, files, countVars, merged, current, warnings>> /\ Quiet

\* Mutant of Reset: nothing is removed.
Reset_KeepsFiles ==
  /\ pc = "reset"
  /\ To("begin")
  /\ UNCHANGED <<callVars, files, countVars, merged, current, warnings>> /\ Quiet

\* reset_output: what the first attempt wrote goes.
Reset ==
  /\ pc = "reset"
  /\ files' = {}
  /\ To("begin")
  /\ UNCHANGED <<callVars, countVars, merged, current, warnings>> /\ Quiet

\* A single page that failed for good: the failed attempts' files go, and the
\* text layer of that page is tried.
TryText ==
  /\ pc \in {"failed", "repetitive"} /\ Single /\ ~cancelSet
  /\ files' = {}
  /\ To("text")
  /\ UNCHANGED <<callVars, countVars, merged, current, warnings>> /\ Quiet

TextRecovers ==
  /\ pc = "text" /\ ~cancelSet
  /\ Merge(at, 1, 1, "text", files)
  /\ Warn(1)
  /\ To(IF recovering THEN "nextPage" ELSE "drain") /\ pieces' = 0
  /\ UNCHANGED <<at, n, recovering, attempt, countVars, current>> /\ Quiet

\* No usable text layer: a placeholder takes the page.
TextMissing ==
  /\ pc = "text" /\ ~cancelSet
  /\ Merge(at, 1, 1, "failed", files)
  /\ Warn(1)
  /\ IF recovering THEN failedPages' = failedPages + 1 /\ UNCHANGED failedChunks
                   ELSE failedChunks' = failedChunks + 1 /\ UNCHANGED failedPages
  /\ To(IF recovering THEN "nextPage" ELSE "drain") /\ pieces' = 0
  /\ UNCHANGED <<at, n, recovering, attempt, donePages, current>> /\ Quiet

\* Mutant of Placeholders: one for the whole chunk.
Placeholders_One ==
  /\ pc = "failed" /\ ~Single
  /\ Merge(at, 1, 1, "failed", {})
  /\ failedChunks' = failedChunks + 1 /\ Warn(1)
  /\ To("drain") /\ pieces' = 0
  /\ UNCHANGED <<at, n, recovering, attempt, donePages, failedPages, current>> /\ Quiet

\* A multi-page chunk that failed for good: its directory is removed and all its
\* pages are placeholders.
Placeholders ==
  /\ pc = "failed" /\ ~Single
  /\ Merge(at, n, n, "failed", {})
  /\ failedChunks' = failedChunks + 1
  /\ Warn(1)
  /\ To("drain") /\ pieces' = 0
  /\ UNCHANGED <<at, n, recovering, attempt, donePages, failedPages, current>> /\ Quiet

\* A multi-page chunk that repeats itself: everything it wrote is removed and
\* its pages are redone one by one.
Recover ==
  /\ pc = "repetitive" /\ ~Single /\ ~cancelSet
  /\ files' = {}
  /\ Warn(1)
  /\ recovering' = TRUE /\ at' = ChunkStart - 1 /\ n' = 1
  /\ To("nextPage")
  /\ UNCHANGED <<attempt, pieces, countVars, merged, current>> /\ Quiet

\* The next page of it, with a directory of its own.
NextPage ==
  /\ pc = "nextPage" /\ ~cancelSet /\ at < ChunkEnd
  /\ at' = at + 1 /\ attempt' = 1
  /\ files' = {}
  /\ To("begin")
  /\ UNCHANGED <<n, recovering, pieces, countVars, merged, current, warnings>> /\ Quiet

MergePage ==
  /\ pc = "mergePage"
  /\ Merge(at, 1, 1, "ocr", files)
  /\ To("nextPage")
  /\ UNCHANGED <<callVars, countVars, current, warnings>> /\ Quiet

\* The last page was redone: the chunk failed if all its pages did.
Recovered ==
  /\ pc = "nextPage" /\ at = ChunkEnd
  /\ failedChunks' = IF failedPages = ChunkLen THEN failedChunks + 1 ELSE failedChunks
  /\ To("drain") /\ pieces' = 0 /\ recovering' = FALSE
  /\ UNCHANGED <<at, n, attempt, files, donePages, failedPages, merged, current, warnings>> /\ Quiet

\* drain_warnings: appended while there is room; a notice takes the place right
\* after the cap, if it is still free.
Drain ==
  /\ pc = "drain"
  /\ \E k \in 0..MaxDrained :
       warnings' = IF warnings + k <= MaxWarnings THEN warnings + k
                   ELSE Max({warnings, MaxWarnings + 1})
  /\ To(IF "good" \in files THEN "mergeChunk" ELSE "endChunk")
  /\ UNCHANGED <<callVars, files, countVars, merged, current>> /\ Quiet

\* The Markdown of a call that succeeded is merged once, outside the retry.
MergeChunk ==
  /\ pc = "mergeChunk"
  /\ Merge(at, n, pieces, "ocr", files)
  /\ Warn(Surprise(n, pieces))
  /\ To("endChunk")
  /\ UNCHANGED <<callVars, countVars, current>> /\ Quiet

\* After the merge a cancel still ends the job; else the chunk is done.
EndChunk ==
  /\ pc = "endChunk" /\ ~cancelSet
  /\ donePages' = ChunkEnd
  /\ current' = IF current < ChunkEnd THEN ChunkEnd ELSE current
  /\ To("loop")
  /\ UNCHANGED <<callVars, files, failedPages, failedChunks, merged, warnings>> /\ Quiet

\* A write of the merger or of the progress fails: the whole job does.
WriteRaises ==
  /\ \/ pc \in {"save", "mergePage", "mergeChunk", "text"}
     \/ pc = "endChunk" /\ ~cancelSet
     \/ pc = "failed" /\ ~Single
     \/ pc = "loop" /\ donePages = Total
  /\ Settle("error")

\* All chunks are through: an error if none succeeded.
Chunks == (Total + Size - 1) \div Size
Finish ==
  /\ pc = "loop" /\ donePages = Total
  /\ Settle(IF Chunks > 0 /\ failedChunks = Chunks THEN "error" ELSE "done")

RequestCancel ==
  /\ ~cancelSet /\ cancelSet' = TRUE
  /\ UNCHANGED <<loopVars, late>>

-----------------------------------------------------------------------------
Init ==
  /\ mode \in {"multi", "per_page"}
  /\ status = "running" /\ cancelSet = FALSE /\ pc = "loop" /\ late = 0
  /\ donePages = 0 /\ at = 0 /\ n = 0 /\ recovering = FALSE /\ attempt = 1
  /\ pieces = 0 /\ files = {}
  /\ failedPages = 0 /\ failedChunks = 0
  /\ merged = <<>> /\ current = 0
  /\ warnings \in IF mode = "multi" THEN {0, 1} ELSE {0}   \* 1: a single-page engine

RunnerStep ==
  \/ StartChunk \/ SaveProgress \/ BeginCall
  \/ CallReturns \/ CallRaises \/ CallRepeats \/ Canceled
  \/ Retry \/ Reset \/ TryText \/ TextRecovers \/ TextMissing \/ Placeholders
  \/ Recover \/ NextPage \/ MergePage \/ Recovered \/ Drain \/ MergeChunk
  \/ EndChunk \/ WriteRaises \/ Finish

Next == RunnerStep \/ StreamPage \/ RequestCancel

Spec == Init /\ [][Next]_vars

\* The worker thread keeps running, and an engine call ends: both decoders stop
\* at a length limit and the remote ones at a deadline.
LiveSpec == Spec /\ WF_vars(RunnerStep)

-----------------------------------------------------------------------------
Sources == {"ocr", "blank", "text", "failed"}

\* The k-th page of the result is page k of the document, however its chunk was
\* recovered and whatever number of pages the model declared: each page is merged
\* once and in order, and a finished job has them all (merge.py:195-216,
\* runner.py:350-420).
PagesAligned ==
  /\ \A k \in 1..Len(merged) : merged[k].page = k
  /\ pc \in {"loop", "settled"} => Len(merged) >= donePages
  /\ status = "done" => Len(merged) = Total

\* Crops and layout files of a failed attempt never reach the result: not with
\* the retry that succeeded, not with the page's text layer, not with a
\* placeholder (runner.py:196-199, 268-269, 309, 357, 388).
NoStaleFiles ==
  \A k \in 1..Len(merged) :
    merged[k].files \subseteq (IF merged[k].source \in {"ocr", "blank"} THEN {"good"} ELSE {})

\* A cancel that falls between a check and the call it was for cannot stop that call
\* any more, but it is the last one: whatever becomes of it - a retry, a recovery
\* page by page, the next chunk - no other call begins, and the job does not end as
\* done (runner.py:226-239, 269-274, 311-318, 423).
LateCallIsTheLast == late <= 1 /\ (late = 1 => status # "done")

\* Every execution settles, also when every call fails (runner.py:225-470).
RunSettles == <>(status # "running")

=============================================================================
