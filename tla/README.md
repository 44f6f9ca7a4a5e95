# A TLA+ model of the PDF-to-Markdown service

The service converts PDF files to Markdown with an OCR engine, shows the
progress live, and translates finished results. This directory models its
backend (`src/backend/app`) from the job life cycle down to the decoding loop
of the local engine, the OCR services behind the sidecar engine, and the
translation of a result. The modules are checked with TLC on small instances;
most of the safety of ten of them is proved with TLAPS for all instances.

Contents: [The system](#the-system) · [What can go wrong](#what-can-go-wrong) ·
[The modules](#the-modules) · [The runs](#the-runs) · [Fairness](#fairness) ·
[Proofs](#proofs) · [Where code and documentation disagree](#where-code-and-documentation-disagree) ·
[What is not modelled](#what-is-not-modelled) · [What is left](#what-is-left) ·
[Running it](#running-it)

## The system

| Component | State it keeps | Operations | Correct when |
|---|---|---|---|
| Job store, worker, job API (`jobs.py`, `api.py`, `main.py`) | `_jobs`, `Job.status` and `Job.delete_requested`, `cancel_events`, the worker's queue, a directory with `meta.json` per job | POST /jobs, cancel, DELETE, the worker loop, `gc_expired`, `load_existing` | no deletion or cancel is lost, a final status is durable, every job settles |
| Event broker and SSE (`jobs.py`, `api.py`) | subscriber list per channel, a bounded queue per subscriber | `publish`, `subscribe`, `unsubscribe`, the generator of GET /events | nobody waits for an end that has passed, an overflow loses tokens and old events only |
| Job runner (`pipeline/runner.py`) | page and chunk counters, failed chunks, the directory of the call at hand | `execute_job`: call, retry, page-by-page recovery, text layer, placeholders | page k of the result is page k of the document, nothing of a failed attempt is left in it |
| Incremental merger (`pipeline/merge.py`) | `pages_md`, `warnings`, `result.md`, `layout.json` | `add_chunk`, `finalize` | as many pages as the chunk has, whatever the model declared; references, crops and layout agree after renaming |
| Sidecar engine and client (`engine/sidecar.py`, `sidecar/*`) | cached health, requests in flight, stop events, warnings | health probe, readiness wait, pages one by one or side by side, retries, sanitizing of pages, crops | a job waits for the first start, pages stay in order, nothing is inferred twice, figures show what they name |
| OCR services (`src/services/*`) | model load state, inference lock, resolution | load, health, parse a page, degrade on out-of-memory | one inference at a time, an answer for every request |
| Local engine and decoding (`engine/unlimited.py`, `fast_decode.py`, `native_ops.py`, `src/native`) | the token sequence, the n-gram window, the CUDA graph | greedy decoding in blocks, banned tokens, stop criteria | the fast loop returns what the plain loop returns |
| Repetition detector (`engine/repetition.py`) | carry, page, line and row counters, a rolling buffer | `feed`, `finish`, per-page budgets | finds what a look at the whole text finds, and a model that does not stop is stopped |
| Translation routes and registry (`api.py`, `main.py`) | `translate_tasks` under `translate_lock`, `translations/{lang}/state.json`, the `archive.zip` cache | start, cancel, state, events, archive, `_run_translate_thread` | one thread per job and language, a state file that never lies |
| Translation engine (`translate/engine.py`) | unit results, the cache `units.json`, two stop flags, a thread pool | `run_translation`, `translate_unit` | done means complete |
| Translation client (`translate/client.py`) | the API mode latched for `auto` | `complete` with retries, a doubled budget and fallback | the mode the server has is found, text that was received is not lost |
| Translation text (`masking.py`, `segment.py`, `types.py`, `glossary.py`, `prompts.py`) | none | masking and restoring, segmentation, cache keys, glossary rules | what is masked comes back once, and pages stay pages |
| PDF, layout, rendering (`pdf.py`, `layout.py`, `pdf_fonts.py`, `render.py`) | none across calls | conversions of page data | sequential, tested by example |
| Frontend (`src/frontend/app.js`) | the stream's connection, the view of a job | reconnect, snapshot, polling | the view converges to the job's status |
| Scripts, tools, vendored model | — | — | outside the service |

How they interact:

```
 client ── POST /jobs, cancel, DELETE ──► api.py handlers ──► JobStore ◄── gc_expired
   ▲                                         │  submit            ▲  save / rmtree
   │ SSE                                     ▼                    │
 generator ◄── queue ── EventBroker ◄──── Worker ── execute_job ──┘
                                             │ engine.run_multi / run_single
                                             ▼
              local OCR engine + detector  |  SidecarEngine ── HTTP ──► services
 client ── POST /translate ──► registry + lock ──► translation thread ──► pool ──► API
```

* The worker is **one** thread; it takes jobs from a FIFO and runs them to the
  end. Handlers run on the event loop or on the thread pool of the server.
* `Job` objects are shared without a lock: handlers write `delete_requested`,
  the worker writes `status`, each reads what the other wrote.
* The cancel event of a job lives in a dict that three parties fill and empty.
* `meta.json` is replaced atomically (a temporary file and `replace`), but a
  directory is removed in several steps while others may write into it.
* With a sidecar, the pages of a chunk are requests of a thread pool. The
  generator takes them in page order; a failure or a cancel sets a stop event
  the siblings look at, and nobody waits for them. The service is not told.
* The health cache of the sidecar engine is written by `/api/health` and by the
  worker, from measurements made before the lock is taken.
* The translation registry is guarded by a lock, its files are not; the threads
  of a translation share one client and its latch.
* After a kill only the directories are left; `load_existing` turns whatever
  was queued or running into an error.

## What can go wrong

`PROJECT.json` lists the hazards with the line at which each bites and the
property that would notice. The hard ones:

* **Flag and status cross** (`api.py:786-796`, `runner.py:139`, `471`): DELETE
  writes the flag and reads the status, the worker writes the status and reads
  the flag. `NoLostDelete`, `EveryDeleteCompletes`.
* **Subscribe and status cross** (`api.py:320`, `runner.py:446`): the generator
  subscribes and reads the status, the worker writes the status and publishes.
  `NoSilentEnd`, `WatcherIsReleased`.
* **A late writer against a removal** (`runner.py:448`, `engine.py:124`): a
  save or `mkdir(parents=True)` brings a removed directory back.
  `FinalResultDurable`, `ImplementsService`, and two of the definitions
  [below](#where-code-and-documentation-disagree).
* **A stale reader** (`api.py:108-127`): a running state nobody works on is
  repaired by whoever reads it. `FinalStateStands`, `RunningIsAlive`.
* **Half-done work** (`runner.py:251-398`): every way of losing a chunk has its
  own cleanup and its own count. `PagesAligned`, `NoStaleFiles`.
* **A check and what it is for** (`runner.py:226-239`, `269-274`, `311-318`):
  between the look at the cancel event and the engine call it guards, progress
  is saved and directories are removed. `LateCallIsTheLast`.
* **Out-of-order completion with two stop flags** (`engine.py:385-449`).
  `DoneIsComplete`.
* **Siblings of a failed request** (`sidecar.py:360-401`): they go on after the
  pool is left, answer late, and are released by a signal that must not be
  taken for the user's. `PagesInOrder`, `CanceledMeansCancel`, `InferredOnce`.
* **A health that is not true any more** (`sidecar.py:132-165`): measured
  before the lock, stored after a newer one, or an exception half-way through
  the body. `FirstStartWaits`, `RunSettles` of `Sidecar`.
* **Four numberings of one figure** (`materializer.py:100`, `merge.py`,
  `layout.py`, the services): blocks and crops are dropped between them.
  `RefsResolve`, `LayoutShowsItsCrop`, `LiveShowsTheResult`.
* **Looking once per block** (`fast_decode.py:134-347`): the text is decoded
  past its end and cut, lives in a ring between two looks, and changes hands
  between three loops. `OutputIsGreedy`, `ModelSeesTheText`.
* **Text in pieces** (`repetition.py:146-314`): a page marker, a line or a row
  is cut anywhere, and each marker starts a new budget. `CutsDoNotMatter`,
  `LoopsAreCaught`, `GenerationIsBounded`.
* **A model that answers as it likes** (`masking.py:73`, `segment.py:108`,
  `client.py:70-115`): placeholders lost, doubled or rewritten, formulas of its
  own, rules that look like page separators, answers cut off. `TokensSurvive`,
  `PagesSurvive`, `TextIsNotLost`, `FallbackReachesChat`.

## The modules

| Module | Models | Lines that matter most |
|---|---|---|
| `JobService` | abstract: the job resource a client sees | — |
| `JobLifecycle` | upload, cancel, DELETE, worker, control skeleton of `execute_job`, collector, failing writes, restart | `jobs.py:134-391`, `api.py:234-288, 590-598, 782-800`, `runner.py:129-149, 423-480` |
| `JobLifecycleProps` | its properties, the inductive invariant, the refinement mapping to `JobService` | |
| `EventStream` | one channel of the broker, its SSE readers, everything the worker publishes | `jobs.py:272-305, 335-391`, `api.py:307-357` |
| `ChunkRunner` | the chunk loop with retry, recovery, text layer, placeholders, warnings, and what it hands to the merger | `runner.py:55-85, 166-446`, `merge.py:195-216` |
| `Sidecar` | a job on a sidecar engine: the service, its health and the cache of it, the wait for the model, the requests of a chunk, retries, cancel | `engine/sidecar.py:120-419`, `sidecar/client.py`, `services/*/app/main.py`, `model.py` |
| `PageContent` | one page from the answer of the service to the merged result: both parsers, sanitizing, crops, live text, renaming, layout blocks | `sidecar/protocol.py`, `materializer.py`, `merge.py`, `layout.py:parse_page_blocks`, `services/*/parser.py`, `adapter.py` |
| `Decoding` | one engine call: the decoding loop, its CUDA graph path with fallback, the n-gram filter, token budget and cancel | `fast_decode.py:100-347`, `native_ops.py:34-197`, `unlimited.py:208-240` |
| `Repetition` | the detector behind the streamer: pages, lines, rows, the rolling check, budgets | `repetition.py`, `unlimited.py` (the streamer) |
| `TranslationTasks` | registry, thread body, stale states, archive cache, deletion, collector, restart for one job and one language | `api.py:100-182, 551-587, 602-672`, `engine.py:124-213, 443-490` |
| `TranslatePool` | the thread pool, the ladder of calls of each unit, collecting and caching | `engine.py:255-449` |
| `TranslateCall` | the client shared by the threads, masking and restoring around a call, repair, halves, the cache of units, the assembly of pages | `translate/client.py`, `masking.py`, `types.py:140-150`, `segment.py:90-150`, `engine.py:244-362` |
| `*_proofs` | the TLAPS proofs (`TranslationTasks_proofs` has those of `TranslatePool`, too, and `ChunkRunner_proofs` those of `PageContent`) | |
| `MC*` | the instance TLC checks, one per module | |

`JobLifecycle` is the core. The others each look into one part of it:
`EventStream` into what its worker publishes, `ChunkRunner` into what the worker
does between `running` and `merge`, `Decoding` and `Repetition` into one call of
`ChunkRunner` with the local engine, `Sidecar` into its calls with a sidecar
engine, `PageContent` into what such a call and the merger make of a page.
`TranslatePool` looks into the `units` stage of `TranslationTasks`, and
`TranslateCall` into the calls of a unit. The modules meet in the names of
stages and the cancel event, which each of them lets a request set between any
two steps. Their product has not been checked: an instance with two of them is
beyond TLC, and the interfaces carry an outcome and no shared variable.

### Grain and correspondence

An action is one statement that reads or writes state somebody else sees, with
everything between two such statements in the same action. The exceptions are
stated at the head of each module:

* `JobStore.save` is one step. It writes a temporary file and replaces
  `meta.json`; a reader sees the old or the new file, and a missing directory
  is ignored. A save that fails otherwise is `WorkerSaveFails`.
* `shutil.rmtree(ignore_errors=True)` is two steps: everything found is
  unlinked, then the directory goes if nobody wrote into it in between. That
  `rmdir` and `JobStore.remove` are one step: no other actor distinguishes the
  state in between.
* An engine call or an API call is one step between the flag checks around it;
  in `Sidecar` and `TranslateCall`, which look into the call, it is one step for
  each request and each answer.
* `PageContent` and `Repetition` are sequential code. What is open in them is
  the input: every answer of a service, every text in every way of cutting it.
  Their operators are the functions of the code, one page or one delta a step.

| Code | Model |
|---|---|
| `JobStore._jobs` | `jobs` (a set; the `Job` objects' fields are functions on `Jobs`) |
| `Job.status`, `Job.delete_requested` | `status`, `deleteRequested`: in memory, they outlive `_jobs` because the worker keeps its reference |
| `cancel_events` | `cancelEvents`: absent, clear or set |
| `Worker._queue`, the local `job` of `Worker.run` | `queue`, `wjob` |
| where `Worker.run` and `execute_job` are | `wpc`, whose values are named for the next statement |
| a directory | `dir` (exists), `meta` (status in meta.json), `files` (anything else in it) |
| an HTTP request in progress | `upload`, `del`, `can`, per job; concurrent requests of the same kind for the same job are one |
| a kill and `create_app` | `Restart`: memory is reset, the disk is read back |
| a subscriber's `queue.Queue` | `queues`: positions in the log of events, so that which event was lost is visible |
| a page in `IncrementalMerger.pages_md` | in `ChunkRunner` a record with its page, its source (ocr, text, failed, blank) and the origin of its files; in `PageContent` its tokens |
| `SidecarEngine.loaded`, the probe in flight | `loaded`, `polling` (measured, not stored yet), `seen` (measured by the worker) |
| a future of `_iter_concurrent`, the request of `_cancellable_post`, the request in the service | `call[c]`, `srv[c]` for the call `c` = (page, attempt) |
| the `stop` event of an attempt | `stopped`, the calls whose event is set; `_AnyCancel` is `Signal` |
| a Markdown text | a sequence of tokens: text, `[[FIGURE:n]]`, a reference, a box of the live view |
| `input_ids`, the tokens of the prompt and the text | `seq` of `Decoding`; tokens that are in the ring only are counted by `position - base - drained` |
| the model's key/value cache | `fed`: the tokens fed so far, each with its position |
| the fields of `SemanticRepetitionDetector` | the record `d` |
| `translate_tasks[(job, lang)]` | `task`, the number of the run registered |
| `state.json`, `result.ko.md`, `archive.zip` | `state` and its `writer`, `ko` (whose text), `archive` (whose text is in it) |
| a future of the pool | `stage` and `outcome` of its unit in `TranslatePool` |
| `OpenAICompatClient._latched`, the locals of `complete` | `latched`, the record `call[u]` |
| a unit's text, masked text, cache entry | lines of one item each: a word, a formula, a placeholder (or a tag of the document that looks like one), a delimiter, a rule, a blank |
| `mapping` of `mask`, the text in `unmask` after each of its rounds | `Mapping`, the values of `Unmasked` |

Ghost variables record what no variable of the code remembers and a property
asks for: `abandoned` (cancelled while queued), `skipped` (a put that was given
up), `cutShort` (units a stop flag cut short), `calls` (paid calls after a 204),
`wants` (what the model favoured at each pass), `writer`, `unready` (an attempt
that found no model before any outage), `late` (an answer that came after the
cancel), `received` (text in the current call), `own` (how often the model wrote a formula
itself in the answers that were accepted), `apart` (the pages whose images have
different boxes). `late` of `ChunkRunner` counts the engine calls that begin after
the cancel. They never occur in a guard of a
step of the code.

## The runs

Each run asks one question. Bounds are CONSTANTS of the modules and are named in
the configurations; no constraint cuts the state space otherwise.

| Run | Distinct states | Shows | Bounds, and why they are enough |
|---|---|---|---|
| `JobLifecycle` | 327,204 | no deletion is lost; a cancelled queued job never runs; what settled is on disk; no orphan looks active; the whole refines `JobService`; jobs and deletions come to an end | Two jobs: one that clients cancel and delete at will, one that only has to get through behind it. One restart, one failing write, the collector on. Every property speaks about one job and the worker, so a third job adds waiting, not new interleavings; the proofs cover any number. |
| `EventStream` | 1,745,372 | `NoSilentEnd`, `LatestSurvives`, `WatcherIsReleased` | Two readers (the copy of the list against a list that changes), queues of two (full with tokens, full with others, emptied in between), two events before the last. |
| `Translation` | 410,980 | one thread at a time; `state.json` is right about who is alive, what is done, and final states stand; every thread leaves the registry | Two POSTs with and without force, one archive request, one restart, one DELETE, the collector: every pair of actors meets. |
| `ChunkRunner` | 335,653 | pages stay aligned, no file of a failed attempt, at most one late call after a cancel, the run settles | Five pages in chunks of two: two full chunks and a short one, and the per-page mode; every outcome of every call. The cap on warnings is three so that it is reached. |
| `TranslatePool` | 256,461 | complete when done, the run settles | Three units on two threads: one waits while two run; flush after every second. |
| `Decoding` | 36,926 | the fast loop writes and streams what plain greedy decoding writes; the model is fed the text in order; decoding ends | A vocabulary of three, blocks of two, trigrams in a window of six, a limit of nine tokens: one block on the side stream, a full and a short round of replays, a ring that is partly filled when it takes over and wraps around; a budget that is exceeded and one that is not. |
| `Sidecar` | 1,121,169 | a job waits for the first start; pages are in order and whole; only the user cancels; no call is inferred twice; the job ends whatever the service does | Two pages: one chunk of two requests side by side, or two chunks of one. One refused connection tried again, one outage, one slow poll: each meets the worker at every place. |
| `PageContent` | 912,977 | references, crops, layout blocks and the live view agree after all renamings | A chunk of two pages and one of a page (the second page of a chunk and the second chunk are where offsets matter), up to three blocks on the second page and two figures a page, so that the cap is exceeded (answers other than those of ovisocr2 have up to two, `MaxBlocks`; those of a third service consist of images and one text); every answer over two usable boxes, one too small and one outside, boxes that occur twice included. |
| `Repetition` | 1,063,762 | the detector finds what a look at the whole text finds; a line that repeats itself is cut off in time; the budget holds | Every text of up to seven symbols in every cutting: a marker too many, a page that is too long, repeated rows with empty lines between, a loop of units of one and two words; repetition thresholds of two. |
| `TranslateCall` | 2,545,544 | the API mode is found; received text is not lost; formulas survive; pages survive | Two units on two threads, one of two sentences with a formula each (inline and display) and, in front, a tag that looks like a placeholder, so that halves, repair, both threads' fallbacks and the tag's standing in occur; every answer of up to two lines, with words, rules, delimiters, placeholders and formulas of the model's own. The longer unit is accepted only in halves, and each half has room for a line more than it needs. |
| `JobLifecycle_isolation`, `TranslateCall_cache` | — | see [below](#where-code-and-documentation-disagree) | the smallest instance that shows it |

Deadlock is not checked: the system may come to rest (no more requests, every
job settled, all bounds used), and that it rests only in good states is what the
liveness properties say.

### Properties that are worth a second look

* `NoLostDelete` is the Dekker-like argument of `delete_job` and `execute_job`.
  Dropping the look at `delete_requested` in the `finally` clause, or setting
  the status after that look, breaks it.
* `SettledIsPersisted` and `ActiveHasAnOwner` hold only as long as no write
  failed (`ioErrors = 0`); with a failing write they do not hold, and no caller
  can do anything about that. The liveness properties name the death of the
  worker thread as their only escape; `JobsAreIsolated` is the one without it.
* `AbandonedNeverRuns` is about jobs that were in the queue when the cancel was
  accepted, and about this process: a restart empties the queue and forgets the
  cancel, and the job is then an error, as every job that was queued. A cancel answered 202 during the last chunk may still end in
  `done`: `RunPassLastCheck` is after the last look at the event.
* `NoSilentEnd`, `LatestSurvives` and `WatcherIsReleased` except a reader that
  empties its queue between the publisher's `get_nowait` and `put_nowait`
  (`skipped`); that reader is by then taking events faster than they come, and
  its next event is the next publish.
* `LateCallIsTheLast`: that no call begins after a cancel is not true, for the
  cancel may fall between the check and the call. The late call is the only one:
  its failure leads to another check before the retry, its success to the one
  before the next page or after the chunk, which also keeps the job from ending
  as done.
* `OutputIsGreedy` compares with `Reference`, which folds the definition of
  the filter over the whole text; the ring, the replays and the recovery after
  a failure occur in the loop only. It says where the text ends, too, except
  that the limit is a lower bound: the warm-up before the capture does not look
  at it (see below).
* `DoneMeansTranslated` has to hold across a kill in the middle of a forced
  re-translation, where the old text is still there and the new report is not.
* `FirstStartWaits` holds although the poller stores a measurement that is
  older than the worker's: `_check_ready` does not believe a cache that says
  "not loaded". After the first outage it is not claimed: a model that loads
  again costs attempts, and pages.
* `PagesInOrder` says that the pages of a chunk are all from one attempt, or
  all missing. That is what `result()` in page order gives; `as_completed`
  breaks it.
* `CutsDoNotMatter` compares with `Excessive`, which looks at the whole text.
  The token limit and the rolling check are excepted: they count calls of
  `feed`, and do depend on the deltas.
* `GenerationIsBounded` allows for two budgets on the first page and one block
  of tokens.
* `PagesSurvive` is about `assemble_markdown`: a unit that looks like a page
  separator with its neighbours would shift the pages, and the code then raises
  an error. The run shows that `_sanitize_unit` never lets it come to that.
* `FallbackReachesChat` is about threads that look at the latch, call, fail and
  latch in any order.
* `TokensSurvive` counts: a formula is in the translation as often as in the
  source and as the model wrote it itself (`own`). `unmask` counts placeholders
  only, so an answer with the placeholder of `$x$` and another `$x$`, or with
  that of an image and the image again, is accepted, and the translation has it
  twice; `tools/translate_eval.py:258` counts a doubled image as a failure. LaTeX
  delimiters of the model's own are taken off (`sanitize_translation`). The
  property speaks of formulas: a tag of the document that looks like a
  placeholder can be lost, which is `LossIsNoticed`
  [below](#where-code-and-documentation-disagree).
  That the formula is neither lost nor doubled when such a tag stands in for its
  placeholder is part of it. A formula, link or code with a text in it that looks
  like a placeholder (`$<m2>$`) could be damaged itself, and is left out by
  `PlaceholdersAreTags`.

## Fairness

Nothing is assumed of clients: no request is ever sent by fairness, and no
reader has to stay. What is assumed:

* `JobLifecycle`: weak fairness of the worker (`WorkerStep`) and of a DELETE
  handler that has begun. The worker thread is always runnable or in an engine
  call; engine calls end because local decoding stops at its length limit and
  sidecar calls at their read timeout, and the wait for a model ends at
  `sidecar_model_wait_s`. Progress (`RunProgress`) is not part of the fair step:
  it may repeat, and only the steps that leave a stage must come.
* `EventStream`: weak fairness of the publisher and of the generator's poll,
  which the event loop drives with a timeout of its own.
* `TranslationTasks`, `TranslatePool`: weak fairness of each thread, since every
  API call has a timeout; `ThreadUnit`, which may repeat, is not in it.
* `ChunkRunner`: weak fairness of the loop, not of the streaming of tokens.
* `Decoding`: weak fairness of the loop; a graph that fails and a cancel are
  never forced, and the model is never forced to end its text.
* `Sidecar`: weak fairness of the worker, of each call of the client (a call
  ends at its read timeout at the latest) and of the deadline of the wait, which
  is a clock. Nothing is assumed of the service, the poller and the user:
  `RunSettles` holds when the service never starts and never answers.
* `PageContent`, `Repetition` and `TranslateCall` state safety only.

## Proofs

Eight modules hold the proofs of ten modules of the model. Each assumes what the named
`ASSUME`s of the component's module say of the constants, and nothing else; TLC
evaluates these in the runs.

| Module | Theorem | Property, for all values of the constants |
|---|---|---|
| `JobLifecycle_proofs` | `TypeCorrect` | `[]TypeOK` |
| | `DeleteIsNotLost` | `[]NoLostDelete` |
| | `FinalStatusIsDurable` | `FinalResultDurable` |
| | `CanceledInQueueNeverRuns` | `[]AbandonedNeverRuns` |
| | `SettledIsOnDisk` | `[]SettledIsPersisted` |
| | `ActiveIsWorkedOn` | `[]ActiveHasAnOwner` |
| | `ServiceIsImplemented` | `ImplementsService`, the refinement of `JobService` |
| `EventStream_proofs` | `EndIsNeverMissed` | `[]NoSilentEnd` |
| | `NewestIsNeverDropped` | `[]LatestSurvives` |
| `ChunkRunner_proofs` | `ResultIsAligned` | `[]PagesAligned` |
| | `FailedFilesAreGone` | `[]NoStaleFiles` |
| | `CancelStopsCalls` | `[]LateCallIsTheLast` |
| | `ReferencesResolve` | `[]RefsResolve` of `PageContent` |
| | `LayoutIsShown` | `[]LayoutShowsItsCrop` of `PageContent` |
| | `LiveIsShown` | `[]LiveShowsTheResult` of `PageContent` |
| `Sidecar_proofs` | `ModelIsThere` | `[]FirstStartWaits` |
| | `OnlyTheUserCancels` | `[]CanceledMeansCancel` |
| | `NothingIsSentTwice` | `InferredOnce` |
| | `ChunksAreWhole` | `[]PagesInOrder` |
| `Decoding_proofs` | `FastIsGreedy` | `[]OutputIsGreedy` |
| | `ModelIsFedTheText` | `[]ModelSeesTheText` |
| `Repetition_proofs` | `GenerationStops` | `[]GenerationIsBounded` |
| | `LoopsAreCutOff` | `[]LoopsAreCaught` |
| | `CutsAreHarmless` | `[]CutsDoNotMatter` |
| `TranslationTasks_proofs` | `RegistryNamesTheThread` | `[]RegistryIsExact` |
| | `RunningHasItsThread` | `[]RunningIsAlive` |
| | `DoneVouches` | `[]DoneMeansTranslated` |
| | `FinalStateIsKept` | `FinalStateStands` |
| | `DoneHasEveryUnit` | `[]DoneIsComplete` of `TranslatePool` |
| `TranslateCall_proofs` | `ChatIsReached` | `[]FallbackReachesChat` |
| | `ReceivedTextIsReturned` | `[]TextIsNotLost` |
| | `TokensAreKept` | `[]TokensSurvive` |
| | `PagesAreKept` | `[]PagesSurvive` |

None of these properties is inductive. What each proof adds, and why:

* **Deletion.** That a DELETE finds the job not running and removes it, or finds
  it running and the worker will look, needs to know *which* job can be running:
  `RunningIsHeld` (a running job is the worker's, and inside the `try`). That
  needs `StageStatus` (what the worker's stage says of the status), which needs
  that a job reaches the worker queued, hence `SubmittedOnce` (it is in the
  queue at most once, after its upload, and not while the worker has it).
  `WorkerHolds` says the worker has a job exactly in the stages that have one,
  `UnknownBeforeCreation` keeps flags and directories of identifiers that do not
  exist yet out of the way. `MetaAgrees` is there for `FinalResultDurable`: a
  final status on disk is the one in memory, so a late save cannot change it.
  Together they are `IInv`; `DurableStep` then shows for each action that it
  leaves a final status on disk alone or removes it.
* **Guarantees.** On top of `IInv`: `RemovalIsDue` (whoever is asked to remove a
  job will come to it), `DirectoryStays` (the directory of a job that is not
  being removed is there, so a save is not ignored), `SavedBeforeLeaving` (the
  worker has written the status it is about to leave), `AbandonedIsSeen` (the
  cancel of a queued job is still to be seen by the worker). With them each step
  maps to a step of `JobService` or to none, which is `ServiceIsImplemented`.
* **Streams.** `NewestReaches` follows the newest event that is not a token
  through the put in progress, queue by queue; `ListIsRight` says the list holds
  the open responses, each once, and `LiveIsBefore` that a live reader began to
  listen before an end it has not been sent.
* **Chunks.** For `LateCallIsTheLast`, a job with a late call is, from that call
  to its end, where nothing but a check of the event that is set comes before the
  next call. `PlaceIsRight` relates the place of the loop to the number of pages
  merged, `FilesArePlaced` the directory of the call at hand to the attempt that
  filled it.
* **Content.** `Admitted` is every page the schema admits, with any number of
  blocks, and every answer of the model is one; `Sane` is what `sanitize_page`
  makes of it: images have a usable box, and a figure number belongs to one of
  them. For a sane page, cut off after any block, the Markdown refers to exactly
  the crops (`CropsAreReferenced`), and the layout, which counts the images it
  shows, arrives at the numbers that were counted as crops were saved
  (`RanksAgree`, `RawPageIs`). `ChunkResolves` and `ChunkShowsItsCrops` say this
  of a chunk with its own numbers; `PagesCounted` and `FilesAreOfPages` that the
  pages moved by a merge come behind all that are there, so that no file takes
  the name of another. Sequences sorted or filtered are enumerations by rank
  (`SortedIs`): each member once, in order. For the live view, `CropsAreNamed`
  says that no two whole crops have one name, so that a name has a box, and
  `ChunkBeginsAsShown` and `ResultBeginsAsShown` that a page begins with what was
  shown of it: both texts come from the same Markdown by replacing placeholders,
  and keeping the figures whose crop was saved is the same before and after
  (`PageBeginsAsShown`). A merge changes names and keeps boxes (`BeginsMove`).
* **Sidecar.** `LoadedIsTrue` says what the cache, the slow poller and the worker
  know of the model is true until the first outage; `ComingIsNew` that the calls
  to come are untouched by the stop events of those given up; `UnsentIsUnknown`
  that the service does not know what was not sent. For the pages:
  `ChunkIsAligned` says where a chunk begins, `PartsInOrder` that the pages taken
  of it are its first ones, all of this attempt, and `MergedIsWhole` that what is
  merged is in order and has of each chunk all pages or none.
* **Decoding.** `RecordInv` says what the fast loop has written so far, in the
  sequence and in the ring, is the reference; `RingInv` that the ring holds the end
  of the text; `PaceInv` how many tokens there are that the host has not seen.
  `Reference` is chosen by a recursive equation: `Defined` says that one function
  satisfies it and no other, and is an invariant that each pass of the model
  extends by one place. The vocabulary has any size (`VocabSize`) and its end of
  text any place in it (`EndOfText`). The streamer has, at each look of the host,
  what the sequence had at that look; when decoding ends nothing is unread.
* **Repetition.** `InBudget` lets each marker pay for the page before it: with `m`
  markers counted, no more than `m` budgets and the tokens of this page are used
  up, and the detector trips before there are too many markers. `LineIsChecked`
  says that what there was of the line at the last look does not repeat itself;
  a loop can then be no longer than the check asks for, what came since, and one
  unit (`LoopIsShort`). The detector consumes a delta by two nested iterations;
  `StepByStep` (an iteration keeps what each step keeps) is shown by the first
  step at which it would not, so that no induction theorem is needed.
  `CutsAreHarmless` relates the few fields the detector keeps to the whole text.
  Its invariant is `CutInv` (`DetectorKnowsTheText`): of the text without a held
  half of a marker, the detector knows the number of pages, the length of the last
  page, its last line and the run of rows before it (`Corr`, `Sums`), and nothing
  of it is excessive; or it has stopped, and something is. `CutsDoNotMatter` alone
  is not inductive: it says nothing of what must be remembered until the next
  delta. That a delta keeps `CutInv` rests on how the pieces of a text and of its
  continuation join (`CutJoin`): the places of a separator in both are those of the first,
  and those of the second moved on, if none lies across the cut. A line break
  cannot (`LinesJoin`); a marker could, and is what `Held` is for (`PagesJoin`,
  `GivenGoesOn`).
* **Translations.** `AdjustsAlone` (a reader repairs a state only while no thread
  is registered) and `NothingRuns` hang together with `RegistryIsExact`: neither
  is invariant without the other; `TextIsOurs` carries `DoneMeansTranslated`
  across a kill.
* **Pool.** `CollectedIsTaken` (a future is taken once, with its result) and
  `CutShortIsCanceled` (a unit cut short has the outcome `canceled`, and that
  excludes done).
* **Client.** `LatchIsRight` (a mode that is latched, or asked without a way
  back, is one the server has) and `TextIsKept` (a text that was received is
  held by the call, or was returned).
* **Translated text.** `TokensKept` says that a unit that is translated, or the half
  of one, has each formula of its source as often as the source and the model
  (`own`) together; `TextsSolid` that no text that is written or cached is blank,
  which would let its neighbours meet. `unmask` is a recursive function, one
  placeholder a step: as long as each is found once when its turn comes, a step
  adds the token it restores and takes nothing but a placeholder away
  (`UnmaskedCounts`), also when what it takes is a tag restored before. Of the
  steps together the tokens of the source are put in, each once, because masking
  numbers them by their rank and ranks are injective (`MappingHasTheTokens`). The
  lemmas about such functions, and about `FlattenSeq`, follow the definition up
  to the first place where they would fail. Two assumptions are used: what looks
  like a placeholder is a tag, so that no formula has the like in it
  (`PlaceholdersAreTags`), and a unit is not blank, has no separator line, and no
  more tokens than there are placeholders (`SourcesAreUnits`; `segment.py` cuts at
  separators and skips blank units, `masking.py` numbers tokens without a bound).

Every invariant also holds in the instance of its run, by TLC (with `\in Nat` cut
to a range in `EventStream_proofs`, and without the type of `PageContent`).

With these, every safety invariant and action property that a run checks is a
theorem, and so is the refinement. Only model-checked is liveness, with the
fairness it needs: `EveryJobSettles`, `EveryDeleteCompletes`,
`WatcherIsReleased`, `EveryRunLeaves`, `DecodeEnds`, and `RunSettles` of
`ChunkRunner`, `TranslatePool` and `Sidecar`. It is out of this prover's reach,
as is `ENABLED`.

## Where code and documentation disagree

Two runs end in a counterexample; `PROJECT.json` quotes the lines.

| Run | What happens |
|---|---|
| `JobLifecycle_isolation` | "isolation per job" (`runner.py:464`): a save that fails in an except branch ends the only worker thread, and later jobs wait for ever |
| `TranslateCall_cache` | the cache key is computed from the masked text, which shows twelve characters of a token, and the cache holds the restored text: two units that differ only behind these characters share an entry, and the second shows the formula or link of the first |

Seven more statements of the documentation are definitions at the end of their
modules and have no run of their own. Put under `INVARIANT` (or `PROPERTY`, for
`GCSparesTranslations`) in the configuration of the module's run, TLC finds each
of them violated:

| Definition | Statement | What happens |
|---|---|---|
| `SettledIsAnnounced` (`EventStream`) | `ARCHITECTURE.md:234`: a cancelled job sends an `error` event | a job cancelled while queued settles without a publish (`jobs.py:351-358`); a reader that was there waits on pings |
| `PaidCallsStop` (`TranslationTasks`) | `ARCHITECTURE.md:267`: no paid call goes on for a deleted job | a translation looked up before a DELETE and registered after it goes on; the glossary call does not look at the cancel event (`engine.py:212`) |
| `GCSparesTranslations` (`TranslationTasks`) | `ARCHITECTURE.md:565`: a job whose translation runs is never deleted | the collector asks under the lock and deletes without it (`jobs.py:227-231`) |
| `ArchiveHasTranslation` (`TranslationTasks`) | `ARCHITECTURE.md:496`: a finished translation is in the archive | an archive packed before the translation ended replaces the cache after it was invalidated (`api.py:556-581`) |
| `CompletedIsCached` (`TranslatePool`) | `engine.py:439`: completed units are cached "also when an error propagates" | units that completed but were not collected when another raised are not |
| `LateIsNotMerged` (`Sidecar`) | `OCR_ENGINE_PROTOCOL.md:116`: a result that arrives after the cancel is never merged | the cancel is looked at only while the answer is not there (`client.py:255`), and the last page of a chunk is merged without another look |
| `LossIsNoticed` (`TranslateCall`) | `masking.py:5`: a token that is lost is reported, and the unit keeps its original | `unmask` looks again at what it has restored (`masking.py:82-90`): a tag `<m2>` of the document counts as the placeholder of the formula behind it, which the model lost; the formula takes the tag's place and the tag is gone |

Seen while reading and modelled, without a property: the queue position shown is
in order of creation, the queue is in order of submission; `cancel_job` can leave
an event in `cancel_events` for good; the save after a failed model load is not
followed by a look at `delete_requested`, so that one that falls between the two
halves of a DELETE's `rmtree` leaves the directory with a `meta.json`, and the
job is back after a restart; a chunk start can move the shown page backwards; an
upload whose write fails stays in the list as queued; the notice about omitted
warnings depends on meeting the cap exactly, and other warnings can step over
it (`runner.py:406`); the warm-up before the capture of a CUDA graph decodes a
block without a look at `max_length` (`fast_decode.py:292`), so that a text can
end some tokens beyond it; the body of a health answer is read outside the `try`
(`client.py:144`), so that a service that dies in the middle raises the
transport's exception and the wait for the model ends in an error.

Seen while reading and not modelled: `_sanitize_unit` turns a line of dashes inside a
unit into another character also for a unit that is kept in the original, while
`segment.py:7-10` promises byte identity; with a `PAGE_SEPARATOR` that is not made
of dashes a translation may form one with its surroundings, and the assembly
raises; a `\r\n` cut between two deltas counts one character more in the
repetition detector; when a call is given up `_reset_session` closes the session
its siblings share.

## What is not modelled

* **Pixels and documents.** PDF parsing, rendering, fonts, HTML, cropping and
  prompts: sequential functions of their input, tested by example. Rendering
  before OCR is one repeatable step of the worker (`RunProgress`): it writes
  pages and progress and looks at the cancel event.
* **Recognition by regular expressions**: which parts of a Markdown text are
  tokens, blocks, references or a heading. `TranslateCall` starts from lines of
  known kinds, `PageContent` from a page of known pieces.
* In `PageContent`: caps on lengths, `strip_special_tokens` and
  `clean_truncated_repeats`. In `Repetition`: the channel of counters
  (`_counter_loop`), layout tags, and lines longer than the rolling buffer.
* In `Sidecar`: the warnings an engine collects for the runner, size caps and
  sessions, and the service's memory ladder except for its outcomes. The
  component is `partly` for that reason.
* In `TranslateCall`: reference lists and `should_skip`, the copy of the
  translation in `layout.json`, the glossary; tables and the stop flags are in
  `TranslatePool`.
* **GET handlers** that only read (`list_jobs`, results, images), except those
  that write: archive and translation state.
* **`/translate/events`**: the protocol of `/events` with `state.json` in the
  place of the status.
* **Clocks.** Which job is old enough for the collector is left open; timeouts
  are nondeterministic failures.
* In `Decoding`: the numbers. The model's choice at each pass is open, a
  kernel either runs or raises, and page markers, which reset the token budget,
  do not occur. After a failure the ring is always read: the code goes on without
  its tokens when reading it fails, too (`fast_decode.py:324-330`), and the text
  then has a gap.
* **Settings** are the CONSTANTS of the modules. The frontend runs in the
  browser and relies on what `EventStream` shows of the server. The vendored
  model, the scripts and the evaluation tool are outside the service.

## What is left

1. The warnings an engine collects: those of siblings that are stopped late, and
   the cap the runner puts on them, composed with `ChunkRunner`.
2. The frontend's stream client (reconnect, snapshot, polling) composed with
   `EventStream`.
3. The numbers of the layout view: `layout.json` of a translation against the
   units of `TranslateCall`.

## Running it

```
for m in JobLifecycle EventStream ChunkRunner TranslatePool Decoding \
         Sidecar PageContent Repetition TranslateCall; do
  tlc -workers 2 -config $m.cfg MC$m.tla
done
tlc -workers 2 -config Translation.cfg MCTranslationTasks.tla
tlc -workers 2 -config JobLifecycle_isolation.cfg MCJobLifecycle.tla
tlc -workers 2 -config TranslateCall_cache.cfg MCTranslateCall.tla
for m in *_proofs.tla; do tlapm $m; done
```

Each run takes two minutes or so, the proofs together about ten.

Definitions whose name has an underscore after the name of another
(`RunFinally_NoLook`) are mutants: the code with a plausible mistake. Each
property is violated when the mutant listed for it in `PROJECT.json` takes the
place of the original.
