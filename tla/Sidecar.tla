------------------------------- MODULE Sidecar -------------------------------
(***************************************************************************)
(* A job on a sidecar engine: SidecarEngine (engine/sidecar.py), its HTTP  *)
(* client (sidecar/client.py) and the service that owns the GPU            *)
(* (services/paddleocr_vl, services/ovisocr2: main.py, model.py).          *)
(*                                                                         *)
(* The worker thread waits for the model, then takes the chunks of the     *)
(* job, each at most twice; the pages of a chunk are posted one by one or  *)
(* side by side and consumed in page order.  A health poller shares the    *)
(* engine's cache.  The service loads in the background, runs one          *)
(* inference at a time, lowers the resolution once when the GPU is out of  *)
(* memory, and may go down and come back.  A cancelled or timed out        *)
(* request is given up by the client only: the service goes on with it.    *)
(*                                                                         *)
(* What a page contains is modelled in PageContent, the merging of chunks  *)
(* in ChunkRunner; here a page is its number.                              *)
(***************************************************************************)
EXTENDS Naturals, Sequences, FiniteSetsExt

CONSTANTS Pages,       \* pages of the job
          Concurrencies, \* the values of settings.remote_page_concurrency, the chunk size, too
          Retries,     \* settings.sidecar_retries
          MaxOutages,  \* bound: crashes of the service, health requests it fails to answer
          MaxPolls     \* bound: polls of /api/health that reach the service

ASSUME SidecarAssumption ==
  /\ {Pages} \cup Concurrencies \subseteq Nat \ {0}
  /\ {Retries, MaxOutages, MaxPolls} \subseteq Nat

Call == (1..Pages) \X (1..2)   \* a call of parse_page: the page, the attempt at its chunk

VARIABLES
  concurrency, \* of this backend, fixed
  prov,       \* the service: "down", "loading", "loaded", "failed", or "foreign" (another engine)
  outages,
  loaded,     \* SidecarEngine.loaded: the last stored probe found the model loaded
  polling,    \* what the poller measured and has not stored yet, or "none"
  polls,
  cancel,     \* the job's cancel event
  pc, seen,   \* the worker; the health it measured
  expired,    \* the deadline of wait_until_ready has passed
  first,      \* first page of the chunk
  attempt, next,
  parts,      \* calls whose page the attempt has taken, in order
  merged,     \* calls whose page is in the result, in order
  call,       \* client side of each call
  tries,      \* connections refused so far
  srv,        \* service side of each call
  stopped,    \* calls whose stop event is set
  unready,    \* an attempt has found the service missing or not loaded before any outage
  late        \* the answer came when the job was cancelled

provVars == <<prov, outages>>
healthVars == <<loaded, polling, polls>>
callVars == <<call, tries, srv, late>>
posVars == <<first, attempt, next>>
pageVars == <<parts, merged>>
jobVars == <<pc, seen, expired, posVars, pageVars, stopped, unready>>
vars == <<concurrency, provVars, healthVars, cancel, jobVars, callVars>>

Last == Min({first + concurrency - 1, Pages})
Chunk == first..Last
Here == {<<p, attempt>> : p \in Chunk}   \* the calls of the attempt
Concurrent == first < Last
Signal(c) == cancel \/ c \in stopped   \* _AnyCancel.is_set
Answers == {"page", "failed", "refused", "lost"}
Up == prov # "down"

-----------------------------------------------------------------------------
\* The service.  A crash loses the requests it holds; the model is loaded by a
\* thread of its own, and a failed load is reported by health for good.

Start == /\ prov = "down" /\ prov' = "loading"
         /\ UNCHANGED <<outages, healthVars, cancel, jobVars, callVars>>

Loads == {"loaded", "failed"}
LoadModel == /\ prov = "loading" /\ prov' \in Loads
             /\ UNCHANGED <<outages, healthVars, cancel, jobVars, callVars>>

Outage == outages < MaxOutages /\ outages' = outages + 1

Lost == [c \in Call |-> IF call[c] = "await" THEN "lost" ELSE srv[c]]

Crash == /\ prov \in {"loading", "loaded", "failed"} /\ Outage /\ prov' = "down"
         /\ srv' = Lost
         /\ UNCHANGED <<healthVars, cancel, jobVars, call, tries, late>>

\* The handler of /v1/parse: a 503 while there is no model, ...
Arrive(c) == srv' = [srv EXCEPT ![c] = IF prov = "loaded" THEN "queued" ELSE "refused"]

\* ... and when the GPU is free (the owner thread, _infer_lock) a page, at the second try
\* with a lower resolution if the first is out of memory, or an error: a file or options
\* that are not valid, too little memory again, a failed inference.  What nobody reads is
\* not followed further.
Inferences == {"page", "failed"}
Infer(c) ==
  /\ srv[c] = "queued"
  /\ \E r \in Inferences : srv' = [srv EXCEPT ![c] = r]
  /\ UNCHANGED <<provVars, healthVars, cancel, jobVars, call, tries, late>>

Service == \/ Start \/ LoadModel \/ Crash
           \/ \E c \in Call : Infer(c)

-----------------------------------------------------------------------------
\* A health request: what the service is, unless it gives no answer in time
\* ("unreachable") or goes down in the middle of the body ("torn": the exception of
\* the transport, which health() does not translate).

Health == IF Up THEN prov ELSE "unreachable"
Measure(h) ==
  \/ h = Health /\ UNCHANGED <<provVars, srv>>
  \/ h = "unreachable" /\ Up /\ Outage /\ UNCHANGED <<prov, srv>>
  \/ /\ h = "torn" /\ prov \in {"loading", "loaded", "failed"} /\ Outage /\ prov' = "down"
     /\ srv' = Lost

\* _probe_health, with a cache that is empty or has expired: measures outside the lock
\* and stores success and failure alike.  A hit in the cache changes nothing.
PollMeasure ==
  /\ polls < MaxPolls /\ polling = "none"
  /\ polls' = polls + 1
  /\ \E h \in {prov, "unreachable", "torn"} :
       Measure(h) /\ polling' = IF h = "torn" THEN "none" ELSE IF h = "loaded" THEN h ELSE "unready"
  /\ UNCHANGED <<loaded, cancel, jobVars, call, tries, late>>

PollStore ==
  /\ polling # "none" /\ polling' = "none"
  /\ loaded' = (polling = "loaded")
  /\ UNCHANGED <<provVars, polls, cancel, jobVars, callVars>>

Poller == PollMeasure \/ PollStore

-----------------------------------------------------------------------------
\* The client.  parse_page looks at the cancel signal before each connection.

Keep == UNCHANGED <<provVars, healthVars, cancel, jobVars>>
Over == {"ok", "error", "not ready", "unavailable"}

\* The outcome of a call is lost when its attempt is over.
Ends(c, how) == call' = [call EXCEPT ![c] = IF how \in Over /\ c \in stopped THEN "canceled" ELSE how]

\* is_pre_send_failure
PreSend_Any(cause) == TRUE
PreSend(cause) == cause = "refused"

\* except RequestException: only what never reached the service is tried again.
TransportFails(c, cause) ==
  IF PreSend(cause) /\ tries[c] < Retries
  THEN Ends(c, "connect") /\ tries' = [tries EXCEPT ![c] = @ + 1]
  ELSE Ends(c, IF cause = "timeout" THEN "error" ELSE "unavailable") /\ tries' = [tries EXCEPT ![c] = 0]

Post(c) ==
  /\ call[c] = "connect"
  /\ \/ Signal(c) /\ Ends(c, "canceled") /\ UNCHANGED <<tries, srv>>
     \/ ~Signal(c) /\ ~Up /\ TransportFails(c, "refused") /\ UNCHANGED srv
     \/ /\ ~Signal(c) /\ Up /\ Ends(c, "await") /\ tries' = [tries EXCEPT ![c] = 0]
        /\ Arrive(c)
  /\ Keep /\ UNCHANGED late

\* The helper thread has the answer: done is set.
Answer(c) ==
  /\ call[c] = "await" /\ srv[c] \in Answers
  /\ Ends(c, "got") /\ late' = [late EXCEPT ![c] = cancel]
  /\ Keep /\ UNCHANGED <<tries, srv>>

\* The service is not told: it goes on with the request.
Abandon(c) == srv' = [srv EXCEPT ![c] = "abandoned"]

ReadTimeout(c) ==
  /\ call[c] = "await" /\ TransportFails(c, "timeout") /\ Abandon(c)
  /\ Keep /\ UNCHANGED late

\* _cancellable_post: the signal is looked at only while done is not set.
GiveUp(c) ==
  /\ call[c] = "await" /\ Signal(c) /\ Ends(c, "canceled") /\ Abandon(c)
  /\ Keep /\ UNCHANGED <<tries, late>>

Return(c) ==
  /\ call[c] = "got"
  /\ CASE srv[c] = "page" -> Ends(c, "ok") /\ UNCHANGED tries
       [] srv[c] = "lost" -> TransportFails(c, "broken")
       [] OTHER -> Ends(c, IF srv[c] = "refused" THEN "not ready" ELSE "error") /\ UNCHANGED tries
  /\ srv' = [srv EXCEPT ![c] = IF @ = "lost" THEN "abandoned" ELSE "none"]
  /\ Keep /\ UNCHANGED late

Client(c) == Post(c) \/ Answer(c) \/ ReadTimeout(c) \/ GiveUp(c) \/ Return(c)

-----------------------------------------------------------------------------
\* The worker.

To(p) == pc' = p
Settle(how) == To(how) /\ UNCHANGED <<seen, expired, posVars, parts, merged>>
Rest == UNCHANGED <<cancel, callVars>>

\* _commit_health: a health answer is stored, no answer is not.
Commit(h) == IF h \in {"loading", "loaded", "failed"}
             THEN loaded' = (h = "loaded") /\ UNCHANGED <<polling, polls>>
             ELSE UNCHANGED healthVars

\* _check_ready asks the service and then classifies what it got.
Ask(from, to) ==
  /\ pc = from /\ To(to)
  /\ \E h \in {prov, "unreachable", "torn"} : Measure(h) /\ seen' = h
  /\ UNCHANGED <<healthVars, cancel, expired, posVars, pageVars, stopped, unready,
                 call, tries, late>>
Transient == seen \in {"unreachable", "loading"}   \* SidecarNotReadyError

\* Worker.run and wait_until_ready: nothing to wait for when the cache says loaded.
Dequeue ==
  /\ pc = "queued"
  /\ IF loaded THEN To("chunk") ELSE To("wait")
  /\ UNCHANGED <<provVars, healthVars, seen, expired, posVars, pageVars, stopped, unready>> /\ Rest

WaitCanceled ==
  /\ pc = "wait" /\ cancel /\ Settle("canceled")
  /\ UNCHANGED <<provVars, healthVars, stopped, unready>> /\ Rest

WaitAsk == ~cancel /\ Ask("wait", "waited")

\* (as WaitAnswer without a deadline would be)
WaitAnswer_Endless ==
  /\ pc = "waited" /\ Commit(seen)
  /\ IF seen = "loaded" THEN To("chunk") ELSE IF Transient THEN To("wait") ELSE To("error")
  /\ seen' = "none" /\ expired' = (expired /\ pc' = "wait")
  /\ UNCHANGED <<provVars, posVars, pageVars, stopped, unready>> /\ Rest

WaitAnswer ==
  /\ pc = "waited" /\ Commit(seen)
  /\ IF seen = "loaded" THEN To("chunk")
     ELSE IF Transient /\ ~expired THEN To("wait")
     ELSE To("error")
  /\ seen' = "none" /\ expired' = (expired /\ pc' = "wait")
  /\ UNCHANGED <<provVars, posVars, pageVars, stopped, unready>> /\ Rest

Deadline ==
  /\ pc \in {"wait", "waited"} /\ ~expired /\ expired' = TRUE
  /\ UNCHANGED <<provVars, healthVars, pc, seen, posVars, pageVars, stopped, unready>> /\ Rest

\* The chunk loop of execute_job.
ChunkHead ==
  /\ pc = "chunk"
  /\ IF cancel THEN Settle("canceled")
     ELSE IF first > Pages THEN Settle("done")
     ELSE /\ To("load") /\ attempt' = 1
          /\ UNCHANGED <<seen, expired, first, next, parts, merged>>
  /\ UNCHANGED <<provVars, healthVars, stopped, unready>> /\ Rest

\* _run_pages begins: load() asks only when the cache does not say loaded.  Side by
\* side all pages are submitted at once, one by one each when it is its turn.
Begin ==
  /\ To("page") /\ next' = first /\ seen' = "none"
  /\ call' = [c \in Call |-> IF Concurrent /\ c \in Here THEN "connect" ELSE call[c]]
  /\ UNCHANGED <<cancel, expired, first, attempt, pageVars, stopped, unready,
                 tries, srv, late>>

LoadCached == /\ pc = "load" /\ loaded /\ Begin /\ UNCHANGED <<provVars, healthVars>>

\* (as LoadAsk would be if load() believed the cache when it says not loaded)
LoadAsk_Cached == /\ pc = "load" /\ ~loaded /\ To("loading") /\ seen' = "loading"
                  /\ UNCHANGED <<provVars, srv>>
                  /\ UNCHANGED <<healthVars, cancel, expired, posVars, pageVars, stopped,
                                 unready, call, tries, late>>
LoadAsk == ~loaded /\ Ask("load", "loading")

\* The generator's finally clause: stop is set, nobody looks at the futures any more.
\* (with one stop event for the engine: Drop_Shared)
Drop_Shared == stopped' = Call /\ UNCHANGED call
Drop == /\ stopped' = IF Concurrent THEN stopped \cup Here ELSE stopped
        /\ call' = [c \in Call |-> IF c \in Here /\ call[c] \in Over THEN "canceled" ELSE call[c]]

\* An attempt raises: the pool is shut down, and the runner tries once more or puts
\* placeholders, unless the job is cancelled.
Fails(why) ==
  /\ unready' = (unready \/ (outages = 0 /\ why \in {"not ready", "unavailable"}))
  /\ Drop
  /\ IF cancel THEN To("canceled") /\ UNCHANGED <<first, attempt>>
     ELSE IF attempt = 1 THEN To("load") /\ attempt' = 2 /\ UNCHANGED first
     ELSE To("chunk") /\ first' = Last + 1 /\ UNCHANGED attempt
  /\ parts' = <<>> /\ seen' = "none"
  /\ UNCHANGED <<expired, next, merged>>

LoadAnswer ==
  /\ pc = "loading" /\ Commit(seen) /\ UNCHANGED provVars
  /\ IF seen = "loaded" THEN Begin
     ELSE Fails(IF Transient THEN "not ready" ELSE "hard") /\ UNCHANGED <<cancel, tries, srv, late>>

\* The head of _iter_serial and _iter_concurrent: a cancel check, then the wait for the
\* next page.
NextPage ==
  /\ pc = "page" /\ next <= Last
  /\ IF cancel THEN Settle("canceled") /\ Drop
     ELSE /\ To("result") /\ UNCHANGED <<seen, expired, posVars, pageVars, stopped>>
          /\ IF Concurrent THEN UNCHANGED call ELSE Ends(<<next, attempt>>, "connect")
  /\ UNCHANGED <<provVars, healthVars, cancel, unready, tries, srv, late>>

\* fut.result() of the page whose turn it is.
Awaited_First == {c \in Here : c \notin {parts[i] : i \in DOMAIN parts}}  \* as_completed
Awaited == {<<next, attempt>>}

TakePage(c) ==
  /\ pc = "result" /\ c \in Awaited /\ call[c] = "ok"
  /\ parts' = Append(parts, c) /\ next' = next + 1 /\ To("page")
  /\ UNCHANGED <<provVars, healthVars, seen, expired, first, attempt, merged, stopped, unready>> /\ Rest

PageRaises(c) ==
  /\ pc = "result" /\ c \in Awaited
  /\ call[c] \in {"not ready", "unavailable", "error", "canceled"}
  /\ IF call[c] = "canceled" THEN Settle("canceled") /\ Drop /\ UNCHANGED unready
     ELSE Fails(call[c])
  /\ UNCHANGED <<provVars, healthVars, cancel, tries, srv, late>>

\* All pages are there: the runner hands them to the merger and goes on, without a
\* look at the cancel event.
EndChunk ==
  /\ pc = "page" /\ next > Last
  /\ merged' = merged \o parts /\ parts' = <<>> /\ first' = Last + 1 /\ To("chunk")
  /\ UNCHANGED <<provVars, healthVars, seen, expired, attempt, next,
                 stopped, unready>> /\ Rest

Worker ==
  \/ Dequeue \/ WaitCanceled \/ WaitAsk \/ WaitAnswer
  \/ ChunkHead \/ LoadCached \/ LoadAsk \/ LoadAnswer \/ NextPage \/ EndChunk
  \/ \E c \in Call : TakePage(c) \/ PageRaises(c)

Settled == pc \in {"done", "error", "canceled"}

CancelJob == /\ ~cancel /\ ~Settled /\ cancel' = TRUE
             /\ UNCHANGED <<provVars, healthVars, jobVars, callVars>>

-----------------------------------------------------------------------------
Init ==
  /\ concurrency \in Concurrencies
  /\ prov \in {"down", "loading", "foreign"} /\ outages = 0
  /\ loaded = FALSE /\ polling = "none" /\ polls = 0
  /\ cancel = FALSE
  /\ pc = "queued" /\ seen = "none" /\ expired = FALSE
  /\ first = 1 /\ attempt = 1 /\ next = 1
  /\ parts = <<>> /\ merged = <<>>
  /\ stopped = {} /\ unready = FALSE
  /\ call = [c \in Call |-> "none"] /\ tries = [c \in Call |-> 0]
  /\ srv = [c \in Call |-> "none"]
  /\ late = [c \in Call |-> FALSE]

Fixed == UNCHANGED concurrency

\* The model ends with the job.
Next == /\ ~Settled /\ Fixed
        /\ Service \/ Poller \/ (\E c \in Call : Client(c)) \/ Worker \/ Deadline \/ CancelJob

\* The threads of the backend run, a read times out, and the deadline comes; nothing
\* is assumed of the service, the poller and the user.
Fairness == /\ WF_vars(Worker /\ Fixed) /\ WF_vars(Deadline /\ Fixed)
            /\ \A c \in Call : WF_vars(Client(c) /\ Fixed)
Spec == Init /\ [][Next]_vars /\ Fairness

-----------------------------------------------------------------------------
\* Until the service has gone down or failed to answer for the first time, a job that
\* waited for it finds it: neither the first download nor a slow poll that stores an
\* older measurement over a newer one makes an attempt fail (_check_ready asks again).
FirstStartWaits == ~unready

\* One call of parse_page has its page inferred once: what may have reached the GPU is
\* not sent again by the client, only by the attempt of the runner.
InferredOnce ==
  [][\A c \in Call : srv'[c] = "queued" /\ call[c] = "connect" => srv[c] = "none"]_vars

\* The result has the pages in order, the pages of a chunk all from one attempt, and
\* every page that is missing lies in a chunk of which none is there.
PagesInOrder ==
  /\ \A i, j \in DOMAIN merged : i < j => merged[i][1] < merged[j][1]
  /\ \A i \in DOMAIN merged : LET c == merged[i]
                              chunk == (c[1] - 1) \div concurrency
                          IN /\ call[c] = "ok"
                             /\ \A p \in 1..Pages : (p - 1) \div concurrency = chunk =>
                                   \E j \in DOMAIN merged : merged[j] = <<p, c[2]>>

\* A job ends as cancelled only when it was cancelled: the stop event that releases the
\* siblings of a failed page is never taken for the user's.
CanceledMeansCancel == pc = "canceled" => cancel

\* The job ends, whatever the service does.
RunSettles == <>Settled

\* docs/OCR_ENGINE_PROTOCOL.md, "취소 의미론과 한계": a result that arrives after the
\* cancel is never merged.
LateIsNotMerged == \A i \in DOMAIN merged : ~late[merged[i]]
=============================================================================
