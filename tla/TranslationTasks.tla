-------------------------- MODULE TranslationTasks --------------------------
(***************************************************************************)
(* The translation of one finished job into one language: the registry of  *)
(* running translations and its lock (main.py, api.py), the body of a      *)
(* translation thread (api.py _run_translate_thread, translate/engine.py   *)
(* run_translation), and who meets it: GET /translate/state, the archive   *)
(* handler with its cached zip, DELETE of the job, the TTL collector, and  *)
(* a kill and restart of the process.                                      *)
(*                                                                         *)
(* The registry is only touched under translate_lock; everything done      *)
(* under one acquisition of the lock is one action.  Outside it an action  *)
(* is one read or write of the job's directory.  How the thread translates *)
(* its units is TranslatePool's business; here it makes paid calls, one    *)
(* at a time, and ends translated, cancelled or failed.                    *)
(*                                                                         *)
(* Runs are numbered by the POST /translate request that starts them; the  *)
(* number also stands for the text the run writes.                         *)
(***************************************************************************)
EXTENDS Naturals, FiniteSets

CONSTANTS MaxRuns,     \* bound: POST /translate requests
          Readers,     \* GET /archive requests
          MaxRestarts, \* bound: how often the process is killed and restarted
          GCEnabled,   \* JOB_TTL_DAYS > 0, and the job is old enough
          MayDelete    \* bound: the client deletes the job at some time

ASSUME TranslationAssumption ==
  MaxRuns \in Nat /\ MaxRestarts \in Nat /\ GCEnabled \in BOOLEAN /\ MayDelete \in BOOLEAN

Runs == 1..MaxRuns
NoRun == 0

VARIABLES
  inStore,    \* the job is in JobStore._jobs
  dir, tdir,  \* its directory, and translations/ko in it, exist
  result,     \* result.md (and meta.json) are there
  state,      \* translations/ko/state.json: no file, or a status
  writer,     \* the run that wrote state.json last
  ko,         \* result.ko.md: no file (NoRun), or the run whose text it has
  archive,    \* archive.zip: no file ({}), or the ko it contains
  task,       \* translate_tasks[(job, ko)]: the run registered, or NoRun
  canceled,   \* the runs whose cancel event is set
  tpc,        \* per run: where the request and then its thread is
  forced,     \* the runs started with force
  calls,      \* ghost: the runs that begin a paid call after a DELETE's 204
  adjust,     \* a stale state is being rewritten, under the lock
  zpc, zko,   \* per archive request: where it is, the ko it packed, and
  ztmp,       \* whether its temporary file is there
  dpc, gpc,   \* the DELETE request, the collector
  restarts

jobVars    == <<inStore, dir, tdir, result>>
fileVars   == <<state, writer, ko, archive>>
taskVars   == <<task, canceled, adjust>>
threadVars == <<tpc, forced, calls>>
readerVars == <<zpc, zko, ztmp>>
vars == <<jobVars, fileVars, taskVars, threadVars, readerVars, dpc, gpc, restarts>>

Waiting == {"none", "looked", "refused"}        \* not a thread (yet)
Over    == {"ended", "killed"}
Alive(r) == tpc[r] \notin Waiting \cup Over

-----------------------------------------------------------------------------
\* POST /jobs/{id}/translate

ThreadTo(r, pc) == tpc' = [tpc EXCEPT ![r] = pc]

\* _get_job, before the await of the request body.
StartLookup(r) ==
  /\ tpc[r] = "none" /\ (r > 1 => tpc[r-1] # "none")
  /\ inStore
  /\ ThreadTo(r, "looked")
  /\ forced' \in {forced, forced \cup {r}}
  /\ UNCHANGED <<jobVars, fileVars, taskVars, calls, readerVars, dpc, gpc, restarts>>

\* Mutant of StartRegister: a running translation is not noticed.
StartRegister_Unchecked(r) ==
  /\ tpc[r] = "looked" /\ ~adjust
  /\ IF state = "done" /\ r \notin forced
     THEN ThreadTo(r, "refused") /\ UNCHANGED task
     ELSE ThreadTo(r, "mkdir") /\ task' = r
  /\ UNCHANGED <<jobVars, fileVars, canceled, adjust, forced, calls, readerVars, dpc, gpc, restarts>>

\* Under the lock: a running translation, or a done one without force, is
\* answered 200; else the thread is registered and started.
StartRegister(r) ==
  /\ tpc[r] = "looked" /\ ~adjust
  /\ IF task # NoRun \/ (state = "done" /\ r \notin forced)
     THEN ThreadTo(r, "refused") /\ UNCHANGED task
     ELSE ThreadTo(r, "mkdir") /\ task' = r
  /\ UNCHANGED <<jobVars, fileVars, canceled, adjust, forced, calls, readerVars, dpc, gpc, restarts>>

-----------------------------------------------------------------------------
\* run_translation.  write_state ignores a directory that is gone.

WriteState(r, s) == IF tdir THEN state' = s /\ writer' = r ELSE UNCHANGED <<state, writer>>
ThreadFrame == UNCHANGED <<inStore, taskVars, forced, readerVars, dpc, gpc, restarts>>

\* tdir.mkdir(parents=True, exist_ok=True)
ThreadMkdir(r) ==
  /\ tpc[r] = "mkdir"
  /\ dir' = TRUE /\ tdir' = TRUE
  /\ ThreadTo(r, "begin")
  /\ UNCHANGED <<result, fileVars, calls>> /\ ThreadFrame

ThreadRunning(r) ==
  /\ tpc[r] = "begin"
  /\ WriteState(r, "running")
  /\ ThreadTo(r, "read")
  /\ UNCHANGED <<jobVars, ko, archive, calls>> /\ ThreadFrame

\* Mutant of ThreadRead: nothing to translate counts as translated.
ThreadRead_Shortcut(r) ==
  /\ tpc[r] = "read"
  /\ \E next \in {"glossary", "done"} : ThreadTo(r, IF result THEN next ELSE "error")
  /\ UNCHANGED <<jobVars, fileVars, calls>> /\ ThreadFrame

\* result.md is read, or the run fails: it was deleted.
ThreadRead(r) ==
  /\ tpc[r] = "read"
  /\ ThreadTo(r, IF result THEN "glossary" ELSE "error")
  /\ UNCHANGED <<jobVars, fileVars, calls>> /\ ThreadFrame

\* A paid call, and whether the 204 of a DELETE is out already.
PaidCall(r) == calls' = IF dpc = "answered" THEN calls \cup {r} ELSE calls

\* The glossary is loaded, or built with a call and saved; no look at the
\* cancel event before that call.
ThreadGlossary(r) ==
  /\ tpc[r] = "glossary"
  /\ \/ PaidCall(r) /\ ThreadTo(r, IF tdir THEN "units" ELSE "error")
     \/ tdir /\ r \notin forced /\ ThreadTo(r, "units") /\ UNCHANGED calls
  /\ UNCHANGED <<jobVars, fileVars>> /\ ThreadFrame

\* Before every unit, and as each one completes, the cancel event is read.
ThreadUnit(r) ==
  /\ tpc[r] = "units" /\ r \notin canceled
  /\ PaidCall(r)
  /\ UNCHANGED <<tpc, jobVars, fileVars>> /\ ThreadFrame

ThreadStops(r) ==
  /\ tpc[r] = "units" /\ r \in canceled
  /\ ThreadTo(r, "canceled")
  /\ UNCHANGED <<jobVars, fileVars, calls>> /\ ThreadFrame

\* Mutants of ThreadFails: the final state is not written; the thread dies
\* without its finally clause.
ThreadFails_Unrecorded(r) ==
  /\ tpc[r] \in {"glossary", "units"}
  /\ ThreadTo(r, "pop")
  /\ UNCHANGED <<jobVars, fileVars, calls>> /\ ThreadFrame
ThreadFails_Dies(r) ==
  /\ tpc[r] \in {"glossary", "units"}
  /\ ThreadTo(r, "ended")
  /\ UNCHANGED <<jobVars, fileVars, calls>> /\ ThreadFrame

\* An API error that is fatal.
ThreadFails(r) ==
  /\ tpc[r] \in {"glossary", "units"}
  /\ ThreadTo(r, "error")
  /\ UNCHANGED <<jobVars, fileVars, calls>> /\ ThreadFrame

\* Every unit is in: the translation is put together and replaces
\* result.ko.md, which fails in a directory that is gone.
ThreadAssemble(r) ==
  /\ tpc[r] = "units"
  /\ IF dir THEN ko' = r /\ ThreadTo(r, "report") ELSE UNCHANGED ko /\ ThreadTo(r, "error")
  /\ UNCHANGED <<jobVars, state, writer, archive, calls>> /\ ThreadFrame

\* layout.ko.json and translations/ko/report.json
ThreadReport(r) ==
  /\ tpc[r] = "report"
  /\ ThreadTo(r, IF tdir THEN "done" ELSE "error")
  /\ UNCHANGED <<jobVars, fileVars, calls>> /\ ThreadFrame

\* The final state.json, the last write of run_translation.
ThreadFinalState(r) ==
  /\ tpc[r] \in {"done", "canceled", "error"}
  /\ WriteState(r, tpc[r])
  /\ ThreadTo(r, IF tpc[r] = "done" THEN "announce" ELSE "pop")
  /\ UNCHANGED <<jobVars, ko, archive, calls>> /\ ThreadFrame

\* _run_translate_thread publishes done ...
ThreadAnnounce(r) ==
  /\ tpc[r] = "announce"
  /\ ThreadTo(r, "unzip")
  /\ UNCHANGED <<jobVars, fileVars, calls>> /\ ThreadFrame

\* ... and then drops the archive cache.
ThreadUnlinkArchive(r) ==
  /\ tpc[r] = "unzip"
  /\ archive' = {}
  /\ ThreadTo(r, "pop")
  /\ UNCHANGED <<jobVars, state, writer, ko, calls>> /\ ThreadFrame

\* finally, under the lock: the registry entry goes.
ThreadPop(r) ==
  /\ tpc[r] = "pop" /\ ~adjust
  /\ task' = NoRun
  /\ ThreadTo(r, "ended")
  /\ UNCHANGED <<jobVars, fileVars, canceled, adjust, forced, calls, readerVars, dpc, gpc, restarts>>

ThreadMoves(r) ==
  \/ ThreadMkdir(r) \/ ThreadRunning(r) \/ ThreadRead(r) \/ ThreadGlossary(r)
  \/ ThreadStops(r) \/ ThreadFails(r) \/ ThreadAssemble(r) \/ ThreadReport(r)
  \/ ThreadFinalState(r) \/ ThreadAnnounce(r) \/ ThreadUnlinkArchive(r) \/ ThreadPop(r)

-----------------------------------------------------------------------------
\* POST /translate/cancel

CancelTranslation ==
  /\ inStore /\ task # NoRun /\ ~adjust
  /\ canceled' = canceled \cup {task}
  /\ UNCHANGED <<jobVars, fileVars, task, adjust, threadVars, readerVars, dpc, gpc, restarts>>

\* Mutant of AdjustRead: the registry is not asked.
AdjustRead_Unasked ==
  /\ ~adjust /\ state = "running"
  /\ adjust' = TRUE
  /\ UNCHANGED <<jobVars, fileVars, task, canceled, threadVars, readerVars, dpc, gpc, restarts>>

\* _stale_adjusted_state (GET /translate/state, /translate/events and cancel):
\* under the lock, registry first and file second; a running nobody works on is
\* rewritten as an error, in a directory made anew if it is gone meanwhile.
AdjustRead ==
  /\ ~adjust /\ task = NoRun /\ state = "running"
  /\ adjust' = TRUE
  /\ UNCHANGED <<jobVars, fileVars, task, canceled, threadVars, readerVars, dpc, gpc, restarts>>

AdjustWrite ==
  /\ adjust
  /\ dir' = TRUE /\ tdir' = TRUE
  /\ state' = "error" /\ writer' = NoRun
  /\ adjust' = FALSE
  /\ UNCHANGED <<inStore, result, ko, archive, task, canceled, threadVars, readerVars,
                 dpc, gpc, restarts>>

-----------------------------------------------------------------------------
\* GET /jobs/{id}/archive

ReaderFrame == UNCHANGED <<jobVars, state, writer, ko, taskVars, threadVars, dpc, gpc, restarts>>
ReaderTo(z, pc) == zpc' = [zpc EXCEPT ![z] = pc]

\* A cached zip is served as it is; without one a build begins.
ArchiveBegin(z) ==
  /\ zpc[z] = "idle" /\ inStore /\ dir
  /\ archive = {}
  /\ ReaderTo(z, "build") /\ ztmp' = [ztmp EXCEPT ![z] = TRUE]
  /\ UNCHANGED <<zko, archive>> /\ ReaderFrame

\* zf.write of what is there now.
ArchivePack(z) ==
  /\ zpc[z] = "build"
  /\ zko' = [zko EXCEPT ![z] = ko]
  /\ ReaderTo(z, "packed")
  /\ UNCHANGED <<ztmp, archive>> /\ ReaderFrame

\* tmp.replace(archive.zip), which fails when the file was removed under it.
ArchiveReplace(z) ==
  /\ zpc[z] = "packed"
  /\ archive' = IF ztmp[z] THEN {zko[z]} ELSE archive
  /\ ReaderTo(z, "idle") /\ ztmp' = [ztmp EXCEPT ![z] = FALSE]
  /\ zko' = [zko EXCEPT ![z] = NoRun] /\ ReaderFrame

-----------------------------------------------------------------------------
\* Removal of the job: shutil.rmtree in two halves, then JobStore.remove.

UnlinkAll ==
  /\ result' = FALSE /\ tdir' = FALSE /\ state' = "none" /\ writer' = NoRun
  /\ ko' = NoRun /\ archive' = {} /\ ztmp' = [z \in Readers |-> FALSE]
  /\ UNCHANGED <<inStore, dir>>

RmdirAndRemove ==
  /\ dir' = (dir /\ \/ result \/ tdir \/ ko # NoRun \/ archive # {}
                    \/ \E z \in Readers : ztmp[z])
  /\ inStore' = FALSE
  /\ UNCHANGED <<result, tdir, fileVars, ztmp>>

RemovalFrame == UNCHANGED <<task, adjust, threadVars, zpc, zko, restarts>>

\* DELETE /jobs/{id}: under the lock, every task of the job is cancelled.
DeleteCancels ==
  /\ MayDelete /\ inStore /\ dpc = "idle" /\ ~adjust
  /\ canceled' = IF task = NoRun THEN canceled ELSE canceled \cup {task}
  /\ dpc' = "unlink"
  /\ UNCHANGED <<jobVars, fileVars, ztmp, gpc>> /\ RemovalFrame

DeleteUnlink ==
  /\ dpc = "unlink" /\ UnlinkAll
  /\ dpc' = "rmdir" /\ UNCHANGED <<canceled, gpc>> /\ RemovalFrame

DeleteRmdir ==
  /\ dpc = "rmdir" /\ RmdirAndRemove
  /\ dpc' = "answered" /\ UNCHANGED <<canceled, gpc>> /\ RemovalFrame

\* gc_expired: is_protected under the lock, then delete_dir without it.
GCCheck ==
  /\ GCEnabled /\ inStore /\ result /\ gpc = "idle"
  /\ task = NoRun /\ ~adjust
  /\ gpc' = "unlink"
  /\ UNCHANGED <<jobVars, fileVars, ztmp, canceled, dpc>> /\ RemovalFrame

GCUnlink ==
  /\ gpc = "unlink" /\ UnlinkAll
  /\ gpc' = "rmdir" /\ UNCHANGED <<canceled, dpc>> /\ RemovalFrame

GCRmdir ==
  /\ gpc = "rmdir" /\ RmdirAndRemove
  /\ gpc' = "idle" /\ UNCHANGED <<canceled, dpc>> /\ RemovalFrame

-----------------------------------------------------------------------------
\* The process is killed and started again: threads, requests and the registry
\* are gone, a job with a meta.json is back.
Restart ==
  /\ restarts < MaxRestarts
  /\ restarts' = restarts + 1
  /\ inStore' = (dir /\ result)
  /\ task' = NoRun /\ canceled' = {} /\ adjust' = FALSE
  /\ tpc' = [r \in Runs |-> IF tpc[r] = "none" THEN "none" ELSE
                            IF tpc[r] \in {"refused", "ended"} THEN tpc[r] ELSE "killed"]
  /\ zpc' = [z \in Readers |-> "idle"] /\ zko' = [z \in Readers |-> NoRun]
  /\ UNCHANGED ztmp
  /\ dpc' = IF dpc = "answered" THEN dpc ELSE "idle"
  /\ gpc' = "idle"
  /\ UNCHANGED <<dir, tdir, result, fileVars, forced, calls>>

-----------------------------------------------------------------------------
Init ==
  /\ inStore = TRUE /\ dir = TRUE /\ result = TRUE /\ tdir = FALSE
  /\ state = "none" /\ writer = NoRun /\ ko = NoRun /\ archive = {}
  /\ task = NoRun /\ canceled = {} /\ adjust = FALSE
  /\ tpc = [r \in Runs |-> "none"] /\ forced = {} /\ calls = {}
  /\ zpc = [z \in Readers |-> "idle"] /\ zko = [z \in Readers |-> NoRun]
  /\ ztmp = [z \in Readers |-> FALSE]
  /\ dpc = "idle" /\ gpc = "idle"
  /\ restarts = 0

Next ==
  \/ \E r \in Runs : StartLookup(r) \/ StartRegister(r) \/ ThreadMoves(r) \/ ThreadUnit(r)
  \/ CancelTranslation \/ AdjustRead \/ AdjustWrite
  \/ \E z \in Readers : ArchiveBegin(z) \/ ArchivePack(z) \/ ArchiveReplace(z)
  \/ DeleteCancels \/ DeleteUnlink \/ DeleteRmdir
  \/ GCCheck \/ GCUnlink \/ GCRmdir
  \/ Restart

Spec == Init /\ [][Next]_vars

\* A thread goes on running (every call it makes has a timeout), and whoever
\* holds the lock releases it.
Fairness == /\ \A r \in Runs : WF_vars(ThreadMoves(r))
            /\ WF_vars(AdjustWrite)

LiveSpec == Spec /\ Fairness

-----------------------------------------------------------------------------
States == {"none", "running", "done", "error", "canceled"}
ThreadStages == Waiting \cup Over \cup
  {"mkdir", "begin", "read", "glossary", "units", "report", "done", "canceled",
   "error", "announce", "unzip", "pop"}

\* The registry names exactly the thread there is: no second translation of the
\* same job runs beside it, no entry outlives its thread (api.py:622-645, 180-182).
RegistryIsExact == \A r \in Runs : Alive(r) <=> task = r

\* A state.json that says running was written by the thread that is registered,
\* or by one a restart killed: no run ends without its final state, and none is
\* taken out of the registry before it (api.py:113-117, engine.py:162-490).
RunningIsAlive ==
  state = "running" => writer # NoRun /\ (task = writer \/ tpc[writer] = "killed")

\* done vouches for the text: result.ko.md is there, and it is the text of the
\* run that said so, also with a forced run under way, failed or killed
\* (engine.py:458-479).
DoneMeansTranslated == state = "done" => writer # NoRun /\ ko = writer

\* A final state is replaced by a new run, which says running first, or by the
\* removal of the job, and by nothing else: a reader that looks while a run ends
\* never turns its done into an interruption (api.py:112-127).
FinalStateStands ==
  [][(state \in {"done", "error", "canceled"} /\ state' # state)
        => state' \in {"running", "none"}]_vars

\* Every translation that was started leaves the registry again, so that the
\* next POST can start one (api.py:180-182, 622-626).
EveryRunLeaves == \A r \in Runs : (task = r) ~> (task # r)

-----------------------------------------------------------------------------
\* What the repository says of the program and the code does not do.

\* docs/ARCHITECTURE.md:267: no paid API call goes on for a deleted job.
PaidCallsStop == calls = {}

\* docs/ARCHITECTURE.md:565: the collector never deletes a job whose translation
\* is running.
GCSparesTranslations == [][(gpc = "unlink" /\ gpc' = "rmdir") => task = NoRun]_vars

\* docs/ARCHITECTURE.md:496: once a translation is complete, /archive hands out a
\* zip that holds it.
ArchiveHasTranslation == (state = "done" /\ task = NoRun /\ archive # {}) => ko \in archive
=============================================================================
