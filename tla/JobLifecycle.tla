---------------------------- MODULE JobLifecycle ----------------------------
(***************************************************************************)
(* The life of a conversion job in the backend: the handlers POST /jobs,   *)
(* POST /jobs/{id}/cancel and DELETE /jobs/{id} (api.py), the job store    *)
(* with its directory and meta.json per job and the single worker thread   *)
(* (jobs.py), the control skeleton of execute_job (pipeline/runner.py),    *)
(* the TTL garbage collector, and a kill and restart of the process        *)
(* (main.py, JobStore.load_existing).                                      *)
(*                                                                         *)
(* The handlers run on a thread pool and on the event loop, the worker on  *)
(* a thread of its own; no lock spans two statements of any of them, so an *)
(* action is one statement that reads or writes shared state.  Two things  *)
(* are coarser.  JobStore.save is one step: its temporary file is replaced *)
(* atomically, and a FileNotFoundError on either half is ignored.  A       *)
(* shutil.rmtree is two: unlinking what it finds, then rmdir, which fails  *)
(* silently when somebody wrote a file in between.                         *)
(***************************************************************************)
EXTENDS Naturals, Sequences

CONSTANTS Jobs,         \* identifiers create() may hand out (uuid4, never reused)
          NoJob,        \* no job in the worker's or the collector's hands
          Touched,      \* bound: the jobs clients ever cancel or delete
          GCEnabled,    \* JOB_TTL_DAYS > 0
          MaxRestarts,  \* bound: how often the process is killed and restarted
          MaxIOErrors   \* bound: how many writes fail (disk full, I/O error)

ASSUME ConstantsAssumption ==
  /\ NoJob \notin Jobs
  /\ Touched \subseteq Jobs
  /\ GCEnabled \in BOOLEAN
  /\ MaxRestarts \in Nat
  /\ MaxIOErrors \in Nat

VARIABLES
  jobs,             \* JobStore._jobs: the jobs in the store
  status,           \* Job.status, in memory
  deleteRequested,  \* Job.delete_requested, in memory only
  cancelEvents,     \* the cancel_events dict: no entry, a clear or a set event
  queue,            \* Worker._queue
  wpc, wjob, dying, \* the worker thread: where it is, with which job, and
                    \* whether an exception is about to end the thread
  dir, meta, files, \* on disk: the directory, the status in meta.json, and
                    \* whether there is anything else in it (source.pdf, pages)
  upload,           \* the POST /jobs request of a job
  del, can,         \* a DELETE and a POST cancel request of a job
  gcpc, gcjob,      \* the garbage collector
  restarts, ioErrors,
  abandoned         \* ghost: jobs cancelled before the worker looked at them

storeVars   == <<jobs, status, deleteRequested>>
workerVars  == <<wpc, wjob, dying>>
diskVars    == <<dir, meta, files>>
handlerVars == <<upload, del, can>>
gcVars      == <<gcpc, gcjob>>
countVars   == <<restarts, ioErrors>>
vars == <<storeVars, cancelEvents, queue, workerVars, diskVars, handlerVars,
          gcVars, countVars, abandoned>>

Active   == {"queued", "running"}
Terminal == {"done", "error", "canceled"}

-----------------------------------------------------------------------------
\* Steps shared by several actors.

\* JobStore.save: meta.json takes the status the object has now; a directory
\* that is gone is not an error.
Save(j) == meta' = IF dir[j] THEN [meta EXCEPT ![j] = status[j]] ELSE meta

\* shutil.rmtree, first half: everything the scan found is unlinked.
Unlink(j) == /\ meta' = [meta EXCEPT ![j] = "none"]
             /\ files' = [files EXCEPT ![j] = FALSE]
             /\ dir' = dir

\* shutil.rmtree(ignore_errors=True), second half, and JobStore.remove.
RmdirAndRemove(j) ==
  /\ dir' = [dir EXCEPT ![j] = @ /\ (files[j] \/ meta[j] # "none")]
  /\ jobs' = jobs \ {j}
  /\ UNCHANGED <<meta, files>>

SetEvent(j) ==
  /\ cancelEvents' = [cancelEvents EXCEPT ![j] = "set"]
  /\ abandoned' = IF \E i \in 1..Len(queue) : queue[i] = j
                  THEN abandoned \cup {j} ELSE abandoned

-----------------------------------------------------------------------------
\* POST /jobs

\* JobStore.create up to the insertion into _jobs.
CreateJob(j) ==
  /\ upload[j] = "none"
  /\ jobs' = jobs \cup {j}
  /\ status' = [status EXCEPT ![j] = "queued"]
  /\ dir' = [dir EXCEPT ![j] = TRUE]
  /\ upload' = [upload EXCEPT ![j] = "created"]
  /\ UNCHANGED <<deleteRequested, cancelEvents, queue, workerVars, meta, files,
                 del, can, gcVars, countVars, abandoned>>

\* The save at the end of JobStore.create.
CreateSave(j) ==
  /\ upload[j] = "created"
  /\ Save(j)
  /\ upload' = [upload EXCEPT ![j] = "opening"]
  /\ UNCHANGED <<storeVars, cancelEvents, queue, workerVars, dir, files,
                 del, can, gcVars, countVars, abandoned>>

\* anyio.open_file(dest, "wb"): FileNotFoundError when a DELETE took the
\* directory away, and that is no HTTPException.
UploadOpen(j) ==
  /\ upload[j] = "opening"
  /\ upload' = [upload EXCEPT ![j] = IF dir[j] THEN "writing" ELSE "ended"]
  /\ files' = [files EXCEPT ![j] = @ \/ dir[j]]
  /\ UNCHANGED <<storeVars, cancelEvents, queue, workerVars, dir, meta,
                 del, can, gcVars, countVars, abandoned>>

\* Size, magic and probe checks pass on the file that is (still) there.
UploadAccepted(j) ==
  /\ upload[j] = "writing" /\ files[j]
  /\ upload' = [upload EXCEPT ![j] = "accepted"]
  /\ UNCHANGED <<storeVars, cancelEvents, queue, workerVars, diskVars,
                 del, can, gcVars, countVars, abandoned>>

\* One of them raises HTTPException, and delete_dir follows.
UploadRejected(j) ==
  /\ upload[j] = "writing"
  /\ upload' = [upload EXCEPT ![j] = "unlink"]
  /\ UNCHANGED <<storeVars, cancelEvents, queue, workerVars, diskVars,
                 del, can, gcVars, countVars, abandoned>>

UploadUnlink(j) ==
  /\ upload[j] = "unlink"
  /\ Unlink(j)
  /\ upload' = [upload EXCEPT ![j] = "rmdir"]
  /\ UNCHANGED <<storeVars, cancelEvents, queue, workerVars,
                 del, can, gcVars, countVars, abandoned>>

UploadRmdir(j) ==
  /\ upload[j] = "rmdir"
  /\ RmdirAndRemove(j)
  /\ upload' = [upload EXCEPT ![j] = "ended"]
  /\ UNCHANGED <<status, deleteRequested, cancelEvents, queue, workerVars,
                 del, can, gcVars, countVars, abandoned>>

\* Any other exception leaves the handler at once: dest.open("rb") on a file a
\* DELETE unlinked, or a write that fails.  The job stays in the store.
UploadRaises(j) ==
  /\ upload[j] = "writing"
  /\ upload' = [upload EXCEPT ![j] = "ended"]
  /\ \/ ~files[j] /\ UNCHANGED ioErrors
     \/ ioErrors < MaxIOErrors /\ ioErrors' = ioErrors + 1
  /\ UNCHANGED <<storeVars, cancelEvents, queue, workerVars, diskVars,
                 del, can, gcVars, restarts, abandoned>>

\* Worker.submit
Submit(j) ==
  /\ upload[j] = "accepted"
  /\ cancelEvents' = [cancelEvents EXCEPT ![j] = IF @ = "absent" THEN "clear" ELSE @]
  /\ queue' = Append(queue, j)
  /\ upload' = [upload EXCEPT ![j] = "ended"]
  /\ UNCHANGED <<storeVars, workerVars, diskVars, del, can, gcVars, countVars, abandoned>>

Upload(j) == \/ CreateJob(j) \/ CreateSave(j) \/ UploadOpen(j)
             \/ UploadAccepted(j) \/ UploadRejected(j) \/ UploadUnlink(j)
             \/ UploadRmdir(j) \/ UploadRaises(j) \/ Submit(j)

-----------------------------------------------------------------------------
\* POST /jobs/{id}/cancel

CancelCheck(j) ==
  /\ can[j] = "idle" /\ j \in jobs \cap Touched
  /\ status[j] \in Active
  /\ can' = [can EXCEPT ![j] = "checked"]
  /\ UNCHANGED <<storeVars, cancelEvents, queue, workerVars, diskVars, upload, del,
                 gcVars, countVars, abandoned>>

CancelSet(j) ==
  /\ can[j] = "checked"
  /\ SetEvent(j)
  /\ can' = [can EXCEPT ![j] = "idle"]
  /\ UNCHANGED <<storeVars, queue, workerVars, diskVars, upload, del, gcVars, countVars>>

-----------------------------------------------------------------------------
\* DELETE /jobs/{id}

DeleteFlag(j) ==
  /\ del[j] = "idle" /\ j \in jobs \cap Touched
  /\ deleteRequested' = [deleteRequested EXCEPT ![j] = TRUE]
  /\ del' = [del EXCEPT ![j] = "flagged"]
  /\ UNCHANGED <<jobs, status, cancelEvents, queue, workerVars, diskVars,
                 upload, can, gcVars, countVars, abandoned>>

\* cancel_events.get(job_id), and set it if there is one.
DeleteSignal(j) ==
  /\ del[j] = "flagged"
  /\ IF cancelEvents[j] = "absent" THEN UNCHANGED <<cancelEvents, abandoned>>
                                   ELSE SetEvent(j)
  /\ del' = [del EXCEPT ![j] = "signaled"]
  /\ UNCHANGED <<storeVars, queue, workerVars, diskVars, upload, can, gcVars, countVars>>

\* A running job is left to the worker; any other is removed here.
DeleteDecide(j) ==
  /\ del[j] = "signaled"
  /\ del' = [del EXCEPT ![j] = IF status[j] = "running" THEN "idle" ELSE "unlink"]
  /\ UNCHANGED <<storeVars, cancelEvents, queue, workerVars, diskVars, upload, can,
                 gcVars, countVars, abandoned>>

DeleteUnlink(j) ==
  /\ del[j] = "unlink"
  /\ Unlink(j)
  /\ del' = [del EXCEPT ![j] = "rmdir"]
  /\ UNCHANGED <<storeVars, cancelEvents, queue, workerVars, upload, can,
                 gcVars, countVars, abandoned>>

DeleteRmdir(j) ==
  /\ del[j] = "rmdir"
  /\ RmdirAndRemove(j)
  /\ del' = [del EXCEPT ![j] = "idle"]
  /\ UNCHANGED <<status, deleteRequested, cancelEvents, queue, workerVars,
                 upload, can, gcVars, countVars, abandoned>>

DeleteStep(j) == \/ DeleteSignal(j) \/ DeleteDecide(j) \/ DeleteUnlink(j) \/ DeleteRmdir(j)

-----------------------------------------------------------------------------
\* Worker.run, before execute_job

WorkerTo(pc) == wpc' = pc /\ UNCHANGED <<wjob, dying>>
WorkerMark(s, pc) == /\ status' = [status EXCEPT ![wjob] = s]
                     /\ WorkerTo(pc)
                     /\ UNCHANGED <<jobs, deleteRequested>>
WorkerDies == wpc' = "dead" /\ wjob' = NoJob /\ dying' = FALSE
WorkerFrame == UNCHANGED <<handlerVars, gcVars, restarts, abandoned>>

\* _queue.get()
WorkerGet ==
  /\ wpc = "idle" /\ queue # <<>>
  /\ wpc' = "got" /\ wjob' = Head(queue) /\ dying' = FALSE
  /\ queue' = Tail(queue)
  /\ UNCHANGED <<storeVars, cancelEvents, diskVars, ioErrors>> /\ WorkerFrame

\* store.get(job_id), and cancel_events.setdefault for a job that is there.
WorkerLookup ==
  /\ wpc = "got"
  /\ IF wjob \in jobs
     THEN /\ WorkerTo("check")
          /\ cancelEvents' = [cancelEvents EXCEPT ![wjob] = IF @ = "absent" THEN "clear" ELSE @]
     ELSE WorkerTo("pop") /\ UNCHANGED cancelEvents
  /\ UNCHANGED <<storeVars, queue, diskVars, ioErrors>> /\ WorkerFrame

\* Mutant of WorkerCheck: the cancel event is not looked at.
WorkerCheck_DeleteOnly ==
  /\ wpc = "check"
  /\ IF deleteRequested[wjob] THEN WorkerMark("canceled", "drop")
                              ELSE WorkerTo("wait") /\ UNCHANGED storeVars
  /\ UNCHANGED <<cancelEvents, queue, diskVars, ioErrors>> /\ WorkerFrame

\* if job.delete_requested or cancel.is_set(): the job ends canceled, unrun.
WorkerCheck ==
  /\ wpc = "check"
  /\ IF deleteRequested[wjob] \/ cancelEvents[wjob] = "set"
     THEN WorkerMark("canceled", "drop")
     ELSE WorkerTo("wait") /\ UNCHANGED storeVars
  /\ UNCHANGED <<cancelEvents, queue, diskVars, ioErrors>> /\ WorkerFrame

\* engine.loaded, or wait_until_ready returns.
WorkerReady ==
  /\ wpc = "wait"
  /\ WorkerTo("start")
  /\ UNCHANGED <<storeVars, cancelEvents, queue, diskVars, ioErrors>> /\ WorkerFrame

\* Mutant of WorkerWaitCanceled: the cancel branch does not settle the job.
WorkerWaitCanceled_Unsettled ==
  /\ wpc = "wait" /\ cancelEvents[wjob] = "set"
  /\ WorkerTo("drop")
  /\ UNCHANGED <<storeVars, cancelEvents, queue, diskVars, ioErrors>> /\ WorkerFrame

\* wait_until_ready raises JobCanceled.
WorkerWaitCanceled ==
  /\ wpc = "wait" /\ cancelEvents[wjob] = "set"
  /\ WorkerMark("canceled", "drop")
  /\ UNCHANGED <<cancelEvents, queue, diskVars, ioErrors>> /\ WorkerFrame

\* wait_until_ready raises anything else.
WorkerLoadFails ==
  /\ wpc = "wait"
  /\ WorkerMark("error", "loadErr")
  /\ UNCHANGED <<cancelEvents, queue, diskVars, ioErrors>> /\ WorkerFrame

\* Mutant of WorkerDropSave: the status of a dropped job is not saved.
WorkerDropSave_Unsaved ==
  /\ wpc \in {"drop", "loadErr"}
  /\ WorkerTo(IF wpc = "drop" THEN "dropped" ELSE "pop")
  /\ UNCHANGED <<storeVars, cancelEvents, queue, diskVars, ioErrors>> /\ WorkerFrame

\* The save of a job dropped unrun, then the look at delete_requested; the save
\* after a failed load is followed by no such look.
WorkerDropSave ==
  /\ wpc \in {"drop", "loadErr"}
  /\ Save(wjob)
  /\ WorkerTo(IF wpc = "drop" THEN "dropped" ELSE "pop")
  /\ UNCHANGED <<storeVars, cancelEvents, queue, dir, files, ioErrors>> /\ WorkerFrame

WorkerDropped ==
  /\ wpc = "dropped"
  /\ WorkerTo(IF deleteRequested[wjob] THEN "unlink" ELSE "pop")
  /\ UNCHANGED <<storeVars, cancelEvents, queue, diskVars, ioErrors>> /\ WorkerFrame

-----------------------------------------------------------------------------
\* execute_job

RunBegin ==
  /\ wpc = "start"
  /\ WorkerMark("running", "begun")
  /\ UNCHANGED <<cancelEvents, queue, diskVars, ioErrors>> /\ WorkerFrame

RunFirstSave ==
  /\ wpc = "begun"
  /\ Save(wjob)
  /\ WorkerTo("running")
  /\ UNCHANGED <<storeVars, cancelEvents, queue, dir, files, ioErrors>> /\ WorkerFrame

\* Rendered pages, chunk results and progress: the mkdir(parents=True) of the
\* pages directory and of the merger bring a removed directory back.
RunProgress ==
  /\ wpc = "running"
  /\ dir' = [dir EXCEPT ![wjob] = TRUE]
  /\ files' = [files EXCEPT ![wjob] = TRUE]
  /\ meta' = [meta EXCEPT ![wjob] = status[wjob]]
  /\ UNCHANGED <<storeVars, cancelEvents, queue, workerVars, ioErrors>> /\ WorkerFrame

\* The last of the cancel checks lets the job through to the merge.
RunPassLastCheck ==
  /\ wpc = "running" /\ cancelEvents[wjob] # "set"
  /\ WorkerTo("merge")
  /\ UNCHANGED <<storeVars, cancelEvents, queue, diskVars, ioErrors>> /\ WorkerFrame

\* A cancel check (render callback, chunk start, retry, chunk end) raises.
RunCanceled ==
  /\ wpc = "running" /\ cancelEvents[wjob] = "set"
  /\ WorkerMark("canceled", "fin")
  /\ UNCHANGED <<cancelEvents, queue, diskVars, ioErrors>> /\ WorkerFrame

\* Mutant of RunFails: what follows the final save can still fail the job.
RunFails_AfterSettling ==
  /\ wpc \in {"running", "merge", "final"}
  /\ WorkerMark("error", "fin")
  /\ UNCHANGED <<cancelEvents, queue, diskVars, ioErrors>> /\ WorkerFrame

RunFails ==
  /\ wpc \in {"running", "merge"}
  /\ WorkerMark("error", "fin")
  /\ UNCHANGED <<cancelEvents, queue, diskVars, ioErrors>> /\ WorkerFrame

RunDone ==
  /\ wpc = "merge"
  /\ WorkerMark("done", "done")
  /\ UNCHANGED <<cancelEvents, queue, diskVars, ioErrors>> /\ WorkerFrame

RunFinalSave ==
  /\ wpc \in {"done", "fin"}
  /\ Save(wjob)
  /\ WorkerTo("final")
  /\ UNCHANGED <<storeVars, cancelEvents, queue, dir, files, ioErrors>> /\ WorkerFrame

\* Mutant of RunFinally: no second look at delete_requested.
RunFinally_NoLook ==
  /\ wpc = "final"
  /\ IF dying THEN WorkerDies ELSE WorkerTo("pop")
  /\ UNCHANGED <<storeVars, cancelEvents, queue, diskVars, ioErrors>> /\ WorkerFrame

\* finally: a job whose deletion was requested is removed here.
RunFinally ==
  /\ wpc = "final"
  /\ IF deleteRequested[wjob] THEN WorkerTo("unlink")
     ELSE IF dying THEN WorkerDies ELSE WorkerTo("pop")
  /\ UNCHANGED <<storeVars, cancelEvents, queue, diskVars, ioErrors>> /\ WorkerFrame

WorkerUnlink ==
  /\ wpc = "unlink"
  /\ Unlink(wjob)
  /\ WorkerTo("rmdir")
  /\ UNCHANGED <<storeVars, cancelEvents, queue, ioErrors>> /\ WorkerFrame

WorkerRmdir ==
  /\ wpc = "rmdir"
  /\ RmdirAndRemove(wjob)
  /\ IF dying THEN WorkerDies ELSE WorkerTo("pop")
  /\ UNCHANGED <<status, deleteRequested, cancelEvents, queue, ioErrors>> /\ WorkerFrame

\* cancel_events.pop(job_id, None), and the next turn of the loop.
WorkerPop ==
  /\ wpc = "pop"
  /\ cancelEvents' = [cancelEvents EXCEPT ![wjob] = "absent"]
  /\ wpc' = "idle" /\ wjob' = NoJob /\ dying' = FALSE
  /\ UNCHANGED <<storeVars, queue, diskVars, ioErrors>> /\ WorkerFrame

\* A save raises something other than FileNotFoundError.  Inside the try block
\* of execute_job that makes the job an error; in its except handlers the
\* exception leaves execute_job (after finally) and Worker.run, as it does in
\* the branches of Worker.run itself, and the thread ends.
WorkerSaveFails ==
  /\ ioErrors < MaxIOErrors
  /\ ioErrors' = ioErrors + 1
  /\ \/ wpc \in {"begun", "running", "done"} /\ WorkerMark("error", "fin")
     \/ wpc = "fin" /\ wpc' = "final" /\ wjob' = wjob /\ dying' = TRUE /\ UNCHANGED storeVars
     \/ wpc \in {"drop", "loadErr"} /\ WorkerDies /\ UNCHANGED storeVars
  /\ UNCHANGED <<cancelEvents, queue, diskVars>> /\ WorkerFrame

WorkerStep ==
  \/ WorkerGet \/ WorkerLookup \/ WorkerCheck
  \/ WorkerReady \/ WorkerWaitCanceled \/ WorkerLoadFails
  \/ WorkerDropSave \/ WorkerDropped
  \/ RunBegin \/ RunFirstSave \/ RunPassLastCheck \/ RunCanceled \/ RunFails
  \/ RunDone \/ RunFinalSave \/ RunFinally
  \/ WorkerUnlink \/ WorkerRmdir \/ WorkerPop

-----------------------------------------------------------------------------
\* JobStore.gc_expired.  Which jobs are old enough is left open: the age of a
\* job only ever rules a deletion out.

GCPick(j) ==
  /\ GCEnabled /\ gcpc = "idle"
  /\ j \in jobs /\ status[j] \in Terminal /\ meta[j] # "none"
  /\ gcpc' = "unlink" /\ gcjob' = j
  /\ UNCHANGED <<storeVars, cancelEvents, queue, workerVars, diskVars, handlerVars,
                 countVars, abandoned>>

GCUnlink ==
  /\ gcpc = "unlink"
  /\ Unlink(gcjob)
  /\ gcpc' = "rmdir" /\ UNCHANGED gcjob
  /\ UNCHANGED <<storeVars, cancelEvents, queue, workerVars, handlerVars, countVars, abandoned>>

GCRmdir ==
  /\ gcpc = "rmdir"
  /\ RmdirAndRemove(gcjob)
  /\ gcpc' = "idle" /\ gcjob' = NoJob
  /\ UNCHANGED <<status, deleteRequested, cancelEvents, queue, workerVars,
                 handlerVars, countVars, abandoned>>

-----------------------------------------------------------------------------
\* The process is killed at any moment and started again: create_app builds
\* empty structures and load_existing reads back every directory that has a
\* meta.json, turning queued and running into error and saving only those.

Restored(j) == dir[j] /\ meta[j] # "none"
\* Mutants of RestoredStatus: the status as it was saved; everything but done
\* taken for interrupted.
RestoredStatus_AsSaved(j) == meta[j]
RestoredStatus_OnlyDone(j) == IF meta[j] = "done" THEN "done" ELSE "error"

RestoredStatus(j) == IF meta[j] \in Active THEN "error" ELSE meta[j]

Restart ==
  /\ restarts < MaxRestarts
  /\ restarts' = restarts + 1
  /\ jobs' = {j \in Jobs : Restored(j)}
  /\ status' = [j \in Jobs |-> RestoredStatus(j)]
  /\ meta' = [j \in Jobs |-> IF Restored(j) THEN RestoredStatus(j) ELSE meta[j]]
  /\ deleteRequested' = [j \in Jobs |-> FALSE]
  /\ cancelEvents' = [j \in Jobs |-> "absent"]
  /\ queue' = <<>>
  /\ wpc' = "idle" /\ wjob' = NoJob /\ dying' = FALSE
  /\ upload' = [j \in Jobs |-> IF upload[j] = "none" THEN "none" ELSE "ended"]
  /\ del' = [j \in Jobs |-> "idle"]
  /\ can' = [j \in Jobs |-> "idle"]
  /\ gcpc' = "idle" /\ gcjob' = NoJob
  /\ abandoned' = {}
  /\ UNCHANGED <<dir, files, ioErrors>>

-----------------------------------------------------------------------------
Init ==
  /\ jobs = {}
  /\ status = [j \in Jobs |-> "none"]
  /\ deleteRequested = [j \in Jobs |-> FALSE]
  /\ cancelEvents = [j \in Jobs |-> "absent"]
  /\ queue = <<>>
  /\ wpc = "idle" /\ wjob = NoJob /\ dying = FALSE
  /\ dir = [j \in Jobs |-> FALSE]
  /\ meta = [j \in Jobs |-> "none"]
  /\ files = [j \in Jobs |-> FALSE]
  /\ upload = [j \in Jobs |-> "none"]
  /\ del = [j \in Jobs |-> "idle"]
  /\ can = [j \in Jobs |-> "idle"]
  /\ gcpc = "idle" /\ gcjob = NoJob
  /\ restarts = 0 /\ ioErrors = 0
  /\ abandoned = {}

Next ==
  \/ \E j \in Jobs : \/ Upload(j) \/ CancelCheck(j) \/ CancelSet(j)
                     \/ DeleteFlag(j) \/ DeleteStep(j) \/ GCPick(j)
  \/ WorkerStep \/ RunProgress \/ WorkerSaveFails
  \/ GCUnlink \/ GCRmdir
  \/ Restart

Spec == Init /\ [][Next]_vars

\* Every thread that is running keeps running: the worker (whose engine calls,
\* page loops and waits are all bounded by deadlines, so it leaves every stage)
\* and a DELETE that has begun.  Nothing is assumed of clients.
Fairness == /\ WF_vars(WorkerStep)
            /\ \A j \in Jobs : WF_vars(DeleteStep(j))

LiveSpec == Spec /\ Fairness
=============================================================================
