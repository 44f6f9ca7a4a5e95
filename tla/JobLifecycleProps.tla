-------------------------- MODULE JobLifecycleProps --------------------------
(* What JobLifecycle promises: to the client that deletes or cancels a job,  *)
(* to the user whose results survive a restart, and to the next job in line. *)
EXTENDS JobLifecycle

WorkerStages == {"idle", "got", "check", "drop", "dropped", "wait", "loadErr", "start",
                 "begun", "running", "merge", "done", "fin", "final", "unlink",
                 "rmdir", "pop", "dead"}
JobStatus == Active \cup Terminal \cup {"none"}

\* Types of the variables of JobLifecycle.
TypeOK ==
  /\ jobs \subseteq Jobs
  /\ status \in [Jobs -> JobStatus]
  /\ deleteRequested \in [Jobs -> BOOLEAN]
  /\ cancelEvents \in [Jobs -> {"absent", "clear", "set"}]
  /\ queue \in Seq(Jobs)
  /\ wpc \in WorkerStages
  /\ wjob \in Jobs \cup {NoJob}
  /\ dying \in BOOLEAN
  /\ dir \in [Jobs -> BOOLEAN]
  /\ meta \in [Jobs -> JobStatus]
  /\ files \in [Jobs -> BOOLEAN]
  /\ upload \in [Jobs -> {"none", "created", "opening", "writing", "accepted",
                          "unlink", "rmdir", "ended"}]
  /\ del \in [Jobs -> {"idle", "flagged", "signaled", "unlink", "rmdir"}]
  /\ can \in [Jobs -> {"idle", "checked"}]
  /\ gcpc \in {"idle", "unlink", "rmdir"}
  /\ gcjob \in Jobs \cup {NoJob}
  /\ restarts \in Nat
  /\ ioErrors \in Nat
  /\ abandoned \subseteq Jobs

-----------------------------------------------------------------------------
\* The stages of execute_job after which its finally clause still looks at
\* delete_requested, and the removal that look leads to.
WillLookAtDelete == {"begun", "running", "merge", "done", "fin", "final", "unlink", "rmdir"}

\* A DELETE is never lost.  delete_job sets delete_requested and then reads
\* status; the worker sets status and then reads delete_requested.  Whoever
\* comes second must see the other: once the 204 is out, the job is in the
\* store only while the worker is still going to remove it (api.py:786-799,
\* runner.py:139, 471-474).
NoLostDelete ==
  \A j \in jobs :
    deleteRequested[j] =>
      \/ del[j] # "idle"
      \/ wjob = j /\ wpc \in WillLookAtDelete

\* A cancel accepted while the job is still in the queue keeps this process from
\* ever running it, however the worker, the engine's model load and a DELETE interleave:
\* the check at the head of the loop body cannot be overtaken (jobs.py:350-351).
AbandonedNeverRuns ==
  \A j \in abandoned : /\ status[j] # "done"
                       /\ ~(wjob = j /\ wpc \in {"wait", "start", "begun", "running", "merge"})

\* What a client may have read as final is what a restart brings back: a settled
\* job nobody is deleting has its status in meta.json (jobs.py:177-183, 354,
\* 375, 386; runner.py:446, 461, 469).
SettledIsPersisted ==
  ioErrors = 0 =>
    \A j \in jobs :
      (status[j] \in Terminal /\ wjob # j /\ ~deleteRequested[j] /\ gcjob # j)
        => dir[j] /\ meta[j] = status[j]

\* A final status on disk never turns into another one: not by a late save of
\* the worker, not by a second run of the same job, not by load_existing after
\* a restart; it can only be deleted (jobs.py:255-264).
FinalResultDurable ==
  [][\A j \in Jobs : meta[j] \in Terminal => meta'[j] \in {meta[j], "none"}]_vars

\* After a restart no job is shown as waiting or running that nobody works on:
\* what is active was submitted, or is being uploaded, since (jobs.py:235-264).
ActiveHasAnOwner ==
  (ioErrors = 0) =>
    \A j \in jobs :
      (status[j] \in Active /\ ~deleteRequested[j]) =>
        \/ upload[j] \notin {"none", "ended"}
        \/ wjob = j
        \/ \E i \in 1..Len(queue) : queue[i] = j

-----------------------------------------------------------------------------
\* The inductive invariant behind NoLostDelete and FinalResultDurable.

WorkerHolds == (wjob = NoJob) <=> wpc \in {"idle", "dead"}

\* Only the worker's job is running, and only inside the try of execute_job.
RunningIsHeld ==
  \A j \in Jobs : status[j] = "running" => wjob = j /\ wpc \in {"begun", "running", "merge"}

\* Nothing is known of an identifier that was never handed out.
UnknownBeforeCreation ==
  \A j \in Jobs : upload[j] = "none" => j \notin jobs /\ ~deleteRequested[j] /\ ~dir[j]

\* A job is submitted once, after its upload, and leaves the queue for good.
SubmittedOnce ==
  /\ \A j \in Jobs : upload[j] \notin {"none", "ended"} => status[j] = "queued"
  /\ wjob \in Jobs => upload[wjob] = "ended"
  /\ \A i \in 1..Len(queue) : /\ upload[queue[i]] = "ended"
                              /\ status[queue[i]] = "queued"
                              /\ queue[i] # wjob
  /\ \A i, k \in 1..Len(queue) : queue[i] = queue[k] => i = k

\* What the worker knows of the status of its job, stage by stage.
StageStatus ==
  /\ wpc \in {"got", "check", "wait", "start"} => status[wjob] = "queued"
  /\ wpc \in {"begun", "running", "merge"} => status[wjob] = "running"
  /\ wpc = "done" => meta[wjob] \notin Terminal

\* A final status on disk is the one in memory; no directory, no meta.json.
MetaAgrees ==
  \A j \in Jobs : /\ meta[j] \in Terminal => status[j] = meta[j]
                  /\ ~dir[j] => meta[j] = "none"

IInv == /\ TypeOK /\ NoLostDelete
        /\ WorkerHolds /\ RunningIsHeld /\ UnknownBeforeCreation
        /\ SubmittedOnce /\ StageStatus /\ MetaAgrees

-----------------------------------------------------------------------------
\* The refinement: what GET /jobs/{id} answers is the in-memory status of a job
\* in the store, and 404 once it is out of it (api.py:297-300).

View == [j \in Jobs |-> IF j \in jobs THEN status[j]
                        ELSE IF upload[j] = "none" THEN "none" ELSE "gone"]

Service == INSTANCE JobService WITH view <- View, WritesMayFail <- MaxIOErrors > 0

\* Handlers, worker, collector and restarts together never show a client a job
\* that goes backwards, settles twice, or returns from a deletion without a restart.
ImplementsService == Service!Spec

-----------------------------------------------------------------------------
\* Every submitted job is eventually settled or removed: a job that fails, hangs
\* in a model load, is cancelled or deleted never stops the queue behind it
\* (jobs.py:339-391); only the death of the worker thread does.
EveryJobSettles ==
  \A j \in Jobs : (\E i \in 1..Len(queue) : queue[i] = j)
                    ~> (j \notin jobs \/ status[j] \in Terminal \/ wpc = "dead")

\* A deletion that was asked for takes the job out of the store, whatever it was
\* doing; only a restart forgets the wish (api.py:786-799, runner.py:471-474).
EveryDeleteCompletes ==
  \A j \in Jobs : (j \in jobs /\ deleteRequested[j])
                    ~> (j \notin jobs \/ ~deleteRequested[j] \/ wpc = "dead")

-----------------------------------------------------------------------------
\* What the repository says of the program and the code does not do.

\* runner.py:464 "isolation per job": whatever happens to one job, the jobs
\* submitted after it are still settled.
JobsAreIsolated ==
  \A j \in Jobs : (\E i \in 1..Len(queue) : queue[i] = j)
                    ~> (j \notin jobs \/ status[j] \in Terminal)
=============================================================================
