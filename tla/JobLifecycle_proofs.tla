------------------------ MODULE JobLifecycle_proofs ------------------------
(* Proofs about JobLifecycle for any set of jobs and any bounds. *)
EXTENDS JobLifecycleProps, TLAPS

USE DEF storeVars, workerVars, diskVars, handlerVars, gcVars, countVars,
        WorkerTo, WorkerMark, WorkerDies, WorkerFrame, SetEvent, Save, Unlink,
        RmdirAndRemove, Active, Terminal, JobStatus, WorkerStages

\* The worker's queue starts as a queue of jobs.
LEMMA EmptyQueue == <<>> \in Seq(Jobs)
OBVIOUS

\* Worker.run takes a job off a queue that holds something, and leaves a queue.
LEMMA HeadOfQueue ==
  ASSUME NEW q \in Seq(Jobs), q # <<>>
  PROVE  /\ Head(q) \in Jobs
         /\ Tail(q) \in Seq(Jobs)
OBVIOUS

\* A process started on an empty data directory is well typed.
LEMMA TypeInit == Init => TypeOK
<1> SUFFICES ASSUME Init PROVE TypeOK
  OBVIOUS
<1>1. queue \in Seq(Jobs)
  BY EmptyQueue DEF Init
<1>2. jobs \subseteq Jobs /\ abandoned \subseteq Jobs
  BY DEF Init
<1>3. restarts \in Nat /\ ioErrors \in Nat
  BY DEF Init
<1> QED
  BY <1>1, <1>2, <1>3 DEF Init, TypeOK

\* No statement of a handler, the worker, the collector or a restart breaks a type.
LEMMA TypeStep == TypeOK /\ [Next]_vars => TypeOK'
<1> SUFFICES ASSUME TypeOK, [Next]_vars PROVE TypeOK'
  OBVIOUS
<1> USE ConstantsAssumption DEF TypeOK
<1>1. ASSUME NEW j \in Jobs, CreateJob(j) PROVE TypeOK'
  BY <1>1 DEF CreateJob
<1>2. ASSUME NEW j \in Jobs, CreateSave(j) PROVE TypeOK'
  BY <1>2 DEF CreateSave
<1>3. ASSUME NEW j \in Jobs, UploadOpen(j) PROVE TypeOK'
  BY <1>3 DEF UploadOpen
<1>4. ASSUME NEW j \in Jobs, UploadAccepted(j) PROVE TypeOK'
  BY <1>4 DEF UploadAccepted
<1>5. ASSUME NEW j \in Jobs, UploadRejected(j) PROVE TypeOK'
  BY <1>5 DEF UploadRejected
<1>6. ASSUME NEW j \in Jobs, UploadUnlink(j) PROVE TypeOK'
  BY <1>6 DEF UploadUnlink
<1>7. ASSUME NEW j \in Jobs, UploadRmdir(j) PROVE TypeOK'
  BY <1>7 DEF UploadRmdir
<1>8. ASSUME NEW j \in Jobs, UploadRaises(j) PROVE TypeOK'
  BY <1>8 DEF UploadRaises
<1>9. ASSUME NEW j \in Jobs, Submit(j) PROVE TypeOK'
  BY <1>9 DEF Submit
<1>10. ASSUME NEW j \in Jobs, CancelCheck(j) PROVE TypeOK'
  BY <1>10 DEF CancelCheck
<1>11. ASSUME NEW j \in Jobs, CancelSet(j) PROVE TypeOK'
  BY <1>11 DEF CancelSet
<1>12. ASSUME NEW j \in Jobs, DeleteFlag(j) PROVE TypeOK'
  BY <1>12 DEF DeleteFlag
<1>13. ASSUME NEW j \in Jobs, DeleteSignal(j) PROVE TypeOK'
  BY <1>13 DEF DeleteSignal
<1>14. ASSUME NEW j \in Jobs, DeleteDecide(j) PROVE TypeOK'
  BY <1>14 DEF DeleteDecide
<1>15. ASSUME NEW j \in Jobs, DeleteUnlink(j) PROVE TypeOK'
  BY <1>15 DEF DeleteUnlink
<1>16. ASSUME NEW j \in Jobs, DeleteRmdir(j) PROVE TypeOK'
  BY <1>16 DEF DeleteRmdir
<1>17. ASSUME NEW j \in Jobs, GCPick(j) PROVE TypeOK'
  BY <1>17 DEF GCPick
<1>18. CASE WorkerGet
  BY <1>18, HeadOfQueue DEF WorkerGet
<1>19. CASE WorkerLookup
  <2>1. cancelEvents' \in [Jobs -> {"absent", "clear", "set"}]
    <3>1. CASE wjob \in jobs
      BY <1>19, <3>1 DEF WorkerLookup
    <3>2. CASE wjob \notin jobs
      BY <1>19, <3>2 DEF WorkerLookup
    <3> QED
      BY <3>1, <3>2
  <2>2. wpc' \in WorkerStages
    BY <1>19 DEF WorkerLookup
  <2> QED
    BY <1>19, <2>1, <2>2 DEF WorkerLookup
<1>20. CASE WorkerCheck
  BY <1>20 DEF WorkerCheck
<1>21. CASE WorkerReady
  BY <1>21 DEF WorkerReady
<1>22. CASE WorkerWaitCanceled
  BY <1>22 DEF WorkerWaitCanceled
<1>23. CASE WorkerLoadFails
  BY <1>23 DEF WorkerLoadFails
<1>24. CASE WorkerDropSave
  BY <1>24 DEF WorkerDropSave
<1>25. CASE WorkerDropped
  BY <1>25 DEF WorkerDropped
<1>26. CASE RunBegin
  BY <1>26 DEF RunBegin
<1>27. CASE RunFirstSave
  BY <1>27 DEF RunFirstSave
<1>28. CASE RunPassLastCheck
  BY <1>28 DEF RunPassLastCheck
<1>29. CASE RunCanceled
  BY <1>29 DEF RunCanceled
<1>30. CASE RunFails
  BY <1>30 DEF RunFails
<1>31. CASE RunDone
  BY <1>31 DEF RunDone
<1>32. CASE RunFinalSave
  BY <1>32 DEF RunFinalSave
<1>33. CASE RunFinally
  BY <1>33 DEF RunFinally
<1>34. CASE WorkerUnlink
  BY <1>34 DEF WorkerUnlink
<1>35. CASE WorkerRmdir
  BY <1>35 DEF WorkerRmdir
<1>36. CASE WorkerPop
  BY <1>36 DEF WorkerPop
<1>37. CASE RunProgress
  BY <1>37 DEF RunProgress
<1>38. CASE WorkerSaveFails
  <2>1. ioErrors' \in Nat
    BY <1>38 DEF WorkerSaveFails
  <2>2. CASE wpc \in {"begun", "running", "done"} /\ WorkerMark("error", "fin")
    BY <1>38, <2>1, <2>2 DEF WorkerSaveFails
  <2>3. CASE /\ wpc = "fin" /\ wpc' = "final" /\ wjob' = wjob /\ dying' = TRUE
             /\ UNCHANGED storeVars
    BY <1>38, <2>1, <2>3 DEF WorkerSaveFails
  <2>4. CASE wpc \in {"drop", "loadErr"} /\ WorkerDies /\ UNCHANGED storeVars
    BY <1>38, <2>1, <2>4 DEF WorkerSaveFails
  <2> QED
    BY <1>38, <2>2, <2>3, <2>4 DEF WorkerSaveFails
<1>39. CASE GCUnlink
  BY <1>39 DEF GCUnlink
<1>40. CASE GCRmdir
  BY <1>40 DEF GCRmdir
<1>41. CASE Restart
  <2>1. queue' \in Seq(Jobs)
    BY <1>41, EmptyQueue DEF Restart
  <2>2. restarts' \in Nat /\ ioErrors' \in Nat
    BY <1>41 DEF Restart
  <2>3. status' \in [Jobs -> JobStatus] /\ meta' \in [Jobs -> JobStatus]
    BY <1>41 DEF Restart, RestoredStatus
  <2>4. jobs' \subseteq Jobs /\ abandoned' \subseteq Jobs /\ UNCHANGED <<dir, files>>
    BY <1>41 DEF Restart
  <2>5. /\ deleteRequested' \in [Jobs -> BOOLEAN]
        /\ cancelEvents' \in [Jobs -> {"absent", "clear", "set"}]
        /\ del' \in [Jobs -> {"idle", "flagged", "signaled", "unlink", "rmdir"}]
        /\ can' \in [Jobs -> {"idle", "checked"}]
    BY <1>41 DEF Restart
  <2>6. upload' \in [Jobs -> {"none", "created", "opening", "writing", "accepted",
                             "unlink", "rmdir", "ended"}]
    BY <1>41 DEF Restart
  <2>7. /\ wpc' = "idle" /\ wjob' = NoJob /\ dying' = FALSE
        /\ gcpc' = "idle" /\ gcjob' = NoJob
    BY <1>41 DEF Restart
  <2> QED
    BY <2>1, <2>2, <2>3, <2>4, <2>5, <2>6, <2>7
<1>42. CASE UNCHANGED vars
  BY <1>42 DEF vars
<1> QED
  BY <1>1, <1>2, <1>3, <1>4, <1>5, <1>6, <1>7, <1>8, <1>9, <1>10, <1>11, <1>12, <1>13, <1>14,
     <1>15, <1>16, <1>17, <1>18, <1>19, <1>20, <1>21, <1>22, <1>23, <1>24, <1>25, <1>26, <1>27,
     <1>28, <1>29, <1>30, <1>31, <1>32, <1>33, <1>34, <1>35, <1>36, <1>37, <1>38, <1>39, <1>40,
     <1>41, <1>42 DEF Next, Upload, DeleteStep, WorkerStep

\* The variables keep their types.
THEOREM TypeCorrect == Spec => []TypeOK
BY TypeInit, TypeStep, PTL DEF Spec

-----------------------------------------------------------------------------
\* The inductive invariant holds before the first request.
LEMMA IInvInit == Init => IInv
BY TypeInit, ConstantsAssumption
   DEF Init, IInv, NoLostDelete, WorkerHolds, RunningIsHeld, UnknownBeforeCreation,
       SubmittedOnce, StageStatus, MetaAgrees

\* load_existing and the empty structures of create_app establish the invariant
\* again, whatever moment the process was killed at.
LEMMA RestartKeeps ==
  ASSUME TypeOK, TypeOK', IInv, Restart
  PROVE  IInv'
<1>1. queue' = <<>> /\ wpc' = "idle" /\ wjob' = NoJob
  BY DEF Restart
<1>2. \A j \in Jobs : /\ status'[j] # "running" /\ ~deleteRequested'[j]
                      /\ upload'[j] \in {"none", "ended"}
                      /\ upload'[j] = "none" => upload[j] = "none"
  BY DEF Restart, RestoredStatus, TypeOK
<1>3. MetaAgrees'
  BY DEF Restart, RestoredStatus, Restored, IInv, MetaAgrees, TypeOK
<1>4. UnknownBeforeCreation'
  <2>1. \A j \in Jobs : upload'[j] = "none" => ~dir[j]
    BY <1>2 DEF IInv, UnknownBeforeCreation
  <2>2. jobs' = {j \in Jobs : Restored(j)} /\ dir' = dir
    BY DEF Restart
  <2> QED
    BY <1>2, <2>1, <2>2 DEF UnknownBeforeCreation, Restored
<1>5. NoLostDelete'
  BY <1>2 DEF NoLostDelete, TypeOK
<1>6. RunningIsHeld' /\ WorkerHolds' /\ StageStatus'
  BY <1>1, <1>2 DEF RunningIsHeld, WorkerHolds, StageStatus
<1>7. SubmittedOnce'
  <2>1. Len(queue') = 0
    BY <1>1
  <2>2. wjob' \notin Jobs
    BY <1>1, ConstantsAssumption
  <2> QED
    BY <1>2, <2>1, <2>2 DEF SubmittedOnce
<1> QED
  BY <1>3, <1>4, <1>5, <1>6, <1>7 DEF IInv

\* The invariant is inductive: one step per statement of handler, worker and collector.
LEMMA IInvStep == IInv /\ [Next]_vars => IInv'
<1> SUFFICES ASSUME IInv, [Next]_vars PROVE IInv'
  OBVIOUS
<1>0. TypeOK /\ TypeOK'
  BY TypeStep DEF IInv
<1> USE <1>0, ConstantsAssumption
    DEF TypeOK, IInv, NoLostDelete, WorkerHolds, RunningIsHeld, UnknownBeforeCreation,
        SubmittedOnce, StageStatus, MetaAgrees, WillLookAtDelete
<1>1. ASSUME NEW j \in Jobs, CreateJob(j) PROVE IInv'
  BY <1>1 DEF CreateJob
<1>2. ASSUME NEW j \in Jobs, CreateSave(j) PROVE IInv'
  BY <1>2 DEF CreateSave
<1>3. ASSUME NEW j \in Jobs, UploadOpen(j) PROVE IInv'
  BY <1>3 DEF UploadOpen
<1>4. ASSUME NEW j \in Jobs, UploadAccepted(j) PROVE IInv'
  BY <1>4 DEF UploadAccepted
<1>5. ASSUME NEW j \in Jobs, UploadRejected(j) PROVE IInv'
  BY <1>5 DEF UploadRejected
<1>6. ASSUME NEW j \in Jobs, UploadUnlink(j) PROVE IInv'
  BY <1>6 DEF UploadUnlink
<1>7. ASSUME NEW j \in Jobs, UploadRmdir(j) PROVE IInv'
  BY <1>7 DEF UploadRmdir
<1>8. ASSUME NEW j \in Jobs, UploadRaises(j) PROVE IInv'
  BY <1>8 DEF UploadRaises
<1>9. ASSUME NEW j \in Jobs, Submit(j) PROVE IInv'
  BY <1>9 DEF Submit
<1>10. ASSUME NEW j \in Jobs, CancelCheck(j) PROVE IInv'
  BY <1>10 DEF CancelCheck
<1>11. ASSUME NEW j \in Jobs, CancelSet(j) PROVE IInv'
  BY <1>11 DEF CancelSet
<1>12. ASSUME NEW j \in Jobs, DeleteFlag(j) PROVE IInv'
  BY <1>12 DEF DeleteFlag
<1>13. ASSUME NEW j \in Jobs, DeleteSignal(j) PROVE IInv'
  BY <1>13 DEF DeleteSignal
<1>14. ASSUME NEW j \in Jobs, DeleteDecide(j) PROVE IInv'
  BY <1>14 DEF DeleteDecide
<1>15. ASSUME NEW j \in Jobs, DeleteUnlink(j) PROVE IInv'
  BY <1>15 DEF DeleteUnlink
<1>16. ASSUME NEW j \in Jobs, DeleteRmdir(j) PROVE IInv'
  BY <1>16 DEF DeleteRmdir
<1>17. ASSUME NEW j \in Jobs, GCPick(j) PROVE IInv'
  BY <1>17 DEF GCPick
<1>18. CASE WorkerGet
  BY <1>18 DEF WorkerGet
<1>19. CASE WorkerLookup
  BY <1>19 DEF WorkerLookup
<1>20. CASE WorkerCheck
  BY <1>20 DEF WorkerCheck
<1>21. CASE WorkerReady
  BY <1>21 DEF WorkerReady
<1>22. CASE WorkerWaitCanceled
  BY <1>22 DEF WorkerWaitCanceled
<1>23. CASE WorkerLoadFails
  BY <1>23 DEF WorkerLoadFails
<1>24. CASE WorkerDropSave
  BY <1>24 DEF WorkerDropSave
<1>25. CASE WorkerDropped
  BY <1>25 DEF WorkerDropped
<1>26. CASE RunBegin
  BY <1>26 DEF RunBegin
<1>27. CASE RunFirstSave
  BY <1>27 DEF RunFirstSave
<1>28. CASE RunPassLastCheck
  BY <1>28 DEF RunPassLastCheck
<1>29. CASE RunCanceled
  BY <1>29 DEF RunCanceled
<1>30. CASE RunFails
  BY <1>30 DEF RunFails
<1>31. CASE RunDone
  BY <1>31 DEF RunDone
<1>32. CASE RunFinalSave
  BY <1>32 DEF RunFinalSave
<1>33. CASE RunFinally
  BY <1>33 DEF RunFinally
<1>34. CASE WorkerUnlink
  BY <1>34 DEF WorkerUnlink
<1>35. CASE WorkerRmdir
  BY <1>35 DEF WorkerRmdir
<1>36. CASE WorkerPop
  BY <1>36 DEF WorkerPop
<1>37. CASE RunProgress
  BY <1>37 DEF RunProgress
<1>38. CASE WorkerSaveFails
  BY <1>38 DEF WorkerSaveFails
<1>39. CASE GCUnlink
  BY <1>39 DEF GCUnlink
<1>40. CASE GCRmdir
  BY <1>40 DEF GCRmdir
<1>41. CASE Restart
  BY <1>41, RestartKeeps
<1>42. CASE UNCHANGED vars
  BY <1>42 DEF vars
<1> QED
  BY <1>1, <1>2, <1>3, <1>4, <1>5, <1>6, <1>7, <1>8, <1>9, <1>10, <1>11, <1>12, <1>13, <1>14,
     <1>15, <1>16, <1>17, <1>18, <1>19, <1>20, <1>21, <1>22, <1>23, <1>24, <1>25, <1>26, <1>27,
     <1>28, <1>29, <1>30, <1>31, <1>32, <1>33, <1>34, <1>35, <1>36, <1>37, <1>38, <1>39, <1>40,
     <1>41, <1>42 DEF Next, Upload, DeleteStep, WorkerStep

\* A DELETE is never lost, for any set of jobs.
THEOREM DeleteIsNotLost == Spec => []NoLostDelete
<1>1. IInv => NoLostDelete
  BY DEF IInv
<1> QED
  BY IInvInit, IInvStep, <1>1, PTL DEF Spec

-----------------------------------------------------------------------------
\* Only a save writes meta.json, and what it writes over a final status is that
\* status: MetaAgrees says so of the job it is called for.
LEMMA DurableStep ==
  IInv /\ [Next]_vars => \A j \in Jobs : meta[j] \in Terminal => meta'[j] \in {meta[j], "none"}
<1> SUFFICES ASSUME IInv, [Next]_vars,
                    NEW k \in Jobs, meta[k] \in Terminal
             PROVE  meta'[k] \in {meta[k], "none"}
  OBVIOUS
<1> USE ConstantsAssumption DEF IInv, TypeOK, MetaAgrees
<1>1. ASSUME NEW j \in Jobs, CreateSave(j) PROVE meta'[k] \in {meta[k], "none"}
  BY <1>1 DEF CreateSave
<1>2. ASSUME NEW j \in Jobs, UploadUnlink(j) \/ DeleteUnlink(j)
      PROVE meta'[k] \in {meta[k], "none"}
  BY <1>2 DEF UploadUnlink, DeleteUnlink
<1>3. CASE WorkerDropSave \/ RunFirstSave \/ RunFinalSave \/ RunProgress
  BY <1>3 DEF WorkerDropSave, RunFirstSave, RunFinalSave, RunProgress
<1>4. CASE WorkerUnlink \/ GCUnlink
  BY <1>4 DEF WorkerUnlink, GCUnlink
<1>5. CASE Restart
  BY <1>5 DEF Restart, Restored, RestoredStatus
<1>6. CASE UNCHANGED meta
  BY <1>6
<1> QED
  BY <1>1, <1>2, <1>3, <1>4, <1>5, <1>6
  DEF Next, Upload, DeleteStep, WorkerStep, vars, CreateJob, UploadOpen, UploadAccepted,
      UploadRejected, UploadRmdir, UploadRaises, Submit, CancelCheck, CancelSet, DeleteFlag,
      DeleteSignal, DeleteDecide, DeleteRmdir, GCPick, WorkerGet, WorkerLookup, WorkerCheck,
      WorkerReady, WorkerWaitCanceled, WorkerLoadFails, WorkerDropped, RunBegin,
      RunPassLastCheck, RunCanceled, RunFails, RunDone, RunFinally, WorkerRmdir, WorkerPop,
      WorkerSaveFails, GCRmdir

\* A final status on disk never turns into another one.
THEOREM FinalStatusIsDurable == Spec => FinalResultDurable
<1>1. IInv /\ [Next]_vars =>
        [\A j \in Jobs : meta[j] \in Terminal => meta'[j] \in {meta[j], "none"}]_vars
  BY DurableStep
<1> QED
  BY IInvInit, IInvStep, <1>1, PTL DEF Spec, FinalResultDurable
-----------------------------------------------------------------------------
(***************************************************************************)
(* The rest of what JobLifecycle promises: a job canceled in the queue     *)
(* never runs, a settled job is on disk, an active job has somebody who    *)
(* works on it; and JobLifecycle implements JobService, the job resource   *)
(* as a client sees it.                                                    *)
(***************************************************************************)

InQueue(j) == \E i \in 1..Len(queue) : queue[i] = j

\* A job that can be looked up has a status; the worker knows the one of its job.
StatusIsKnown ==
  /\ \A j \in jobs : status[j] # "none"
  /\ wpc = "done" => status[wjob] = "done"
  /\ wpc \in {"drop", "dropped", "loadErr", "done", "fin", "final", "unlink", "rmdir"} =>
       status[wjob] \in Terminal
  /\ wpc = "pop" => wjob \notin jobs \/ status[wjob] \in Terminal

\* Who removes a job: a DELETE that has flagged it, the worker for a DELETE, the collector.
RemovalIsDue ==
  /\ \A j \in Jobs : del[j] # "idle" => deleteRequested[j]
  /\ wpc \in {"unlink", "rmdir"} => deleteRequested[wjob]
  /\ gcpc = "idle" => gcjob = NoJob
  /\ gcpc # "idle" => gcjob \in Jobs /\ status[gcjob] \in Terminal /\ upload[gcjob] = "ended"

\* Nobody else takes a directory or the upload away.
DirectoryStays ==
  /\ \A j \in jobs : ~deleteRequested[j] /\ gcjob # j /\ upload[j] \notin {"unlink", "rmdir"} => dir[j]
  /\ \A j \in Jobs : ~deleteRequested[j] /\ upload[j] \in {"writing", "accepted"} => files[j]

\* A job canceled in the queue keeps its event until the worker has looked at it.
AbandonedIsSeen ==
  \A j \in abandoned :
    /\ upload[j] = "ended" /\ status[j] # "done"
    /\ InQueue(j) \/ (wjob = j /\ wpc \in {"got", "check"}) => cancelEvents[j] = "set"
    /\ ~(wjob = j /\ wpc \in {"wait", "start", "begun", "running", "merge"})

\* The worker saves the status it has given its job before it leaves it.
SavedBeforeLeaving ==
  ioErrors = 0 /\ wpc \in {"dropped", "final", "pop"} /\ wjob \in jobs
  /\ ~deleteRequested[wjob] /\ gcjob # wjob => meta[wjob] = status[wjob]

Guarantees == /\ StatusIsKnown /\ RemovalIsDue /\ DirectoryStays /\ AbandonedIsSeen
              /\ SavedBeforeLeaving /\ SettledIsPersisted /\ ActiveHasAnOwner

\* Before the first request.
LEMMA GuaranteesInit == Init => Guarantees
BY ConstantsAssumption
   DEF Init, Guarantees, StatusIsKnown, RemovalIsDue, DirectoryStays, AbandonedIsSeen,
       SavedBeforeLeaving, SettledIsPersisted, ActiveHasAnOwner

\* Statuses, removals and directories.
LEMMA RemovalStep ==
  IInv /\ StatusIsKnown /\ RemovalIsDue /\ DirectoryStays /\ [Next]_vars
    => StatusIsKnown' /\ RemovalIsDue' /\ DirectoryStays'
<1> SUFFICES ASSUME IInv, StatusIsKnown, RemovalIsDue, DirectoryStays, [Next]_vars
             PROVE  StatusIsKnown' /\ RemovalIsDue' /\ DirectoryStays'
  OBVIOUS
<1>0. TypeOK /\ TypeOK'
  BY TypeStep DEF IInv
<1> USE <1>0, ConstantsAssumption
    DEF TypeOK, IInv, WorkerHolds, RunningIsHeld, UnknownBeforeCreation, SubmittedOnce,
        StageStatus, MetaAgrees, StatusIsKnown, RemovalIsDue, DirectoryStays
<1>1. ASSUME NEW j \in Jobs, CreateJob(j) PROVE StatusIsKnown' /\ RemovalIsDue' /\ DirectoryStays'
  BY <1>1 DEF CreateJob
<1>2. ASSUME NEW j \in Jobs, CreateSave(j) PROVE StatusIsKnown' /\ RemovalIsDue' /\ DirectoryStays'
  BY <1>2 DEF CreateSave
<1>3. ASSUME NEW j \in Jobs, UploadOpen(j) PROVE StatusIsKnown' /\ RemovalIsDue' /\ DirectoryStays'
  BY <1>3 DEF UploadOpen
<1>4. ASSUME NEW j \in Jobs, UploadAccepted(j) PROVE StatusIsKnown' /\ RemovalIsDue' /\ DirectoryStays'
  BY <1>4 DEF UploadAccepted
<1>5. ASSUME NEW j \in Jobs, UploadRejected(j) PROVE StatusIsKnown' /\ RemovalIsDue' /\ DirectoryStays'
  BY <1>5 DEF UploadRejected
<1>6. ASSUME NEW j \in Jobs, UploadUnlink(j) PROVE StatusIsKnown' /\ RemovalIsDue' /\ DirectoryStays'
  BY <1>6 DEF UploadUnlink
<1>7. ASSUME NEW j \in Jobs, UploadRmdir(j) PROVE StatusIsKnown' /\ RemovalIsDue' /\ DirectoryStays'
  BY <1>7 DEF UploadRmdir
<1>8. ASSUME NEW j \in Jobs, UploadRaises(j) PROVE StatusIsKnown' /\ RemovalIsDue' /\ DirectoryStays'
  BY <1>8 DEF UploadRaises
<1>9. ASSUME NEW j \in Jobs, Submit(j) PROVE StatusIsKnown' /\ RemovalIsDue' /\ DirectoryStays'
  BY <1>9 DEF Submit
<1>10. ASSUME NEW j \in Jobs, CancelCheck(j) PROVE StatusIsKnown' /\ RemovalIsDue' /\ DirectoryStays'
  BY <1>10 DEF CancelCheck
<1>11. ASSUME NEW j \in Jobs, CancelSet(j) PROVE StatusIsKnown' /\ RemovalIsDue' /\ DirectoryStays'
  BY <1>11 DEF CancelSet
<1>12. ASSUME NEW j \in Jobs, DeleteFlag(j) PROVE StatusIsKnown' /\ RemovalIsDue' /\ DirectoryStays'
  BY <1>12 DEF DeleteFlag
<1>13. ASSUME NEW j \in Jobs, DeleteSignal(j) PROVE StatusIsKnown' /\ RemovalIsDue' /\ DirectoryStays'
  BY <1>13 DEF DeleteSignal
<1>14. ASSUME NEW j \in Jobs, DeleteDecide(j) PROVE StatusIsKnown' /\ RemovalIsDue' /\ DirectoryStays'
  BY <1>14 DEF DeleteDecide
<1>15. ASSUME NEW j \in Jobs, DeleteUnlink(j) PROVE StatusIsKnown' /\ RemovalIsDue' /\ DirectoryStays'
  BY <1>15 DEF DeleteUnlink
<1>16. ASSUME NEW j \in Jobs, DeleteRmdir(j) PROVE StatusIsKnown' /\ RemovalIsDue' /\ DirectoryStays'
  BY <1>16 DEF DeleteRmdir
<1>17. ASSUME NEW j \in Jobs, GCPick(j) PROVE StatusIsKnown' /\ RemovalIsDue' /\ DirectoryStays'
  BY <1>17 DEF GCPick
<1>18. CASE WorkerGet
  BY <1>18 DEF WorkerGet
<1>19. CASE WorkerLookup
  BY <1>19 DEF WorkerLookup
<1>20. CASE WorkerCheck
  BY <1>20 DEF WorkerCheck
<1>21. CASE WorkerReady
  BY <1>21 DEF WorkerReady
<1>22. CASE WorkerWaitCanceled
  BY <1>22 DEF WorkerWaitCanceled
<1>23. CASE WorkerLoadFails
  BY <1>23 DEF WorkerLoadFails
<1>24. CASE WorkerDropSave
  BY <1>24 DEF WorkerDropSave
<1>25. CASE WorkerDropped
  BY <1>25 DEF WorkerDropped
<1>26. CASE RunBegin
  BY <1>26 DEF RunBegin
<1>27. CASE RunFirstSave
  BY <1>27 DEF RunFirstSave
<1>28. CASE RunPassLastCheck
  BY <1>28 DEF RunPassLastCheck
<1>29. CASE RunCanceled
  BY <1>29 DEF RunCanceled
<1>30. CASE RunFails
  BY <1>30 DEF RunFails
<1>31. CASE RunDone
  BY <1>31 DEF RunDone
<1>32. CASE RunFinalSave
  BY <1>32 DEF RunFinalSave
<1>33. CASE RunFinally
  BY <1>33 DEF RunFinally
<1>34. CASE WorkerUnlink
  BY <1>34 DEF WorkerUnlink
<1>35. CASE WorkerRmdir
  BY <1>35 DEF WorkerRmdir
<1>36. CASE WorkerPop
  BY <1>36 DEF WorkerPop
<1>37. CASE RunProgress
  BY <1>37 DEF RunProgress
<1>38. CASE WorkerSaveFails
  BY <1>38 DEF WorkerSaveFails
<1>39. CASE GCUnlink
  BY <1>39 DEF GCUnlink
<1>40. CASE GCRmdir
  BY <1>40 DEF GCRmdir
<1>41. CASE Restart
  BY <1>41 DEF Restart, Restored, RestoredStatus
<1>42. CASE UNCHANGED vars
  BY <1>42 DEF vars
<1> QED
  BY <1>1, <1>2, <1>3, <1>4, <1>5, <1>6, <1>7, <1>8, <1>9, <1>10, <1>11, <1>12, <1>13, <1>14,
     <1>15, <1>16, <1>17, <1>18, <1>19, <1>20, <1>21, <1>22, <1>23, <1>24, <1>25, <1>26, <1>27,
     <1>28, <1>29, <1>30, <1>31, <1>32, <1>33, <1>34, <1>35, <1>36, <1>37, <1>38, <1>39, <1>40,
     <1>41, <1>42
     DEF Next, Upload, DeleteStep, WorkerStep

\* What is settled is on disk.
LEMMA PersistedStep ==
  IInv /\ StatusIsKnown /\ RemovalIsDue /\ DirectoryStays /\ SavedBeforeLeaving
    /\ SettledIsPersisted /\ [Next]_vars
    => SavedBeforeLeaving' /\ SettledIsPersisted'
<1> SUFFICES ASSUME IInv, StatusIsKnown, RemovalIsDue, DirectoryStays,
                      SavedBeforeLeaving, SettledIsPersisted, [Next]_vars
             PROVE  SavedBeforeLeaving' /\ SettledIsPersisted'
  OBVIOUS
<1>0. TypeOK /\ TypeOK'
  BY TypeStep DEF IInv
<1> USE <1>0, ConstantsAssumption
    DEF TypeOK, IInv, WorkerHolds, RunningIsHeld, UnknownBeforeCreation, SubmittedOnce,
        StageStatus, MetaAgrees, StatusIsKnown, RemovalIsDue, DirectoryStays,
        SavedBeforeLeaving, SettledIsPersisted
<1>1. ASSUME NEW j \in Jobs, CreateJob(j) PROVE SavedBeforeLeaving' /\ SettledIsPersisted'
  BY <1>1 DEF CreateJob
<1>2. ASSUME NEW j \in Jobs, CreateSave(j) PROVE SavedBeforeLeaving' /\ SettledIsPersisted'
  BY <1>2 DEF CreateSave
<1>3. ASSUME NEW j \in Jobs, UploadOpen(j) PROVE SavedBeforeLeaving' /\ SettledIsPersisted'
  BY <1>3 DEF UploadOpen
<1>4. ASSUME NEW j \in Jobs, UploadAccepted(j) PROVE SavedBeforeLeaving' /\ SettledIsPersisted'
  BY <1>4 DEF UploadAccepted
<1>5. ASSUME NEW j \in Jobs, UploadRejected(j) PROVE SavedBeforeLeaving' /\ SettledIsPersisted'
  BY <1>5 DEF UploadRejected
<1>6. ASSUME NEW j \in Jobs, UploadUnlink(j) PROVE SavedBeforeLeaving' /\ SettledIsPersisted'
  BY <1>6 DEF UploadUnlink
<1>7. ASSUME NEW j \in Jobs, UploadRmdir(j) PROVE SavedBeforeLeaving' /\ SettledIsPersisted'
  BY <1>7 DEF UploadRmdir
<1>8. ASSUME NEW j \in Jobs, UploadRaises(j) PROVE SavedBeforeLeaving' /\ SettledIsPersisted'
  BY <1>8 DEF UploadRaises
<1>9. ASSUME NEW j \in Jobs, Submit(j) PROVE SavedBeforeLeaving' /\ SettledIsPersisted'
  BY <1>9 DEF Submit
<1>10. ASSUME NEW j \in Jobs, CancelCheck(j) PROVE SavedBeforeLeaving' /\ SettledIsPersisted'
  BY <1>10 DEF CancelCheck
<1>11. ASSUME NEW j \in Jobs, CancelSet(j) PROVE SavedBeforeLeaving' /\ SettledIsPersisted'
  BY <1>11 DEF CancelSet
<1>12. ASSUME NEW j \in Jobs, DeleteFlag(j) PROVE SavedBeforeLeaving' /\ SettledIsPersisted'
  BY <1>12 DEF DeleteFlag
<1>13. ASSUME NEW j \in Jobs, DeleteSignal(j) PROVE SavedBeforeLeaving' /\ SettledIsPersisted'
  BY <1>13 DEF DeleteSignal
<1>14. ASSUME NEW j \in Jobs, DeleteDecide(j) PROVE SavedBeforeLeaving' /\ SettledIsPersisted'
  BY <1>14 DEF DeleteDecide
<1>15. ASSUME NEW j \in Jobs, DeleteUnlink(j) PROVE SavedBeforeLeaving' /\ SettledIsPersisted'
  BY <1>15 DEF DeleteUnlink
<1>16. ASSUME NEW j \in Jobs, DeleteRmdir(j) PROVE SavedBeforeLeaving' /\ SettledIsPersisted'
  BY <1>16 DEF DeleteRmdir
<1>17. ASSUME NEW j \in Jobs, GCPick(j) PROVE SavedBeforeLeaving' /\ SettledIsPersisted'
  BY <1>17 DEF GCPick
<1>18. CASE WorkerGet
  BY <1>18 DEF WorkerGet
<1>19. CASE WorkerLookup
  BY <1>19 DEF WorkerLookup
<1>20. CASE WorkerCheck
  BY <1>20 DEF WorkerCheck
<1>21. CASE WorkerReady
  BY <1>21 DEF WorkerReady
<1>22. CASE WorkerWaitCanceled
  BY <1>22 DEF WorkerWaitCanceled
<1>23. CASE WorkerLoadFails
  BY <1>23 DEF WorkerLoadFails
<1>24. CASE WorkerDropSave
  BY <1>24 DEF WorkerDropSave
<1>25. CASE WorkerDropped
  BY <1>25 DEF WorkerDropped
<1>26. CASE RunBegin
  BY <1>26 DEF RunBegin
<1>27. CASE RunFirstSave
  BY <1>27 DEF RunFirstSave
<1>28. CASE RunPassLastCheck
  BY <1>28 DEF RunPassLastCheck
<1>29. CASE RunCanceled
  BY <1>29 DEF RunCanceled
<1>30. CASE RunFails
  BY <1>30 DEF RunFails
<1>31. CASE RunDone
  BY <1>31 DEF RunDone
<1>32. CASE RunFinalSave
  BY <1>32 DEF RunFinalSave
<1>33. CASE RunFinally
  BY <1>33 DEF RunFinally
<1>34. CASE WorkerUnlink
  BY <1>34 DEF WorkerUnlink
<1>35. CASE WorkerRmdir
  BY <1>35 DEF WorkerRmdir
<1>36. CASE WorkerPop
  BY <1>36 DEF WorkerPop
<1>37. CASE RunProgress
  BY <1>37 DEF RunProgress
<1>38. CASE WorkerSaveFails
  BY <1>38 DEF WorkerSaveFails
<1>39. CASE GCUnlink
  BY <1>39 DEF GCUnlink
<1>40. CASE GCRmdir
  BY <1>40 DEF GCRmdir
<1>41. CASE Restart
  BY <1>41 DEF Restart, Restored, RestoredStatus
<1>42. CASE UNCHANGED vars
  BY <1>42 DEF vars
<1> QED
  BY <1>1, <1>2, <1>3, <1>4, <1>5, <1>6, <1>7, <1>8, <1>9, <1>10, <1>11, <1>12, <1>13, <1>14,
     <1>15, <1>16, <1>17, <1>18, <1>19, <1>20, <1>21, <1>22, <1>23, <1>24, <1>25, <1>26, <1>27,
     <1>28, <1>29, <1>30, <1>31, <1>32, <1>33, <1>34, <1>35, <1>36, <1>37, <1>38, <1>39, <1>40,
     <1>41, <1>42
     DEF Next, Upload, DeleteStep, WorkerStep

\* A job canceled in the queue is dropped when the worker reaches it.
LEMMA AbandonedStep ==
  IInv /\ StatusIsKnown /\ AbandonedIsSeen /\ [Next]_vars => AbandonedIsSeen'
<1> SUFFICES ASSUME IInv, StatusIsKnown, AbandonedIsSeen, [Next]_vars
             PROVE  AbandonedIsSeen'
  OBVIOUS
<1>0. TypeOK /\ TypeOK'
  BY TypeStep DEF IInv
<1> USE <1>0, ConstantsAssumption
    DEF TypeOK, IInv, WorkerHolds, RunningIsHeld, UnknownBeforeCreation, SubmittedOnce,
        StageStatus, MetaAgrees, StatusIsKnown, AbandonedIsSeen, InQueue
<1>1. ASSUME NEW j \in Jobs, CreateJob(j) PROVE AbandonedIsSeen'
  BY <1>1 DEF CreateJob
<1>2. ASSUME NEW j \in Jobs, CreateSave(j) PROVE AbandonedIsSeen'
  BY <1>2 DEF CreateSave
<1>3. ASSUME NEW j \in Jobs, UploadOpen(j) PROVE AbandonedIsSeen'
  BY <1>3 DEF UploadOpen
<1>4. ASSUME NEW j \in Jobs, UploadAccepted(j) PROVE AbandonedIsSeen'
  BY <1>4 DEF UploadAccepted
<1>5. ASSUME NEW j \in Jobs, UploadRejected(j) PROVE AbandonedIsSeen'
  BY <1>5 DEF UploadRejected
<1>6. ASSUME NEW j \in Jobs, UploadUnlink(j) PROVE AbandonedIsSeen'
  BY <1>6 DEF UploadUnlink
<1>7. ASSUME NEW j \in Jobs, UploadRmdir(j) PROVE AbandonedIsSeen'
  BY <1>7 DEF UploadRmdir
<1>8. ASSUME NEW j \in Jobs, UploadRaises(j) PROVE AbandonedIsSeen'
  BY <1>8 DEF UploadRaises
<1>9. ASSUME NEW j \in Jobs, Submit(j) PROVE AbandonedIsSeen'
  BY <1>9 DEF Submit
<1>10. ASSUME NEW j \in Jobs, CancelCheck(j) PROVE AbandonedIsSeen'
  BY <1>10 DEF CancelCheck
<1>11. ASSUME NEW j \in Jobs, CancelSet(j) PROVE AbandonedIsSeen'
  BY <1>11 DEF CancelSet
<1>12. ASSUME NEW j \in Jobs, DeleteFlag(j) PROVE AbandonedIsSeen'
  BY <1>12 DEF DeleteFlag
<1>13. ASSUME NEW j \in Jobs, DeleteSignal(j) PROVE AbandonedIsSeen'
  BY <1>13 DEF DeleteSignal
<1>14. ASSUME NEW j \in Jobs, DeleteDecide(j) PROVE AbandonedIsSeen'
  BY <1>14 DEF DeleteDecide
<1>15. ASSUME NEW j \in Jobs, DeleteUnlink(j) PROVE AbandonedIsSeen'
  BY <1>15 DEF DeleteUnlink
<1>16. ASSUME NEW j \in Jobs, DeleteRmdir(j) PROVE AbandonedIsSeen'
  BY <1>16 DEF DeleteRmdir
<1>17. ASSUME NEW j \in Jobs, GCPick(j) PROVE AbandonedIsSeen'
  BY <1>17 DEF GCPick
<1>18. CASE WorkerGet
  BY <1>18 DEF WorkerGet
<1>19. CASE WorkerLookup
  BY <1>19 DEF WorkerLookup
<1>20. CASE WorkerCheck
  BY <1>20 DEF WorkerCheck
<1>21. CASE WorkerReady
  BY <1>21 DEF WorkerReady
<1>22. CASE WorkerWaitCanceled
  BY <1>22 DEF WorkerWaitCanceled
<1>23. CASE WorkerLoadFails
  BY <1>23 DEF WorkerLoadFails
<1>24. CASE WorkerDropSave
  BY <1>24 DEF WorkerDropSave
<1>25. CASE WorkerDropped
  BY <1>25 DEF WorkerDropped
<1>26. CASE RunBegin
  BY <1>26 DEF RunBegin
<1>27. CASE RunFirstSave
  BY <1>27 DEF RunFirstSave
<1>28. CASE RunPassLastCheck
  BY <1>28 DEF RunPassLastCheck
<1>29. CASE RunCanceled
  BY <1>29 DEF RunCanceled
<1>30. CASE RunFails
  BY <1>30 DEF RunFails
<1>31. CASE RunDone
  BY <1>31 DEF RunDone
<1>32. CASE RunFinalSave
  BY <1>32 DEF RunFinalSave
<1>33. CASE RunFinally
  BY <1>33 DEF RunFinally
<1>34. CASE WorkerUnlink
  BY <1>34 DEF WorkerUnlink
<1>35. CASE WorkerRmdir
  BY <1>35 DEF WorkerRmdir
<1>36. CASE WorkerPop
  BY <1>36 DEF WorkerPop
<1>37. CASE RunProgress
  BY <1>37 DEF RunProgress
<1>38. CASE WorkerSaveFails
  BY <1>38 DEF WorkerSaveFails
<1>39. CASE GCUnlink
  BY <1>39 DEF GCUnlink
<1>40. CASE GCRmdir
  BY <1>40 DEF GCRmdir
<1>41. CASE Restart
  BY <1>41 DEF Restart, Restored, RestoredStatus
<1>42. CASE UNCHANGED vars
  BY <1>42 DEF vars
<1> QED
  BY <1>1, <1>2, <1>3, <1>4, <1>5, <1>6, <1>7, <1>8, <1>9, <1>10, <1>11, <1>12, <1>13, <1>14,
     <1>15, <1>16, <1>17, <1>18, <1>19, <1>20, <1>21, <1>22, <1>23, <1>24, <1>25, <1>26, <1>27,
     <1>28, <1>29, <1>30, <1>31, <1>32, <1>33, <1>34, <1>35, <1>36, <1>37, <1>38, <1>39, <1>40,
     <1>41, <1>42
     DEF Next, Upload, DeleteStep, WorkerStep

\* An active job is still being uploaded, in the queue, or the worker's.
LEMMA OwnerStep ==
  IInv /\ StatusIsKnown /\ RemovalIsDue /\ DirectoryStays /\ ActiveHasAnOwner /\ [Next]_vars
    => ActiveHasAnOwner'
<1> SUFFICES ASSUME IInv, StatusIsKnown, RemovalIsDue, DirectoryStays, ActiveHasAnOwner, [Next]_vars
             PROVE  ActiveHasAnOwner'
  OBVIOUS
<1>0. TypeOK /\ TypeOK'
  BY TypeStep DEF IInv
<1> USE <1>0, ConstantsAssumption
    DEF TypeOK, IInv, WorkerHolds, RunningIsHeld, UnknownBeforeCreation, SubmittedOnce,
        StageStatus, MetaAgrees, StatusIsKnown, RemovalIsDue, ActiveHasAnOwner
<1>1. ASSUME NEW j \in Jobs, CreateJob(j) PROVE ActiveHasAnOwner'
  BY <1>1 DEF CreateJob
<1>2. ASSUME NEW j \in Jobs, CreateSave(j) PROVE ActiveHasAnOwner'
  BY <1>2 DEF CreateSave
<1>3. ASSUME NEW j \in Jobs, UploadOpen(j) PROVE ActiveHasAnOwner'
  BY <1>3 DEF UploadOpen, DirectoryStays
<1>4. ASSUME NEW j \in Jobs, UploadAccepted(j) PROVE ActiveHasAnOwner'
  BY <1>4 DEF UploadAccepted
<1>5. ASSUME NEW j \in Jobs, UploadRejected(j) PROVE ActiveHasAnOwner'
  BY <1>5 DEF UploadRejected
<1>6. ASSUME NEW j \in Jobs, UploadUnlink(j) PROVE ActiveHasAnOwner'
  BY <1>6 DEF UploadUnlink
<1>7. ASSUME NEW j \in Jobs, UploadRmdir(j) PROVE ActiveHasAnOwner'
  BY <1>7 DEF UploadRmdir
<1>8. ASSUME NEW j \in Jobs, UploadRaises(j) PROVE ActiveHasAnOwner'
  BY <1>8 DEF UploadRaises, DirectoryStays
<1>9. ASSUME NEW j \in Jobs, Submit(j) PROVE ActiveHasAnOwner'
  BY <1>9 DEF Submit
<1>10. ASSUME NEW j \in Jobs, CancelCheck(j) PROVE ActiveHasAnOwner'
  BY <1>10 DEF CancelCheck
<1>11. ASSUME NEW j \in Jobs, CancelSet(j) PROVE ActiveHasAnOwner'
  BY <1>11 DEF CancelSet
<1>12. ASSUME NEW j \in Jobs, DeleteFlag(j) PROVE ActiveHasAnOwner'
  BY <1>12 DEF DeleteFlag
<1>13. ASSUME NEW j \in Jobs, DeleteSignal(j) PROVE ActiveHasAnOwner'
  BY <1>13 DEF DeleteSignal
<1>14. ASSUME NEW j \in Jobs, DeleteDecide(j) PROVE ActiveHasAnOwner'
  BY <1>14 DEF DeleteDecide
<1>15. ASSUME NEW j \in Jobs, DeleteUnlink(j) PROVE ActiveHasAnOwner'
  BY <1>15 DEF DeleteUnlink
<1>16. ASSUME NEW j \in Jobs, DeleteRmdir(j) PROVE ActiveHasAnOwner'
  BY <1>16 DEF DeleteRmdir
<1>17. ASSUME NEW j \in Jobs, GCPick(j) PROVE ActiveHasAnOwner'
  BY <1>17 DEF GCPick
<1>18. CASE WorkerGet
  <2>1. ASSUME NEW k \in Jobs, NEW i \in 1..Len(queue), queue[i] = k, wjob' # k
        PROVE \E n \in 1..Len(queue') : queue'[n] = k
    <3>1. i # 1 /\ queue \in Seq(Jobs) /\ queue # <<>> /\ queue' = Tail(queue)
      BY <1>18, <2>1 DEF WorkerGet
    <3>2. i - 1 \in 1..Len(queue') /\ queue'[i - 1] = k
      BY <2>1, <3>1
    <3> QED
      BY <3>2
  <2>2. /\ wjob = NoJob
        /\ UNCHANGED <<jobs, status, deleteRequested, upload, ioErrors>>
    BY <1>18 DEF WorkerGet
  <2>3. ASSUME ioErrors = 0, NEW k \in jobs, status[k] \in Active, ~deleteRequested[k],
               upload[k] \in {"none", "ended"}, wjob' # k
        PROVE \E n \in 1..Len(queue') : queue'[n] = k
    <3>1. PICK i \in 1..Len(queue) : queue[i] = k
      BY <2>2, <2>3
    <3> QED
      BY <2>1, <2>3, <3>1
  <2> HIDE DEF IInv, TypeOK, WorkerHolds, RunningIsHeld, UnknownBeforeCreation, SubmittedOnce,
               StageStatus, MetaAgrees, StatusIsKnown, RemovalIsDue
  <2> QED
    BY <2>2, <2>3
<1>19. CASE WorkerLookup
  BY <1>19 DEF WorkerLookup
<1>20. CASE WorkerCheck
  BY <1>20 DEF WorkerCheck
<1>21. CASE WorkerReady
  BY <1>21 DEF WorkerReady
<1>22. CASE WorkerWaitCanceled
  BY <1>22 DEF WorkerWaitCanceled
<1>23. CASE WorkerLoadFails
  BY <1>23 DEF WorkerLoadFails
<1>24. CASE WorkerDropSave
  BY <1>24 DEF WorkerDropSave
<1>25. CASE WorkerDropped
  BY <1>25 DEF WorkerDropped
<1>26. CASE RunBegin
  BY <1>26 DEF RunBegin
<1>27. CASE RunFirstSave
  BY <1>27 DEF RunFirstSave
<1>28. CASE RunPassLastCheck
  BY <1>28 DEF RunPassLastCheck
<1>29. CASE RunCanceled
  BY <1>29 DEF RunCanceled
<1>30. CASE RunFails
  BY <1>30 DEF RunFails
<1>31. CASE RunDone
  BY <1>31 DEF RunDone
<1>32. CASE RunFinalSave
  BY <1>32 DEF RunFinalSave
<1>33. CASE RunFinally
  BY <1>33 DEF RunFinally
<1>34. CASE WorkerUnlink
  BY <1>34 DEF WorkerUnlink
<1>35. CASE WorkerRmdir
  BY <1>35 DEF WorkerRmdir
<1>36. CASE WorkerPop
  BY <1>36 DEF WorkerPop
<1>37. CASE RunProgress
  BY <1>37 DEF RunProgress
<1>38. CASE WorkerSaveFails
  BY <1>38 DEF WorkerSaveFails
<1>39. CASE GCUnlink
  BY <1>39 DEF GCUnlink
<1>40. CASE GCRmdir
  BY <1>40 DEF GCRmdir
<1>41. CASE Restart
  BY <1>41 DEF Restart, Restored, RestoredStatus
<1>42. CASE UNCHANGED vars
  BY <1>42 DEF vars
<1> QED
  BY <1>1, <1>2, <1>3, <1>4, <1>5, <1>6, <1>7, <1>8, <1>9, <1>10, <1>11, <1>12, <1>13, <1>14,
     <1>15, <1>16, <1>17, <1>18, <1>19, <1>20, <1>21, <1>22, <1>23, <1>24, <1>25, <1>26, <1>27,
     <1>28, <1>29, <1>30, <1>31, <1>32, <1>33, <1>34, <1>35, <1>36, <1>37, <1>38, <1>39, <1>40,
     <1>41, <1>42
     DEF Next, Upload, DeleteStep, WorkerStep

-----------------------------------------------------------------------------
\* The strengthened invariant holds in every reachable state.
LEMMA GuaranteesHold == Spec => [](IInv /\ Guarantees)
<1>1. IInv /\ Guarantees /\ [Next]_vars => Guarantees'
  BY RemovalStep, PersistedStep, AbandonedStep, OwnerStep DEF Guarantees
<1> QED
  BY IInvInit, IInvStep, GuaranteesInit, <1>1, PTL DEF Spec

\* A job whose cancel was accepted while it waited in the queue is not run by this
\* process (jobs.py:350-351).  A restart empties the queue and forgets the cancel;
\* how the job settles is not claimed here.
THEOREM CanceledInQueueNeverRuns == Spec => []AbandonedNeverRuns
<1>1. IInv /\ Guarantees => AbandonedNeverRuns
  BY DEF Guarantees, AbandonedIsSeen, AbandonedNeverRuns
<1> QED
  BY GuaranteesHold, <1>1, PTL

\* What a client has read as final is on disk (jobs.py:354, 375; runner.py:446, 461, 469).
THEOREM SettledIsOnDisk == Spec => []SettledIsPersisted
<1>1. IInv /\ Guarantees => SettledIsPersisted
  BY DEF Guarantees
<1> QED
  BY GuaranteesHold, <1>1, PTL

\* No job is shown as waiting or running that nobody works on (jobs.py:235-264).
THEOREM ActiveIsWorkedOn == Spec => []ActiveHasAnOwner
<1>1. IInv /\ Guarantees => ActiveHasAnOwner
  BY DEF Guarantees
<1> QED
  BY GuaranteesHold, <1>1, PTL

-----------------------------------------------------------------------------
\* What a client sees before the first request.
LEMMA ViewInit == Init => Service!Init
BY DEF Init, Service!Init, View

\* A restart shows what was saved, with everything active turned into an error.
LEMMA RestartIsAllowed ==
  ASSUME IInv, TypeOK', StatusIsKnown, Restart
  PROVE  Service!Restart
<1> USE ConstantsAssumption DEF IInv, TypeOK, UnknownBeforeCreation, MetaAgrees
<1>1. /\ jobs' = {j \in Jobs : Restored(j)}
      /\ \A j \in Jobs : status'[j] = RestoredStatus(j)
      /\ \A j \in Jobs : upload'[j] = "none" <=> upload[j] = "none"
  BY DEF Restart
<1>2. \A j \in Jobs : j \in jobs' => status'[j] \in Service!Settled /\ upload[j] # "none"
  BY <1>1 DEF Restored, RestoredStatus, Service!Settled
<1>3. View' \in [Jobs -> Service!Settled \cup {"none", "gone"}]
  BY <1>1, <1>2 DEF View
<1>4. ASSUME NEW j \in Jobs
      PROVE  /\ View[j] = "none" <=> View'[j] = "none"
             /\ View[j] \in {"error", "canceled"} => View'[j] \in {View[j], "error", "gone"}
  <2>1. j \in jobs => status[j] # "none" /\ upload[j] # "none"
    BY DEF StatusIsKnown
  <2>2. View[j] = "none" <=> upload[j] = "none"
    BY <2>1 DEF View
  <2>3. View'[j] = "none" <=> upload[j] = "none"
    BY <1>1, <1>2 DEF View, Service!Settled
  <2>4. View[j] \in {"error", "canceled"} => View'[j] \in {View[j], "error", "gone"}
    BY <1>1, <1>2, <2>2, <2>3 DEF View, Restored, RestoredStatus
  <2> QED
    BY <2>2, <2>3, <2>4
<1> QED
  BY <1>3, <1>4 DEF Service!Restart

\* Every statement of handler, worker and collector is a step of the service, or
\* one that no client sees.
LEMMA ViewStep == IInv /\ StatusIsKnown /\ RemovalIsDue /\ [Next]_vars => [Service!Next]_View
<1> SUFFICES ASSUME IInv, StatusIsKnown, RemovalIsDue, [Next]_vars PROVE [Service!Next]_View
  OBVIOUS
<1>0. TypeOK /\ TypeOK'
  BY TypeStep DEF IInv
<1> USE <1>0, ConstantsAssumption
    DEF TypeOK, IInv, StatusIsKnown, WorkerHolds, RunningIsHeld, UnknownBeforeCreation,
        SubmittedOnce, StageStatus
<1>1. ASSUME NEW j \in Jobs, CreateJob(j) PROVE Service!Accept(j)
  <2>1. /\ j \notin jobs /\ upload[j] = "none" /\ upload' = [upload EXCEPT ![j] = "created"]
        /\ jobs' = jobs \cup {j} /\ status' = [status EXCEPT ![j] = "queued"]
    BY <1>1 DEF CreateJob
  <2>2. View[j] = "none"
    BY <2>1 DEF View
  <2>3. View' = [View EXCEPT ![j] = "queued"]
    BY <2>1 DEF View
  <2> QED
    BY <2>2, <2>3 DEF Service!Accept, Service!Moves
<1>2. ASSUME NEW j \in Jobs, jobs' = jobs \ {j}, UNCHANGED status,
             \A i \in Jobs : upload'[i] = "none" <=> upload[i] = "none"
      PROVE  Service!Remove(j) \/ UNCHANGED View
  <2>1. CASE j \in jobs
    <3>1. View[j] \in Service!Settled \cup {"queued", "running"}
      BY <2>1 DEF View, Service!Settled
    <3>2. View' = [View EXCEPT ![j] = "gone"]
      BY <1>2, <2>1 DEF View
    <3> QED
      BY <3>1, <3>2 DEF Service!Remove, Service!Moves
  <2>2. CASE j \notin jobs
    BY <1>2, <2>2 DEF View
  <2> QED
    BY <2>1, <2>2
<1>3. ASSUME NEW j \in Jobs, UploadRmdir(j) \/ DeleteRmdir(j)
      PROVE  Service!Remove(j) \/ UNCHANGED View
  <2>1. /\ jobs' = jobs \ {j} /\ UNCHANGED status
        /\ \A i \in Jobs : upload'[i] = "none" <=> upload[i] = "none"
    BY <1>3 DEF UploadRmdir, DeleteRmdir
  <2> QED
    BY <1>2, <2>1
<1>4. ASSUME WorkerRmdir \/ GCRmdir
      PROVE  \E j \in Jobs : Service!Remove(j) \/ UNCHANGED View
  <2>1. PICK j \in Jobs : jobs' = jobs \ {j}
    BY <1>4 DEF WorkerRmdir, GCRmdir, RemovalIsDue
  <2>2. UNCHANGED <<status, upload>>
    BY <1>4 DEF WorkerRmdir, GCRmdir
  <2> QED
    BY <1>2, <2>1, <2>2
\* The worker gives its job another status; when the job is out of the store, unseen.
<1>5. ASSUME NEW to \in JobStatus,
             wjob \in Jobs, status' = [status EXCEPT ![wjob] = to], UNCHANGED <<jobs, upload>>
      PROVE  \/ UNCHANGED View
             \/ View[wjob] = status[wjob] /\ View' = [View EXCEPT ![wjob] = to]
  <2>1. CASE wjob \in jobs
    <3>1. View[wjob] = status[wjob]
      BY <2>1 DEF View
    <3>2. PICK k \in Jobs : k = wjob
      BY <1>5
    <3>3. View' = [View EXCEPT ![k] = to]
      <4> HIDE DEF IInv, TypeOK, WorkerHolds, RunningIsHeld, UnknownBeforeCreation, SubmittedOnce,
                   StageStatus, StatusIsKnown
      <4>1. status \in [Jobs -> JobStatus] /\ k \in jobs /\ UNCHANGED <<jobs, upload>>
        BY <1>5, <2>1, <3>2 DEF TypeOK
      <4>2. status' = [status EXCEPT ![k] = to]
        BY <1>5, <3>2
      <4> QED
        BY <4>1, <4>2 DEF View
    <3> QED
      BY <3>1, <3>2, <3>3
  <2>2. CASE wjob \notin jobs
    BY <1>5, <2>2 DEF View
  <2> QED
    BY <2>1, <2>2
<1>6. ASSUME WorkerCheck \/ WorkerWaitCanceled \/ RunCanceled
      PROVE  UNCHANGED View \/ \E j \in Jobs : Service!Cancel(j)
  <2>1. CASE UNCHANGED <<jobs, status, upload>>
    BY <2>1 DEF View
  <2>2. CASE /\ wjob \in Jobs /\ status[wjob] \in {"queued", "running"}
             /\ status' = [status EXCEPT ![wjob] = "canceled"] /\ UNCHANGED <<jobs, upload>>
    BY <1>5, <2>2 DEF Service!Cancel, Service!Moves
  <2> QED
    BY <1>6, <2>1, <2>2 DEF WorkerCheck, WorkerWaitCanceled, RunCanceled
<1>7. ASSUME WorkerLoadFails \/ RunFails \/ WorkerSaveFails
      PROVE  UNCHANGED View \/ \E j \in Jobs : Service!Fail(j)
  <2>1. CASE UNCHANGED <<jobs, status, upload>>
    BY <2>1 DEF View
  <2>2. CASE /\ wjob \in Jobs /\ status[wjob] \in {"queued", "running"}
             /\ status' = [status EXCEPT ![wjob] = "error"] /\ UNCHANGED <<jobs, upload>>
    BY <1>5, <2>2 DEF Service!Fail, Service!Moves
  <2>3. CASE WorkerLoadFails \/ RunFails
    BY <2>2, <2>3 DEF WorkerLoadFails, RunFails
  <2>4. CASE WorkerSaveFails /\ wpc = "done"
    <3>1. MaxIOErrors > 0
      BY <2>4 DEF WorkerSaveFails
    <3>2. /\ wjob \in Jobs /\ status[wjob] = "done"
          /\ status' = [status EXCEPT ![wjob] = "error"] /\ UNCHANGED <<jobs, upload>>
      BY <2>4 DEF WorkerSaveFails
    <3> QED
      BY <1>5, <3>1, <3>2 DEF Service!Fail, Service!Moves
  <2>5. CASE WorkerSaveFails /\ wpc # "done"
    BY <2>1, <2>2, <2>5 DEF WorkerSaveFails
  <2> QED
    BY <1>7, <2>3, <2>4, <2>5
<1>8. ASSUME RunBegin PROVE UNCHANGED View \/ \E j \in Jobs : Service!Start(j)
  <2>1. /\ wjob \in Jobs /\ status[wjob] = "queued"
        /\ status' = [status EXCEPT ![wjob] = "running"] /\ UNCHANGED <<jobs, upload>>
    BY <1>8 DEF RunBegin
  <2> QED
    BY <1>5, <2>1 DEF Service!Start, Service!Moves
<1>9. ASSUME RunDone PROVE UNCHANGED View \/ \E j \in Jobs : Service!Finish(j)
  <2>1. /\ wjob \in Jobs /\ status[wjob] = "running"
        /\ status' = [status EXCEPT ![wjob] = "done"] /\ UNCHANGED <<jobs, upload>>
    BY <1>9 DEF RunDone
  <2> QED
    BY <1>5, <2>1 DEF Service!Finish, Service!Moves
<1>10. CASE Restart
  BY <1>10, RestartIsAllowed DEF Service!Next
<1>11. ASSUME UNCHANGED <<jobs, status>>, \A j \in Jobs : upload'[j] = "none" <=> upload[j] = "none"
       PROVE  UNCHANGED View
  BY <1>11 DEF View
<1>12. ASSUME NEW j \in Jobs, CreateSave(j) PROVE UNCHANGED View
  BY <1>12, <1>11 DEF CreateSave
<1>13. ASSUME NEW j \in Jobs, UploadOpen(j) PROVE UNCHANGED View
  BY <1>13, <1>11 DEF UploadOpen
<1>14. ASSUME NEW j \in Jobs, UploadAccepted(j) PROVE UNCHANGED View
  BY <1>14, <1>11 DEF UploadAccepted
<1>15. ASSUME NEW j \in Jobs, UploadRejected(j) PROVE UNCHANGED View
  BY <1>15, <1>11 DEF UploadRejected
<1>16. ASSUME NEW j \in Jobs, UploadUnlink(j) PROVE UNCHANGED View
  BY <1>16, <1>11 DEF UploadUnlink
<1>17. ASSUME NEW j \in Jobs, UploadRaises(j) PROVE UNCHANGED View
  BY <1>17, <1>11 DEF UploadRaises
<1>18. ASSUME NEW j \in Jobs, Submit(j) PROVE UNCHANGED View
  BY <1>18, <1>11 DEF Submit
<1>19. ASSUME NEW j \in Jobs, CancelCheck(j) PROVE UNCHANGED View
  BY <1>19, <1>11 DEF CancelCheck
<1>20. ASSUME NEW j \in Jobs, CancelSet(j) PROVE UNCHANGED View
  BY <1>20, <1>11 DEF CancelSet
<1>21. ASSUME NEW j \in Jobs, DeleteFlag(j) PROVE UNCHANGED View
  BY <1>21, <1>11 DEF DeleteFlag
<1>22. ASSUME NEW j \in Jobs, DeleteSignal(j) PROVE UNCHANGED View
  BY <1>22, <1>11 DEF DeleteSignal
<1>23. ASSUME NEW j \in Jobs, DeleteDecide(j) PROVE UNCHANGED View
  BY <1>23, <1>11 DEF DeleteDecide
<1>24. ASSUME NEW j \in Jobs, DeleteUnlink(j) PROVE UNCHANGED View
  BY <1>24, <1>11 DEF DeleteUnlink
<1>25. ASSUME NEW j \in Jobs, GCPick(j) PROVE UNCHANGED View
  BY <1>25, <1>11 DEF GCPick
<1>26. CASE WorkerGet \/ WorkerLookup \/ WorkerReady \/ WorkerDropSave \/ WorkerDropped \/ RunFirstSave
       \/ RunPassLastCheck \/ RunFinalSave \/ RunFinally \/ WorkerUnlink \/ WorkerPop \/ RunProgress \/ GCUnlink
  BY <1>26, <1>11 DEF WorkerGet, WorkerLookup, WorkerReady, WorkerDropSave, WorkerDropped,
         RunFirstSave, RunPassLastCheck, RunFinalSave, RunFinally, WorkerUnlink, WorkerPop,
         RunProgress, GCUnlink
<1>27. CASE UNCHANGED vars
  BY <1>27, <1>11 DEF vars
<1> HIDE DEF TypeOK, IInv, StatusIsKnown, WorkerHolds, RunningIsHeld, UnknownBeforeCreation,
             SubmittedOnce, StageStatus
<1> QED
  BY <1>1, <1>3, <1>4, <1>6, <1>7, <1>8, <1>9, <1>10, <1>12, <1>13, <1>14, <1>15, <1>16,
     <1>17, <1>18, <1>19, <1>20, <1>21, <1>22, <1>23, <1>24, <1>25, <1>26, <1>27
     DEF Next, Upload, DeleteStep, WorkerStep, Service!Next

\* The threads of the server implement the job resource a client sees.
THEOREM ServiceIsImplemented == Spec => ImplementsService
<1>1. IInv /\ Guarantees /\ [Next]_vars => [Service!Next]_View
  BY ViewStep DEF Guarantees
<1> QED
  BY GuaranteesHold, ViewInit, <1>1, PTL DEF Spec, ImplementsService, Service!Spec
=============================================================================
