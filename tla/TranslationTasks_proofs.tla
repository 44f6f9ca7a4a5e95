---------------------- MODULE TranslationTasks_proofs ----------------------
(***************************************************************************)
(* The registry of translations and what state.json may say, proved for    *)
(* any number of requests and restarts, with and without a collector and a *)
(* DELETE.  The two hang together: a reader may rewrite a state only while *)
(* no thread is registered, and a thread writes only while it is.          *)
(*                                                                         *)
(* The second part is about the units of one translation (TranslatePool).  *)
(***************************************************************************)
EXTENDS TranslationTasks, TranslatePool, TLAPS

Final == {"done", "error", "canceled"}
Working == {"read", "glossary", "units", "report", "done", "canceled", "error"}
Leaving == {"announce", "unzip", "pop"}

Typed == /\ tpc \in [Runs -> ThreadStages]
         /\ task \in Runs \cup {NoRun}
         /\ state \in States /\ writer \in Runs \cup {NoRun}
         /\ tdir \in BOOLEAN /\ adjust \in BOOLEAN

\* A reader rewrites a state nobody works on, and nobody begins to meanwhile.
AdjustsAlone == adjust => task = NoRun /\ state \in {"running", "none"}

\* state.json is in a directory that is there.
StateHasPlace == ~tdir => state = "none"

\* From its first write to its last the state is the thread's: running, or gone.
StateIsOurs == \A r \in Runs : tpc[r] \in Working => state \in {"running", "none"}

\* The text that a thread is about to vouch for is its own.
TextIsOurs == \A r \in Runs : tpc[r] \in {"report", "done"} /\ tdir => ko = r

\* Whoever wrote a final state left no running behind.
NothingRuns == \A r \in Runs : tpc[r] \in Leaving => ~(state = "running" /\ writer = r)

Inv == /\ Typed /\ RegistryIsExact /\ AdjustsAlone /\ StateHasPlace /\ StateIsOurs
       /\ TextIsOurs /\ NothingRuns /\ RunningIsAlive /\ DoneMeansTranslated

USE DEF Alive, Waiting, Over, Final, Working, Leaving, ThreadStages, States, NoRun

\* Run 0 is no run.
LEMMA RunsArePositive == NoRun \notin Runs
BY DEF Runs

\* At most one thread is at work, the one that is registered.
LEMMA OneThread ==
  ASSUME Inv, NEW r \in Runs, Alive(r)
  PROVE  task = r /\ \A s \in Runs \ {r} : ~Alive(s)
BY DEF Inv, RegistryIsExact

\* A process started with one finished job.
LEMMA InvInit == Init => Inv
<1> SUFFICES ASSUME Init PROVE Inv
  OBVIOUS
<1>1. \A r \in Runs : tpc[r] = "none"
  BY DEF Init
<1>2. Typed
  BY DEF Init, Typed
<1>3. RegistryIsExact
  BY <1>1, RunsArePositive DEF Init, RegistryIsExact
<1> QED BY <1>1, <1>2, <1>3 DEF Init, Inv, AdjustsAlone, StateHasPlace, StateIsOurs, TextIsOurs,
                            NothingRuns, RunningIsAlive, DoneMeansTranslated

\* A thread that goes to its next stage and writes nothing of what the invariant is about.
LEMMA ThreadGoesOn ==
  ASSUME Inv, NEW r \in Runs, NEW from \in ThreadStages, NEW to \in ThreadStages,
         tpc[r] = from, tpc' = [tpc EXCEPT ![r] = to],
         UNCHANGED <<task, state, writer, tdir, adjust, ko>>,
         \/ from \in Working /\ to \in {"glossary", "units", "canceled", "error"}
         \/ from \in Working /\ to \in {"report", "done"} /\ (tdir => ko = r)
         \/ from \in Leaving /\ to \in Leaving
  PROVE  Inv'
<1> USE DEF Inv, Typed
<1>1. task = r /\ \A s \in Runs \ {r} : ~Alive(s)
  BY OneThread
<1>2. Typed' /\ AdjustsAlone' /\ StateHasPlace' /\ DoneMeansTranslated'
  BY DEF AdjustsAlone, StateHasPlace, DoneMeansTranslated
<1>3. RegistryIsExact'
  BY <1>1 DEF RegistryIsExact
<1>4. StateIsOurs' /\ TextIsOurs' /\ NothingRuns'
  BY <1>1 DEF StateIsOurs, TextIsOurs, NothingRuns
<1>5. RunningIsAlive'
  BY <1>1 DEF RunningIsAlive
<1> QED BY <1>2, <1>3, <1>4, <1>5

\* The steps of a thread that write nothing the invariant is about.
LEMMA InvQuietThread ==
  ASSUME Inv, NEW r \in Runs,
         \/ ThreadRead(r) \/ ThreadGlossary(r) \/ ThreadUnit(r) \/ ThreadStops(r)
         \/ ThreadFails(r) \/ ThreadReport(r) \/ ThreadAnnounce(r) \/ ThreadUnlinkArchive(r)
  PROVE  Inv'
<1> USE DEF ThreadFrame, ThreadTo, jobVars, fileVars, taskVars, threadVars
<1>1. ASSUME ThreadRead(r) \/ ThreadGlossary(r) PROVE Inv'
  BY <1>1, ThreadGoesOn DEF ThreadRead, ThreadGlossary
<1>2. ASSUME ThreadUnit(r) PROVE Inv'
  BY <1>2 DEF ThreadUnit, Inv, Typed, RegistryIsExact, AdjustsAlone, StateHasPlace, StateIsOurs,
              TextIsOurs, NothingRuns, RunningIsAlive, DoneMeansTranslated
<1>3. ASSUME ThreadStops(r) \/ ThreadFails(r) PROVE Inv'
  BY <1>3, ThreadGoesOn DEF ThreadStops, ThreadFails
<1>4. ASSUME ThreadReport(r) PROVE Inv'
  <2>1. tdir => ko = r
    BY <1>4 DEF ThreadReport, Inv, TextIsOurs
  <2> QED BY <1>4, <2>1, ThreadGoesOn DEF ThreadReport
<1>5. ASSUME ThreadAnnounce(r) \/ ThreadUnlinkArchive(r) PROVE Inv'
  BY <1>5, ThreadGoesOn DEF ThreadAnnounce, ThreadUnlinkArchive
<1> QED BY <1>1, <1>2, <1>3, <1>4, <1>5

\* The thread makes its directory.
LEMMA InvMkdir ==
  ASSUME Inv, NEW r \in Runs, ThreadMkdir(r)
  PROVE  Inv'
<1> USE DEF Inv, Typed
<1>1. /\ tpc[r] = "mkdir" /\ tpc' = [tpc EXCEPT ![r] = "begin"] /\ tdir' = TRUE
      /\ UNCHANGED <<task, state, writer, adjust, ko>>
  BY DEF ThreadMkdir, ThreadTo, ThreadFrame, fileVars, taskVars
<1>2. task = r /\ \A s \in Runs \ {r} : ~Alive(s)
  BY <1>1, OneThread
<1>3. Typed' /\ AdjustsAlone' /\ StateHasPlace' /\ DoneMeansTranslated'
  BY <1>1 DEF AdjustsAlone, StateHasPlace, DoneMeansTranslated
<1>4. RegistryIsExact'
  BY <1>1, <1>2 DEF RegistryIsExact
<1>5. StateIsOurs' /\ TextIsOurs' /\ NothingRuns'
  BY <1>1, <1>2 DEF StateIsOurs, TextIsOurs, NothingRuns
<1>6. RunningIsAlive'
  BY <1>1, <1>2 DEF RunningIsAlive
<1> QED BY <1>3, <1>4, <1>5, <1>6

\* The first write of a run: running, if the directory is still there.
LEMMA InvRunning ==
  ASSUME Inv, NEW r \in Runs, ThreadRunning(r)
  PROVE  Inv'
<1> USE DEF Inv, Typed
<1>1. /\ tpc[r] = "begin" /\ tpc' = [tpc EXCEPT ![r] = "read"]
      /\ UNCHANGED <<task, adjust, ko, tdir>>
      /\ IF tdir THEN state' = "running" /\ writer' = r ELSE UNCHANGED <<state, writer>>
  BY DEF ThreadRunning, ThreadTo, ThreadFrame, jobVars, taskVars, WriteState
<1>2. task = r /\ ~adjust /\ \A s \in Runs \ {r} : ~Alive(s)
  BY <1>1, OneThread, RunsArePositive DEF AdjustsAlone
<1>3. state' \in {"running", "none"}
  BY <1>1 DEF StateHasPlace
<1>4. Typed' /\ AdjustsAlone' /\ StateHasPlace' /\ DoneMeansTranslated'
  BY <1>1, <1>2, <1>3 DEF AdjustsAlone, StateHasPlace, DoneMeansTranslated
<1>5. RegistryIsExact'
  BY <1>1, <1>2 DEF RegistryIsExact
<1>6. StateIsOurs' /\ TextIsOurs' /\ NothingRuns'
  BY <1>1, <1>2, <1>3 DEF StateIsOurs, TextIsOurs, NothingRuns
<1>7. RunningIsAlive'
  BY <1>1, <1>2, RunsArePositive DEF RunningIsAlive
<1> QED BY <1>4, <1>5, <1>6, <1>7

\* The text replaces the one before, which nothing vouches for any more.
LEMMA InvAssemble ==
  ASSUME Inv, NEW r \in Runs, ThreadAssemble(r)
  PROVE  Inv'
<1> USE DEF Inv, Typed
<1>1. /\ tpc[r] = "units"
      /\ \/ tpc' = [tpc EXCEPT ![r] = "report"] /\ ko' = r
         \/ tpc' = [tpc EXCEPT ![r] = "error"] /\ ko' = ko
      /\ UNCHANGED <<task, adjust, tdir, state, writer>>
  BY DEF ThreadAssemble, ThreadTo, ThreadFrame, jobVars, taskVars
<1>2. task = r /\ state # "done" /\ \A s \in Runs \ {r} : ~Alive(s)
  BY <1>1, OneThread DEF StateIsOurs
<1>3. Typed' /\ AdjustsAlone' /\ StateHasPlace' /\ DoneMeansTranslated'
  BY <1>1, <1>2 DEF AdjustsAlone, StateHasPlace, DoneMeansTranslated
<1>4. RegistryIsExact'
  BY <1>1, <1>2 DEF RegistryIsExact
<1>5. StateIsOurs' /\ TextIsOurs' /\ NothingRuns'
  BY <1>1, <1>2 DEF StateIsOurs, TextIsOurs, NothingRuns
<1>6. RunningIsAlive'
  BY <1>1, <1>2 DEF RunningIsAlive
<1> QED BY <1>3, <1>4, <1>5, <1>6

\* The final state replaces the thread's own running, or finds no directory.
LEMMA InvFinalState ==
  ASSUME Inv, NEW r \in Runs, ThreadFinalState(r)
  PROVE  Inv'
<1> USE DEF Inv, Typed
<1>1. /\ tpc[r] \in Final
      /\ tpc' = [tpc EXCEPT ![r] = IF tpc[r] = "done" THEN "announce" ELSE "pop"]
      /\ UNCHANGED <<task, adjust, ko, tdir>>
      /\ IF tdir THEN state' = tpc[r] /\ writer' = r ELSE UNCHANGED <<state, writer>>
  BY DEF ThreadFinalState, ThreadTo, ThreadFrame, jobVars, taskVars, WriteState
<1>2. task = r /\ ~adjust /\ \A s \in Runs \ {r} : ~Alive(s)
  BY <1>1, OneThread, RunsArePositive DEF AdjustsAlone
<1>3. state' # "running"
  BY <1>1 DEF StateHasPlace
<1>4. Typed' /\ AdjustsAlone' /\ StateHasPlace'
  BY <1>1, <1>2 DEF AdjustsAlone, StateHasPlace
<1>5. RegistryIsExact'
  BY <1>1, <1>2 DEF RegistryIsExact
<1>6. StateIsOurs' /\ TextIsOurs' /\ NothingRuns'
  BY <1>1, <1>2, <1>3 DEF StateIsOurs, TextIsOurs, NothingRuns
<1>7. RunningIsAlive'
  BY <1>3 DEF RunningIsAlive
<1>8. DoneMeansTranslated'
  BY <1>1, RunsArePositive DEF DoneMeansTranslated, TextIsOurs, StateHasPlace
<1> QED BY <1>4, <1>5, <1>6, <1>7, <1>8

\* The thread leaves the registry, as the last thing it does.
LEMMA InvPop ==
  ASSUME Inv, NEW r \in Runs, ThreadPop(r)
  PROVE  Inv'
<1> USE DEF Inv, Typed
<1>1. /\ tpc[r] = "pop" /\ ~adjust /\ task' = NoRun
      /\ tpc' = [tpc EXCEPT ![r] = "ended"]
      /\ UNCHANGED <<adjust, ko, tdir, state, writer>>
  BY DEF ThreadPop, ThreadTo, jobVars, fileVars
<1>2. task = r /\ \A s \in Runs \ {r} : ~Alive(s)
  BY <1>1, OneThread
<1>3. Typed' /\ AdjustsAlone' /\ StateHasPlace' /\ DoneMeansTranslated'
  BY <1>1 DEF AdjustsAlone, StateHasPlace, DoneMeansTranslated
<1>4. RegistryIsExact'
  BY <1>1, <1>2, RunsArePositive DEF RegistryIsExact
<1>5. StateIsOurs' /\ TextIsOurs' /\ NothingRuns'
  BY <1>1, <1>2 DEF StateIsOurs, TextIsOurs, NothingRuns
<1>6. RunningIsAlive'
  BY <1>1, <1>2 DEF RunningIsAlive, NothingRuns
<1> QED BY <1>3, <1>4, <1>5, <1>6

-----------------------------------------------------------------------------
\* A request that looks the job up, or is refused, is no thread.
LEMMA InvLookup ==
  ASSUME Inv, NEW r \in Runs, StartLookup(r)
  PROVE  Inv'
<1> USE DEF Inv, Typed
<1>1. /\ tpc[r] = "none" /\ tpc' = [tpc EXCEPT ![r] = "looked"]
      /\ UNCHANGED <<task, adjust, ko, tdir, state, writer>>
  BY DEF StartLookup, ThreadTo, jobVars, fileVars, taskVars
<1>2. Typed' /\ AdjustsAlone' /\ StateHasPlace' /\ DoneMeansTranslated'
  BY <1>1 DEF AdjustsAlone, StateHasPlace, DoneMeansTranslated
<1>3. RegistryIsExact'
  BY <1>1 DEF RegistryIsExact
<1>4. StateIsOurs' /\ TextIsOurs' /\ NothingRuns'
  BY <1>1 DEF StateIsOurs, TextIsOurs, NothingRuns
<1>5. RunningIsAlive'
  BY <1>1 DEF RunningIsAlive, RegistryIsExact
<1> QED BY <1>2, <1>3, <1>4, <1>5

\* A thread is registered only while there is none.
LEMMA InvRegister ==
  ASSUME Inv, NEW r \in Runs, StartRegister(r)
  PROVE  Inv'
<1> USE DEF Inv, Typed
<1>1. /\ tpc[r] = "looked" /\ ~adjust
      /\ \/ tpc' = [tpc EXCEPT ![r] = "refused"] /\ task' = task
         \/ task = NoRun /\ tpc' = [tpc EXCEPT ![r] = "mkdir"] /\ task' = r
      /\ UNCHANGED <<adjust, ko, tdir, state, writer>>
  BY DEF StartRegister, ThreadTo, jobVars, fileVars
<1>2. Typed' /\ AdjustsAlone' /\ StateHasPlace' /\ DoneMeansTranslated'
  BY <1>1 DEF AdjustsAlone, StateHasPlace, DoneMeansTranslated
<1>3. RegistryIsExact'
  BY <1>1, RunsArePositive DEF RegistryIsExact
<1>4. StateIsOurs' /\ TextIsOurs' /\ NothingRuns'
  BY <1>1 DEF StateIsOurs, TextIsOurs, NothingRuns
<1>5. RunningIsAlive'
  BY <1>1 DEF RunningIsAlive, RegistryIsExact
<1> QED BY <1>2, <1>3, <1>4, <1>5

\* A stale state is rewritten while no thread is registered.
LEMMA InvAdjust == Inv /\ (AdjustRead \/ AdjustWrite) => Inv'
<1> SUFFICES ASSUME Inv, AdjustRead \/ AdjustWrite PROVE Inv'
  OBVIOUS
<1> USE DEF Inv, Typed
<1>1. CASE AdjustRead
  BY <1>1 DEF AdjustRead, jobVars, fileVars, threadVars, RegistryIsExact, AdjustsAlone,
              StateHasPlace, StateIsOurs, TextIsOurs, NothingRuns, RunningIsAlive,
              DoneMeansTranslated
<1>2. CASE AdjustWrite
  <2>1. /\ adjust /\ task = NoRun /\ adjust' = FALSE /\ tdir' = TRUE
        /\ state' = "error" /\ writer' = NoRun
        /\ UNCHANGED <<ko, task, tpc>>
    BY <1>2 DEF AdjustWrite, AdjustsAlone, threadVars
  <2>2. \A r \in Runs : ~Alive(r)
    BY <2>1, RunsArePositive DEF RegistryIsExact
  <2>3. Typed' /\ AdjustsAlone' /\ StateHasPlace' /\ DoneMeansTranslated'
    BY <2>1 DEF AdjustsAlone, StateHasPlace, DoneMeansTranslated
  <2>4. RegistryIsExact' /\ RunningIsAlive'
    BY <2>1 DEF RegistryIsExact, RunningIsAlive
  <2>5. StateIsOurs' /\ TextIsOurs' /\ NothingRuns'
    BY <2>1, <2>2 DEF StateIsOurs, TextIsOurs, NothingRuns
  <2> QED BY <2>3, <2>4, <2>5
<1> QED BY <1>1, <1>2

\* The files of the job are removed, state.json with its directory.
LEMMA InvUnlink ==
  ASSUME Inv, UnlinkAll, UNCHANGED <<task, adjust, tpc>>
  PROVE  Inv'
<1> USE DEF Inv, Typed
<1>1. tdir' = FALSE /\ state' = "none" /\ writer' = NoRun
  BY DEF UnlinkAll
<1>2. Typed' /\ AdjustsAlone' /\ StateHasPlace' /\ DoneMeansTranslated'
  BY <1>1 DEF AdjustsAlone, StateHasPlace, DoneMeansTranslated
<1> QED BY <1>1, <1>2 DEF RegistryIsExact, RunningIsAlive, StateIsOurs, TextIsOurs, NothingRuns

\* What touches neither the registry nor the translation's files.
LEMMA InvElsewhere ==
  ASSUME Inv, UNCHANGED <<tpc, task, adjust, state, writer, tdir, ko>>
  PROVE  Inv'
BY DEF Inv, Typed, RegistryIsExact, AdjustsAlone, StateHasPlace, StateIsOurs, TextIsOurs,
       NothingRuns, RunningIsAlive, DoneMeansTranslated

\* DELETE, the collector, the archive and cancel.
LEMMA InvOthers ==
  ASSUME Inv,
         \/ CancelTranslation
         \/ \E z \in Readers : ArchiveBegin(z) \/ ArchivePack(z) \/ ArchiveReplace(z)
         \/ DeleteCancels \/ DeleteUnlink \/ DeleteRmdir
         \/ GCCheck \/ GCUnlink \/ GCRmdir
  PROVE  Inv'
<1> USE DEF jobVars, fileVars, taskVars, threadVars, RemovalFrame, ReaderFrame
<1>1. CASE CancelTranslation
  BY <1>1, InvElsewhere DEF CancelTranslation
<1>2. ASSUME NEW z \in Readers, ArchiveBegin(z) \/ ArchivePack(z) \/ ArchiveReplace(z) PROVE Inv'
  BY <1>2, InvElsewhere, Zenon DEF ArchiveBegin, ArchivePack, ArchiveReplace
<1>3. CASE DeleteCancels \/ GCCheck
  BY <1>3, InvElsewhere, Zenon DEF DeleteCancels, GCCheck
<1>4. CASE DeleteUnlink \/ GCUnlink
  BY <1>4, InvUnlink, Zenon DEF DeleteUnlink, GCUnlink
<1>5. CASE DeleteRmdir \/ GCRmdir
  BY <1>5, InvElsewhere, Zenon DEF DeleteRmdir, GCRmdir, RmdirAndRemove
<1> QED BY <1>1, <1>2, <1>3, <1>4, <1>5, Zenon

\* A restart kills every thread and empties the registry.
LEMMA InvRestart == Inv /\ Restart => Inv'
<1> SUFFICES ASSUME Inv, Restart PROVE Inv'
  OBVIOUS
<1> USE DEF Inv, Typed
<1>1. /\ task' = NoRun /\ adjust' = FALSE
      /\ tpc' = [r \in Runs |-> IF tpc[r] = "none" THEN "none" ELSE
                                IF tpc[r] \in {"refused", "ended"} THEN tpc[r] ELSE "killed"]
      /\ UNCHANGED <<tdir, state, writer, ko>>
  BY DEF Restart, fileVars
<1>2. \A r \in Runs : ~Alive(r)'
  BY <1>1
<1>3. Typed' /\ AdjustsAlone' /\ StateHasPlace' /\ DoneMeansTranslated'
  BY <1>1 DEF AdjustsAlone, StateHasPlace, DoneMeansTranslated
<1>4. RegistryIsExact'
  BY <1>1, <1>2, RunsArePositive DEF RegistryIsExact
<1>5. StateIsOurs' /\ TextIsOurs' /\ NothingRuns'
  BY <1>1, <1>2 DEF StateIsOurs, TextIsOurs, NothingRuns
<1>6. RunningIsAlive'
  BY <1>1 DEF RunningIsAlive, RegistryIsExact
<1> QED BY <1>3, <1>4, <1>5, <1>6

-----------------------------------------------------------------------------
\* No step of a thread, a request, the collector or a restart breaks the invariant.
LEMMA InvStep == Inv /\ [Next]_vars => Inv'
<1> SUFFICES ASSUME Inv, [Next]_vars PROVE Inv'
  OBVIOUS
<1>1. ASSUME NEW r \in Runs, ThreadMoves(r) \/ ThreadUnit(r) PROVE Inv'
  BY <1>1, InvQuietThread, InvMkdir, InvRunning, InvAssemble, InvFinalState, InvPop, Zenon
     DEF ThreadMoves
<1>2. CASE UNCHANGED vars
  BY <1>2, InvElsewhere, Zenon DEF vars, jobVars, fileVars, taskVars, threadVars
<1> QED BY <1>1, <1>2, InvLookup, InvRegister, InvAdjust, InvOthers, InvRestart, Zenon DEF Next

\* The invariant holds in every state.
THEOREM TasksAreRight == Spec => []Inv
BY InvInit, InvStep, PTL DEF Spec

\* The registry names exactly the thread there is, for any number of requests: never two
\* translations of a job side by side, no entry that outlives its thread (api.py:622-645).
THEOREM RegistryNamesTheThread == Spec => []RegistryIsExact
<1>1. Inv => RegistryIsExact
  BY DEF Inv
<1> QED BY <1>1, TasksAreRight, PTL

\* No run ends without its final state, and none leaves the registry before it: a running
\* that nobody works on is a restart's (engine.py:162-490, api.py:113-117).
THEOREM RunningHasItsThread == Spec => []RunningIsAlive
<1>1. Inv => RunningIsAlive
  BY DEF Inv
<1> QED BY <1>1, TasksAreRight, PTL

\* done vouches for the text of the run that said so (engine.py:458-479).
THEOREM DoneVouches == Spec => []DoneMeansTranslated
<1>1. Inv => DoneMeansTranslated
  BY DEF Inv
<1> QED BY <1>1, TasksAreRight, PTL

\* A final state is replaced only by a new run's running, or removed with the job: no reader
\* turns a done into an interruption (api.py:112-127).
THEOREM FinalStateIsKept == Spec => FinalStateStands
<1> DEFINE Stands == state \in Final /\ state' # state => state' \in {"running", "none"}
<1>1. Inv /\ [Next]_vars => [Stands]_vars
  <2> SUFFICES ASSUME Inv, Next, state \in Final, state' # state
               PROVE  state' \in {"running", "none"}
    BY DEF Stands
  <2> USE DEF jobVars, fileVars, taskVars, threadVars
  <2>1. ASSUME NEW r \in Runs, ThreadMoves(r) PROVE state' \in {"running", "none"}
    <3>1. CASE ThreadRunning(r)
      BY <3>1 DEF ThreadRunning, WriteState
    <3>2. CASE ThreadFinalState(r)
      BY <3>2 DEF ThreadFinalState, Inv, StateIsOurs
    <3>3. CASE ~ThreadRunning(r) /\ ~ThreadFinalState(r)
      BY <2>1, <3>3, Zenon DEF ThreadMoves, ThreadMkdir, ThreadRead, ThreadGlossary, ThreadStops,
         ThreadFails, ThreadAssemble, ThreadReport, ThreadAnnounce, ThreadUnlinkArchive, ThreadPop
    <3> QED BY <3>1, <3>2, <3>3
  <2>2. CASE AdjustWrite
    BY <2>2 DEF AdjustWrite, Inv, AdjustsAlone
  <2>3. CASE DeleteUnlink \/ GCUnlink
    BY <2>3 DEF DeleteUnlink, GCUnlink, UnlinkAll
  <2>4. CASE \/ \E r \in Runs : StartLookup(r) \/ StartRegister(r) \/ ThreadUnit(r)
             \/ CancelTranslation \/ AdjustRead
             \/ \E z \in Readers : ArchiveBegin(z) \/ ArchivePack(z) \/ ArchiveReplace(z)
             \/ DeleteCancels \/ DeleteRmdir \/ GCCheck \/ GCRmdir \/ Restart
    BY <2>4, Zenon DEF StartLookup, StartRegister, ThreadUnit, CancelTranslation, AdjustRead,
       ArchiveBegin, ArchivePack, ArchiveReplace, ReaderFrame, DeleteCancels, DeleteRmdir, GCCheck,
       GCRmdir, RmdirAndRemove, Restart
  <2> QED BY <2>1, <2>2, <2>3, <2>4, Zenon DEF Next
<1>2. FinalStateStands <=> [][Stands]_vars
  BY PTL DEF FinalStateStands, Stands
<1> QED BY <1>1, <1>2, TasksAreRight, PTL DEF Spec

-----------------------------------------------------------------------------
(***************************************************************************)
(* The units of one translation: a translation that is done is complete,   *)
(* for any number of units, any number of threads and any period of the    *)
(* cache writes, and for every order in which units end, the user cancels  *)
(* and a unit raises.                                                      *)
(***************************************************************************)
Outcomes == {"cached", "translated", "kept", "canceled", "raised"}

PoolShape ==
  /\ stage = [u \in Units |-> stage[u]]
  /\ outcome = [u \in Units |-> outcome[u]]
  /\ results \in SUBSET Units /\ cutShort \in SUBSET Units
  /\ next \in Nat
  /\ abort \in BOOLEAN /\ cancelSet \in BOOLEAN

\* Until everything is submitted nothing has come back, and what comes next is new.
SubmittedOnce ==
  pc \in {"precheck", "dispatch"} =>
    results = {} /\ \A u \in Units : u >= next => stage[u] = "new"

\* A future that is over and holds nothing any more was collected, and only such a one.
CollectedIsTaken ==
  \A u \in Units : /\ stage[u] = "finished" /\ outcome[u] = "none" => u \in results
                   /\ u \in results => stage[u] = "finished" /\ outcome[u] = "none"

\* A unit that a stop flag cut short can only end as canceled, since flags stay set.
CutShortIsCanceled ==
  \A u \in cutShort : /\ Halted
                      /\ \/ stage[u] = "last"
                         \/ stage[u] = "finished" /\ outcome[u] = "canceled"

DoneHasAll ==
  verdict = "done" => results = Units /\ pc \in {"shutdown", "flush", "settled"}

PoolInv == PoolShape /\ SubmittedOnce /\ CollectedIsTaken /\ CutShortIsCanceled /\ DoneHasAll

-----------------------------------------------------------------------------
\* What a step of a pool thread does to its unit, whichever rung it is on: the unit goes on,
\* or is over with an outcome; it is cut short only if a stop flag is set.
GoesOn(u) == \E to \in OnLadder :
  /\ Goes(u, to)
  /\ stage[u] # "last"
  /\ \/ UNCHANGED cutShort
     \/ Halted /\ to = "last" /\ CutShort(u)
IsOver(u) == \E out \in Outcomes :
  /\ Ends(u, out)
  /\ stage[u] = "last" => out = IF Halted THEN "canceled" ELSE "kept"
  /\ \/ UNCHANGED cutShort
     \/ Halted /\ out = "canceled" /\ CutShort(u)

\* The parts and the stages of their repair are none of the other stages.
LEMMA PartNames ==
  /\ Parts = {"first", "firstA", "firstB", "second", "secondA", "secondB"}
  /\ \A p \in Parts : RepairOf[p] \in OnLadder \ {"last"}
  /\ \A p \in Parts \ {"second", "secondB"} : NextPart[p] \in Parts
  /\ OnLadder \cap {"new", "submitted", "finished"} = {}
BY DEF Parts, RepairOf, NextPart, OnLadder

\* A part that is translated is followed by another, or is the last of its unit.
LEMMA PartEnds ==
  ASSUME NEW u \in Units, NEW p \in Parts, PartDone(u, p) \/ PartFailed(u, p)
  PROVE  \/ \E to \in OnLadder : Goes(u, to)
         \/ Ends(u, "translated")
<1>1. Parts \subseteq OnLadder /\ "last" \in OnLadder /\ "firstA" \in Parts /\ "secondA" \in Parts
  BY PartNames DEF OnLadder
<1>2. CASE PartDone(u, p)
  BY <1>1, <1>2, PartNames, Zenon DEF PartDone
<1>3. CASE PartFailed(u, p)
  BY <1>1, <1>3, Zenon DEF PartFailed
<1> QED BY <1>2, <1>3

\* Every step of a thread is of one of the two kinds, and is of a unit that is not over.
LEMMA UnitStepKinds ==
  ASSUME NEW u \in Units, UnitStep(u)
  PROVE  /\ GoesOn(u) \/ IsOver(u)
         /\ stage[u] \in OnLadder \cup {"submitted"}
         /\ UNCHANGED <<flagVars, mainVars>>
<1>1. UNCHANGED <<flagVars, mainVars>>
  BY Zenon DEF UnitStep, Take, FirstPass, Repair, Split, Fragment, FragmentRepair, Last, UnitFrame
<1>2. /\ {"begin", "ladder", "parts", "last", "first", "second"} \subseteq OnLadder
      /\ Parts \subseteq OnLadder /\ "last" \notin Parts
  BY PartNames DEF OnLadder
<1>3. ASSUME Take(u) PROVE GoesOn(u) /\ stage[u] = "submitted"
  BY <1>2, <1>3 DEF Take, GoesOn
<1>4. ASSUME FirstPass(u) PROVE (GoesOn(u) \/ IsOver(u)) /\ stage[u] = "begin"
  BY <1>2, <1>4 DEF FirstPass, GoesOn, IsOver, Outcomes
<1>5. ASSUME Repair(u) PROVE (GoesOn(u) \/ IsOver(u)) /\ stage[u] = "ladder"
  BY <1>2, <1>5 DEF Repair, GoesOn, IsOver, Outcomes
<1>6. ASSUME Split(u) PROVE (GoesOn(u) \/ IsOver(u)) /\ stage[u] = "parts"
  BY <1>2, <1>6 DEF Split, GoesOn, IsOver, Outcomes
<1>7. ASSUME Fragment(u) PROVE (GoesOn(u) \/ IsOver(u)) /\ stage[u] \in Parts
  BY <1>2, <1>7, PartNames, PartEnds DEF Fragment, GoesOn, IsOver, Outcomes
<1>8. ASSUME FragmentRepair(u) PROVE (GoesOn(u) \/ IsOver(u)) /\ stage[u] \in OnLadder
  BY <1>2, <1>8, PartNames, PartEnds DEF FragmentRepair, GoesOn, IsOver, Outcomes
<1>9. ASSUME Last(u) PROVE IsOver(u) /\ stage[u] = "last"
  BY <1>9 DEF Last, IsOver, Outcomes
<1> QED BY <1>1, <1>2, <1>3, <1>4, <1>5, <1>6, <1>7, <1>8, <1>9, Zenon DEF UnitStep

-----------------------------------------------------------------------------
\* A run that was just started.
LEMMA PoolInvInit == PoolInit => PoolInv
<1> SUFFICES ASSUME PoolInit PROVE PoolInv
  OBVIOUS
<1>1. PoolShape
  BY DEF PoolInit, PoolShape
<1>2. SubmittedOnce /\ CollectedIsTaken
  BY DEF PoolInit, SubmittedOnce, CollectedIsTaken
<1>3. CutShortIsCanceled /\ DoneHasAll
  BY DEF PoolInit, CutShortIsCanceled, DoneHasAll
<1> QED BY <1>1, <1>2, <1>3 DEF PoolInv

\* A unit that goes on was not collected and not cut short before.
LEMMA InvUnitStep ==
  ASSUME PoolInv, NEW u \in Units, UnitStep(u)
  PROVE  PoolInv'
<1> USE DEF PoolInv, PoolShape
<1>1. /\ stage[u] \in OnLadder \cup {"submitted"}
      /\ stage[u] # "finished" /\ stage[u] # "new"
  BY UnitStepKinds, PartNames
<1>2. UNCHANGED <<abort, cancelSet, pc, next, results, verdict>>
  BY UnitStepKinds, Zenon DEF flagVars, mainVars
<1>3. u \notin results
  BY <1>1 DEF CollectedIsTaken
<1>4. SubmittedOnce' /\ DoneHasAll'
  <2>1. \A v \in Units : stage[v] = "new" => stage'[v] = "new"
    BY <1>1, UnitStepKinds DEF GoesOn, IsOver, Goes, Ends
  <2> QED BY <1>2, <2>1 DEF SubmittedOnce, DoneHasAll
<1>5. CASE GoesOn(u)
  <2>1. PICK to \in OnLadder :
           /\ Goes(u, to) /\ stage[u] # "last"
           /\ UNCHANGED cutShort \/ (Halted /\ to = "last" /\ CutShort(u))
    BY <1>5, Zenon DEF GoesOn
  <2>2. to # "finished"
    BY PartNames
  <2>3. PoolShape'
    BY <1>2, <2>1 DEF Goes, CutShort
  <2>4. CollectedIsTaken'
    BY <1>2, <1>3, <2>1, <2>2 DEF Goes, CollectedIsTaken
  <2>5. u \notin cutShort
    BY <1>1, <2>1 DEF CutShortIsCanceled
  <2>6. CutShortIsCanceled'
    <3>1. Halted' = Halted
      BY <1>2 DEF Halted
    <3>2. stage' = [stage EXCEPT ![u] = to] /\ outcome' = outcome
      BY <2>1 DEF Goes
    <3>3. \/ cutShort' = cutShort
          \/ Halted /\ to = "last" /\ cutShort' = cutShort \cup {u}
      BY <2>1 DEF CutShort
    <3>4. \A v \in Units : /\ v # u => stage'[v] = stage[v]
                           /\ stage'[u] = to
      BY <3>2
    <3>5. CASE cutShort' = cutShort
      BY <2>5, <3>1, <3>2, <3>4, <3>5 DEF CutShortIsCanceled
    <3>6. CASE Halted /\ to = "last" /\ cutShort' = cutShort \cup {u}
      BY <2>5, <3>1, <3>2, <3>4, <3>6 DEF CutShortIsCanceled
    <3> QED BY <3>3, <3>5, <3>6
  <2> QED BY <1>4, <2>3, <2>4, <2>6
<1>6. CASE IsOver(u)
  <2>1. PICK out \in Outcomes :
           /\ Ends(u, out)
           /\ stage[u] = "last" => out = IF Halted THEN "canceled" ELSE "kept"
           /\ UNCHANGED cutShort \/ (Halted /\ out = "canceled" /\ CutShort(u))
    BY <1>6, Zenon DEF IsOver
  <2>2. out # "none"
    BY DEF Outcomes
  <2>3. PoolShape'
    BY <1>2, <2>1 DEF Ends, CutShort
  <2>4. CollectedIsTaken'
    BY <1>2, <1>3, <2>1, <2>2 DEF Ends, CollectedIsTaken
  <2>5. CutShortIsCanceled'
    BY <1>1, <1>2, <2>1 DEF Ends, CutShort, CutShortIsCanceled, Halted
  <2> QED BY <1>4, <2>3, <2>4, <2>5
<1> QED BY <1>5, <1>6, UnitStepKinds

-----------------------------------------------------------------------------
\* Submitting: the next unit is one that was never submitted.
LEMMA InvDispatch == PoolInv /\ Dispatch => PoolInv'
<1> SUFFICES ASSUME PoolInv, Dispatch PROVE PoolInv'
  OBVIOUS
<1> USE DEF PoolInv, PoolShape
<1>1. pc = "dispatch" /\ UNCHANGED <<results, abort, cancelSet, cutShort>>
  BY DEF Dispatch, MainFrame, flagVars
<1>2. CASE next \in Units /\ ~cancelSet
  <2>1. /\ stage' = [stage EXCEPT ![next] = "submitted"] /\ UNCHANGED outcome
        /\ next' = next + 1 /\ UNCHANGED <<pc, verdict>>
    BY <1>2 DEF Dispatch, Goes
  <2>2. stage[next] = "new" /\ results = {}
    BY <1>1, <1>2, PoolAssumption DEF SubmittedOnce, Units
  <2>3. PoolShape'
    BY <1>1, <2>1
  <2>4. SubmittedOnce'
    BY <1>1, <2>1, PoolAssumption DEF SubmittedOnce, Units
  <2>5. CollectedIsTaken'
    BY <1>1, <2>1, <2>2 DEF CollectedIsTaken
  <2>6. CutShortIsCanceled'
    BY <1>1, <2>1, <2>2 DEF CutShortIsCanceled, Halted
  <2>7. DoneHasAll'
    BY <1>1, <2>1 DEF DoneHasAll
  <2> QED BY <2>3, <2>4, <2>5, <2>6, <2>7
<1>3. CASE ~(next \in Units /\ ~cancelSet)
  <2>1. /\ UNCHANGED <<stage, outcome, next>>
        /\ pc' \in {"shutdown", "collect"} /\ verdict' \in {verdict, "canceled"}
    BY <1>3 DEF Dispatch
  <2> QED BY <1>1, <2>1 DEF SubmittedOnce, CollectedIsTaken, CutShortIsCanceled, Halted, DoneHasAll
<1> QED BY <1>2, <1>3

\* A unit that is collected with a text was not cut short.
LEMMA InvCollectResult ==
  ASSUME PoolInv, NEW u \in Units, CollectResult(u)
  PROVE  PoolInv'
<1> USE DEF PoolInv, PoolShape
<1>1. /\ pc = "collect" /\ stage[u] = "finished"
      /\ outcome[u] \in {"cached", "translated", "kept"}
      /\ results' = results \cup {u} /\ outcome' = [outcome EXCEPT ![u] = "none"]
      /\ UNCHANGED <<stage, pc, next, verdict, abort, cancelSet, cutShort>>
  BY DEF CollectResult, Forget, Uncollected, Finished, MainFrame, flagVars
<1>2. u \notin cutShort
  BY <1>1 DEF CutShortIsCanceled
<1>3. CutShortIsCanceled'
  BY <1>1, <1>2 DEF CutShortIsCanceled, Halted
<1>4. PoolShape' /\ SubmittedOnce' /\ CollectedIsTaken' /\ DoneHasAll'
  BY <1>1 DEF SubmittedOnce, CollectedIsTaken, DoneHasAll
<1> QED BY <1>3, <1>4

\* What ends the loop drops the units nobody took, and no others.
LEMMA InvStops ==
  ASSUME PoolInv, pc = "collect", pc' = "shutdown", verdict' \in {"canceled", "error"}, DropSubmitted,
         UNCHANGED <<outcome, next, results, cutShort, cancelSet>>, abort' \in {abort, TRUE}
  PROVE  PoolInv'
<1> USE DEF PoolInv, PoolShape
<1>1. stage' = [u \in Units |-> IF stage[u] = "submitted" THEN "dropped" ELSE stage[u]]
  BY DEF DropSubmitted
<1>2. \A u \in Units : /\ stage'[u] = "finished" <=> stage[u] = "finished"
                       /\ stage[u] = "last" => stage'[u] = "last"
  BY <1>1
<1>3. Halted => Halted'
  BY DEF Halted
<1>4. CutShortIsCanceled'
  BY <1>2, <1>3 DEF CutShortIsCanceled
<1>5. PoolShape' /\ SubmittedOnce' /\ CollectedIsTaken' /\ DoneHasAll'
  BY <1>1, <1>2 DEF SubmittedOnce, CollectedIsTaken, DoneHasAll
<1> QED BY <1>4, <1>5

\* as_completed is exhausted: every unit was collected.
LEMMA InvCollected == PoolInv /\ Collected => PoolInv'
BY DEF PoolInv, PoolShape, Collected, MainFrame, flagVars, SubmittedOnce, CollectedIsTaken,
       CutShortIsCanceled, Halted, DoneHasAll

\* No statement of the calling thread breaks the invariant.
LEMMA InvMainStep == PoolInv /\ MainStep => PoolInv'
<1> SUFFICES ASSUME PoolInv, MainStep PROVE PoolInv'
  OBVIOUS
<1>1. CASE PreCheck
  BY <1>1 DEF PreCheck, MainFrame, flagVars, PoolInv, PoolShape, SubmittedOnce, CollectedIsTaken,
              CutShortIsCanceled, Halted, DoneHasAll
<1>2. CASE Shutdown
  BY <1>2 DEF Shutdown, MainFrame, flagVars, PoolInv, PoolShape, SubmittedOnce, CollectedIsTaken,
              CutShortIsCanceled, Halted, DoneHasAll
<1>3. CASE Flush
  BY <1>3 DEF Flush, MainFrame, flagVars, PoolInv, PoolShape, SubmittedOnce, CollectedIsTaken,
              CutShortIsCanceled, Halted, DoneHasAll
<1>4. ASSUME NEW u \in Units, CollectStops(u) PROVE PoolInv'
  BY <1>4, InvStops DEF CollectStops, MainFrame, flagVars
<1>5. ASSUME NEW u \in Units, CollectRaises(u) PROVE PoolInv'
  BY <1>5, InvStops DEF CollectRaises
<1> QED BY <1>1, <1>2, <1>3, <1>4, <1>5, InvDispatch, InvCollectResult, InvCollected, Zenon DEF MainStep

\* No step of a thread, or of the user, breaks the invariant.
LEMMA PoolInvStep == PoolInv /\ [PoolNext]_poolVars => PoolInv'
<1> SUFFICES ASSUME PoolInv, [PoolNext]_poolVars PROVE PoolInv'
  OBVIOUS
<1>1. CASE Cancel
  BY <1>1 DEF Cancel, unitVars, mainVars, PoolInv, PoolShape, SubmittedOnce, CollectedIsTaken,
              CutShortIsCanceled, Halted, DoneHasAll
<1>2. CASE UNCHANGED poolVars
  BY <1>2 DEF poolVars, flagVars, unitVars, mainVars, PoolInv, PoolShape, SubmittedOnce, CollectedIsTaken,
              CutShortIsCanceled, Halted, DoneHasAll
<1> QED BY <1>1, <1>2, InvMainStep, InvUnitStep, Zenon DEF PoolNext

\* The invariant holds in every state of a run.
THEOREM PoolIsRight == PoolSpec => []PoolInv
BY PoolInvInit, PoolInvStep, PTL DEF PoolSpec

\* A translation that is done has every unit of the document and none that a stop flag cut
\* short, in whatever order the units end and whenever the run is canceled (engine.py:385-441).
THEOREM DoneHasEveryUnit == PoolSpec => []DoneIsComplete
<1>1. PoolInv => DoneIsComplete
  BY DEF PoolInv, CollectedIsTaken, CutShortIsCanceled, DoneHasAll, DoneIsComplete
<1> QED BY <1>1, PoolIsRight, PTL
=============================================================================
