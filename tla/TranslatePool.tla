---------------------------- MODULE TranslatePool ----------------------------
(***************************************************************************)
(* The middle of run_translation (translate/engine.py): the units of a     *)
(* document go to a thread pool, each climbs a ladder of API calls (first  *)
(* pass, repair, translation in parts), and the calling thread collects    *)
(* what completes, fills the unit cache and settles the run as done,       *)
(* canceled or error.  The API is external: a call returns a complete      *)
(* translation, a broken one, or raises.                                   *)
(*                                                                         *)
(* A pool thread looks at the two stop flags (the user's cancel and abort, *)
(* which the collector sets when a unit raised) before every call; the     *)
(* look, the call and its outcome are one action here, so a flag that is   *)
(* set during a call counts for the next look.                             *)
(***************************************************************************)
EXTENDS Naturals, FiniteSets

CONSTANTS Count,       \* the number of units to translate
          Concurrency, \* TranslateConfig.concurrency
          FlushEvery   \* units between two periodic writes of units.json

ASSUME PoolAssumption ==
  /\ Count \in Nat /\ Concurrency \in Nat \ {0} /\ FlushEvery \in Nat \ {0}

Units == 1..Count      \* in document order

VARIABLES
  force,      \* cached translations are not read
  stored,     \* units whose translation was in units.json at the start
  cancelSet,  \* the task's cancel event
  abort,      \* the internal stop flag
  pc,         \* the calling thread
  next,       \* the next unit to submit
  stage,      \* per unit: not submitted, submitted, on the ladder, over
  outcome,    \* per unit: what its future holds
  results,    \* the units collected with a text
  kept,       \* kept_original: the units left in the original
  cache,      \* the dictionary in memory ...
  disk,       \* ... and units.json
  verdict,    \* how the loop ended, and with it the final state.json
  cutShort    \* ghost: units whose ladder a stop flag cut short

flagVars == <<force, stored, cancelSet, abort>>
unitVars == <<stage, outcome, cutShort>>
mainVars == <<pc, next, results, kept, cache, disk, verdict>>
poolVars == <<flagVars, unitVars, mainVars>>

Halted == abort \/ cancelSet
\* The parts of a unit that is split: two halves, of a table each in two halves.
RepairOf == [first |-> "firstRepair", firstA |-> "firstARepair", firstB |-> "firstBRepair",
             second |-> "secondRepair", secondA |-> "secondARepair",
             secondB |-> "secondBRepair"]
NextPart == [first |-> "second", firstA |-> "firstB", firstB |-> "second",
             secondA |-> "secondB"]
Parts == DOMAIN RepairOf
OnLadder == {"begin", "ladder", "parts", "last"} \cup Parts \cup {RepairOf[p] : p \in Parts}
Running == {u \in Units : stage[u] \in OnLadder}
Finished == {u \in Units : stage[u] = "finished"}

-----------------------------------------------------------------------------
\* translate_unit

Goes(u, to) == stage' = [stage EXCEPT ![u] = to] /\ UNCHANGED outcome
Ends(u, out) == /\ stage' = [stage EXCEPT ![u] = "finished"]
                /\ outcome' = [outcome EXCEPT ![u] = out]
CutShort(u) == cutShort' = cutShort \cup {u}
UnitFrame == UNCHANGED <<flagVars, mainVars>>

\* Mutant of Take: nothing is taken once the run is stopped.
Take_NotHalted(u) ==
  /\ stage[u] = "submitted" /\ Cardinality(Running) < Concurrency /\ ~Halted
  /\ Goes(u, "begin")
  /\ UNCHANGED cutShort /\ UnitFrame

\* A pool thread takes the oldest unit submitted.
Take(u) ==
  /\ stage[u] = "submitted" /\ Cardinality(Running) < Concurrency
  /\ \A v \in Units : stage[v] = "submitted" => u <= v
  /\ Goes(u, "begin")
  /\ UNCHANGED cutShort /\ UnitFrame

\* The first pass: an API error of it is the whole run's.
FirstPass(u) ==
  /\ stage[u] = "begin"
  /\ IF Halted THEN Ends(u, "canceled") /\ CutShort(u)
     ELSE /\ IF ~force /\ u \in cache THEN Ends(u, "cached")
             ELSE Ends(u, "translated") \/ Ends(u, "raised") \/ Goes(u, "ladder")
          /\ UNCHANGED cutShort
  /\ UnitFrame

\* The repair pass; an API error of it counts as a failed repair.
Repair(u) ==
  /\ stage[u] = "ladder"
  /\ IF Halted THEN Ends(u, "canceled") /\ CutShort(u)
     ELSE (Ends(u, "translated") \/ Goes(u, "parts")) /\ UNCHANGED cutShort
  /\ UnitFrame

\* A table or a text of several sentences is translated in two parts, another
\* unit has reached the end of its ladder.
Split(u) ==
  /\ stage[u] = "parts"
  /\ IF Halted THEN Ends(u, "canceled") /\ CutShort(u)
     ELSE (Goes(u, "first") \/ Goes(u, "last")) /\ UNCHANGED cutShort
  /\ UnitFrame

\* A part that is translated is followed by the next part, or completes the unit.
PartDone(u, part) ==
  IF part \in {"second", "secondB"} THEN Ends(u, "translated") ELSE Goes(u, NextPart[part])

\* A part that failed fails the unit; a half of a table is first tried in halves.
PartFailed(u, part) ==
  \/ Goes(u, "last")
  \/ part = "first" /\ Goes(u, "firstA")
  \/ part = "second" /\ Goes(u, "secondA")

\* _translate_fragment: a call, then a repair call; a stop flag ends it before
\* either, and with it every further part.
Fragment(u) ==
  /\ stage[u] \in Parts
  /\ IF Halted THEN Goes(u, "last") /\ CutShort(u)
     ELSE /\ UNCHANGED cutShort
          /\ \/ PartDone(u, stage[u]) \/ PartFailed(u, stage[u])
             \/ Goes(u, RepairOf[stage[u]])
  /\ UnitFrame

FragmentRepair(u) ==
  /\ \E part \in Parts :
       /\ stage[u] = RepairOf[part]
       /\ IF Halted THEN Goes(u, "last") /\ CutShort(u)
          ELSE (PartDone(u, part) \/ PartFailed(u, part)) /\ UNCHANGED cutShort
  /\ UnitFrame

\* The end of the ladder: the original text is kept, unless a stop flag is set.
Last(u) ==
  /\ stage[u] = "last"
  /\ Ends(u, IF Halted THEN "canceled" ELSE "kept")
  /\ UNCHANGED cutShort /\ UnitFrame

UnitStep(u) == \/ Take(u) \/ FirstPass(u) \/ Repair(u) \/ Split(u)
               \/ Fragment(u) \/ FragmentRepair(u) \/ Last(u)

-----------------------------------------------------------------------------
\* The calling thread

MainFrame == UNCHANGED <<flagVars, cutShort>>

\* The look at the cancel event before anything is dispatched.
PreCheck ==
  /\ pc = "precheck"
  /\ IF cancelSet THEN verdict' = "canceled" /\ pc' = "flush" ELSE pc' = "dispatch" /\ UNCHANGED verdict
  /\ UNCHANGED <<stage, outcome, next, results, kept, cache, disk>> /\ MainFrame

\* Every unit is submitted in its turn; a cancel stops that, and what was
\* submitted before is left to its own look at the flag.
Dispatch ==
  /\ pc = "dispatch"
  /\ IF next \in Units /\ ~cancelSet
     THEN /\ Goes(next, "submitted") /\ next' = next + 1
          /\ UNCHANGED <<pc, verdict>>
     ELSE /\ IF next \in Units THEN pc' = "shutdown" /\ verdict' = "canceled"
                               ELSE pc' = "collect" /\ UNCHANGED verdict
          /\ UNCHANGED <<stage, outcome, next>>
  /\ UNCHANGED <<results, kept, cache, disk>> /\ MainFrame

\* f.cancel() for every future: those no thread took yet are dropped.
DropSubmitted == stage' = [u \in Units |-> IF stage[u] = "submitted" THEN "dropped" ELSE stage[u]]

Uncollected == {u \in Finished : outcome[u] # "none"}  \* completed, not yet yielded
Forget(u) == outcome' = [outcome EXCEPT ![u] = "none"]

\* as_completed yields a future: the cancel event is read, then its result.
CollectStops(u) ==
  /\ pc = "collect" /\ u \in Uncollected
  /\ cancelSet \/ outcome[u] = "canceled"
  /\ verdict' = "canceled" /\ pc' = "shutdown" /\ DropSubmitted
  /\ UNCHANGED <<outcome, next, results, kept, cache, disk>> /\ MainFrame

\* Mutant of CollectRaises: a unit that raised is passed over.
CollectRaises_PassedOver(u) ==
  /\ pc = "collect" /\ u \in Uncollected /\ ~cancelSet
  /\ outcome[u] = "raised"
  /\ Forget(u)
  /\ UNCHANGED <<flagVars, cutShort, stage, pc, next, results, kept, cache, disk, verdict>>

CollectRaises(u) ==
  /\ pc = "collect" /\ u \in Uncollected /\ ~cancelSet
  /\ outcome[u] = "raised"
  /\ abort' = TRUE
  /\ verdict' = "error" /\ pc' = "shutdown" /\ DropSubmitted
  /\ UNCHANGED <<force, stored, cancelSet, cutShort, outcome, next, results, kept, cache, disk>>

CollectResult(u) ==
  /\ pc = "collect" /\ u \in Uncollected /\ ~cancelSet
  /\ outcome[u] \in {"cached", "translated", "kept"}
  /\ results' = results \cup {u}
  /\ kept' = IF outcome[u] = "kept" THEN kept \cup {u} ELSE kept
  /\ cache' = IF outcome[u] = "translated" THEN cache \cup {u} ELSE cache
  /\ disk' = IF Cardinality(results') % FlushEvery = 0 THEN cache' ELSE disk
  /\ Forget(u)
  /\ UNCHANGED <<stage, pc, next, verdict>> /\ MainFrame

\* as_completed is exhausted.
Collected ==
  /\ pc = "collect" /\ \A u \in Units : stage[u] = "finished" /\ outcome[u] = "none"
  /\ verdict' = "done" /\ pc' = "shutdown"
  /\ UNCHANGED <<stage, outcome, next, results, kept, cache, disk>> /\ MainFrame

\* The executor's exit waits for every future that was not dropped.
Shutdown ==
  /\ pc = "shutdown"
  /\ \A u \in Units : stage[u] \in {"new", "dropped", "finished"}
  /\ pc' = "flush"
  /\ UNCHANGED <<stage, outcome, next, results, kept, cache, disk, verdict>> /\ MainFrame

\* finally: flush_cache; then the final state is written.
Flush ==
  /\ pc = "flush"
  /\ disk' = cache
  /\ pc' = "settled"
  /\ UNCHANGED <<stage, outcome, next, results, kept, cache, verdict>> /\ MainFrame

MainStep == \/ PreCheck \/ Dispatch \/ Collected \/ Shutdown \/ Flush
            \/ \E u \in Units : CollectStops(u) \/ CollectRaises(u) \/ CollectResult(u)

-----------------------------------------------------------------------------
\* POST /translate/cancel, or DELETE of the job.
Cancel ==
  /\ ~cancelSet /\ cancelSet' = TRUE
  /\ UNCHANGED <<force, stored, abort, unitVars, mainVars>>

PoolInit ==
  /\ force \in BOOLEAN /\ stored \in SUBSET Units
  /\ cancelSet = FALSE /\ abort = FALSE
  /\ pc = "precheck" /\ next = 1
  /\ stage = [u \in Units |-> "new"] /\ outcome = [u \in Units |-> "none"]
  /\ results = {} /\ kept = {}
  /\ cache = stored /\ disk = stored
  /\ verdict = "none" /\ cutShort = {}

PoolNext == MainStep \/ Cancel \/ \E u \in Units : UnitStep(u)

PoolSpec == PoolInit /\ [][PoolNext]_poolVars

\* Every API call returns or times out, so all the threads keep moving.
PoolLiveSpec == PoolSpec /\ WF_poolVars(MainStep) /\ \A u \in Units : WF_poolVars(UnitStep(u))

-----------------------------------------------------------------------------
\* A translation is complete or it is not done: no unit is missing from a text
\* that is put together, whatever the order in which futures complete, and none
\* of them is a unit a stop flag cut short (engine.py:385-441).
DoneIsComplete ==
  verdict = "done" => results = Units /\ cutShort \cap results = {}

\* Every run settles, however calls fail and whenever it is cancelled.
RunSettles == <>(pc = "settled")

\* engine.py:439: the translations of completed units are kept on every path,
\* "also when an error propagates".
CompletedIsCached ==
  pc = "settled" => \A u \in Finished : outcome[u] = "translated" => u \in disk
=============================================================================
