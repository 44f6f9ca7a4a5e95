----------------------------- MODULE JobService -----------------------------
(***************************************************************************)
(* The job resource as a client of the HTTP API sees it: the documented    *)
(* statuses queued, running, done, error and canceled, a job that is gone  *)
(* after a DELETE, and what a restart of the server may do to each.  How   *)
(* queue, worker, cancel events and disk bring this about is the business  *)
(* of JobLifecycle.                                                        *)
(***************************************************************************)
CONSTANTS Jobs,
          WritesMayFail \* a full disk may turn a finished job into an error

VARIABLE view

Settled == {"done", "error", "canceled"}

Init == view = [j \in Jobs |-> "none"]

Moves(j, from, to) == view[j] \in from /\ view' = [view EXCEPT ![j] = to]

Accept(j) == Moves(j, {"none"}, "queued")
Start(j)  == Moves(j, {"queued"}, "running")
Finish(j) == Moves(j, {"running"}, "done")
Fail(j)   == \/ Moves(j, {"queued", "running"}, "error")
             \/ WritesMayFail /\ Moves(j, {"done"}, "error")
Cancel(j) == Moves(j, {"queued", "running"}, "canceled")
Remove(j) == Moves(j, Settled \cup {"queued", "running"}, "gone")

\* A restart leaves no job waiting or running.  Only what was on disk survives
\* it: a status not yet saved falls back to error, a deletion not yet carried
\* out is forgotten.
Restart == /\ view' \in [Jobs -> Settled \cup {"none", "gone"}]
           /\ \A j \in Jobs : /\ view[j] = "none" <=> view'[j] = "none"
                              /\ view[j] \in {"error", "canceled"} => view'[j] \in {view[j], "error", "gone"}

Next == \/ \E j \in Jobs : Accept(j) \/ Start(j) \/ Finish(j) \/ Fail(j) \/ Cancel(j) \/ Remove(j)
        \/ Restart

Spec == Init /\ [][Next]_view
=============================================================================
