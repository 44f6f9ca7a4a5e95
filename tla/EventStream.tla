----------------------------- MODULE EventStream -----------------------------
(***************************************************************************)
(* The live progress stream of one job: the EventBroker with its bounded   *)
(* queue per subscriber (jobs.py), the SSE generator of                    *)
(* GET /jobs/{id}/events (api.py), and what the worker publishes and when  *)
(* (jobs.py, pipeline/runner.py).  GET /jobs/{id}/translate/events follows *)
(* the same protocol with state.json in the place of Job.status.           *)
(*                                                                         *)
(* A subscriber is one open response: a browser that reconnects is another *)
(* subscriber.  There is one publisher per channel, the worker thread.  It *)
(* copies the subscriber list under the broker's lock and then puts into   *)
(* one queue after the other without it, so that subscribing, leaving and  *)
(* taking from a queue fall between any two of its steps.  A put into a    *)
(* full queue drops a token; for another event it takes the oldest entry   *)
(* out and puts again, and gives up when a reader emptied the queue first. *)
(***************************************************************************)
EXTENDS Naturals, Sequences, SequencesExt

CONSTANTS Subscribers, \* the responses opened on the channel
          Capacity,    \* _EVENT_QUEUE_MAX
          MaxEvents    \* bound: events published before the one that ends the job

ASSUME StreamAssumption == Capacity \in Nat \ {0} /\ MaxEvents \in Nat

VARIABLES
  status,      \* Job.status
  cancelSet,   \* the job's cancel event
  deleting,    \* Job.delete_requested
  log,         \* what was published so far: the kinds, in order
  ppc,         \* the publisher: idle, about to fan out, putting, evicting
  targets,     \* its copy of the subscriber list, what is left of it
  subs,        \* EventBroker._subs of the channel
  queues,      \* per subscriber: the positions in log its queue holds
  cpc,         \* per subscriber: where its generator is
  got,         \* per subscriber: the positions in log it was sent
  since,       \* per subscriber: Len(log) when it subscribed
  skipped      \* ghost: subscribers whose put was given up

workerVars == <<status, log, ppc, targets>>
clientVars == <<cpc, got, since>>
vars == <<workerVars, cancelSet, deleting, subs, queues, clientVars, skipped>>

Settled == {"done", "error", "canceled"}
Kinds == {"token", "progress", "done", "error"}

-----------------------------------------------------------------------------
\* EventBroker.publish

\* The call itself: the event becomes the newest of the log.
Publish(kind) == /\ log' = Append(log, kind)
                 /\ ppc' = "fanout"
                 /\ UNCHANGED targets

CopySubscribers ==
  /\ ppc = "fanout"
  /\ targets' = subs
  /\ ppc' = "put"
  /\ UNCHANGED <<status, log, cancelSet, deleting, subs, queues, clientVars, skipped>>

NextTarget == targets' = Tail(targets) /\ ppc' = "put"

\* Mutant of Put: a full queue drops whatever comes.
Put_DropsAny ==
  /\ ppc = "put" /\ targets # <<>>
  /\ LET c == Head(targets) IN
       queues' = IF Len(queues[c]) < Capacity
                 THEN [queues EXCEPT ![c] = Append(@, Len(log))] ELSE queues
  /\ NextTarget
  /\ UNCHANGED <<status, log, cancelSet, deleting, subs, clientVars, skipped>>

\* put_nowait, and Full: a token is dropped, anything else makes room.
Put ==
  /\ ppc = "put" /\ targets # <<>>
  /\ LET c == Head(targets) IN
       IF Len(queues[c]) < Capacity
       THEN /\ queues' = [queues EXCEPT ![c] = Append(@, Len(log))]
            /\ NextTarget
       ELSE /\ IF Last(log) = "token" THEN NextTarget ELSE ppc' = "evict" /\ UNCHANGED targets
            /\ UNCHANGED queues
  /\ UNCHANGED <<status, log, cancelSet, deleting, subs, clientVars, skipped>>

\* get_nowait: the oldest entry goes, or Empty ends the attempt.
Evict ==
  /\ ppc = "evict"
  /\ LET c == Head(targets) IN
       IF queues[c] # <<>>
       THEN /\ queues' = [queues EXCEPT ![c] = Tail(@)]
            /\ ppc' = "put" /\ UNCHANGED <<targets, skipped>>
       ELSE /\ skipped' = skipped \cup {c}
            /\ NextTarget /\ UNCHANGED queues
  /\ UNCHANGED <<status, log, cancelSet, deleting, subs, clientVars>>

Published ==
  /\ ppc = "put" /\ targets = <<>>
  /\ ppc' = "idle"
  /\ UNCHANGED <<status, log, targets, cancelSet, deleting, subs, queues, clientVars, skipped>>

-----------------------------------------------------------------------------
\* The worker and execute_job

WorkerFrame == UNCHANGED <<cancelSet, deleting, subs, queues, clientVars, skipped>>

\* The note that the model is loading, and render and chunk progress.
Progress ==
  /\ ppc = "idle" /\ status \notin Settled /\ Len(log) < MaxEvents
  /\ Publish("progress")
  /\ UNCHANGED status /\ WorkerFrame

Token ==
  /\ ppc = "idle" /\ status = "running" /\ Len(log) < MaxEvents
  /\ Publish("token")
  /\ UNCHANGED status /\ WorkerFrame

\* execute_job begins: the status first, then a progress event.
Begin ==
  /\ ppc = "idle" /\ status = "queued"
  /\ status' = "running"
  /\ ppc' = "begun" /\ UNCHANGED <<log, targets>> /\ WorkerFrame

AnnounceBegin ==
  /\ ppc = "begun"
  /\ Publish("progress")
  /\ UNCHANGED status /\ WorkerFrame

\* The job settles: the status is written (and saved), the event comes after.
\* From queued that is a failed load of the model.
Settle(s) ==
  /\ ppc = "idle"
  /\ status = "running" \/ (status = "queued" /\ s = "error")
  /\ s = "canceled" => cancelSet
  /\ status' = s
  /\ ppc' = "settled" /\ UNCHANGED <<log, targets>> /\ WorkerFrame

AnnounceEnd ==
  /\ ppc = "settled"
  /\ Publish(IF status = "done" THEN "done" ELSE "error")
  /\ UNCHANGED status /\ WorkerFrame

\* The wait for the model is cut short by a cancel: no event if the job is
\* being deleted.
WaitCanceled ==
  /\ ppc = "idle" /\ status = "queued" /\ cancelSet
  /\ status' = "canceled"
  /\ ppc' = "waitCanceled" /\ UNCHANGED <<log, targets>> /\ WorkerFrame

AnnounceWaitCanceled ==
  /\ ppc = "waitCanceled"
  /\ IF deleting THEN ppc' = "idle" /\ UNCHANGED <<log, targets>> ELSE Publish("error")
  /\ UNCHANGED status /\ WorkerFrame

\* A job cancelled or deleted before its turn is dropped without an event.
DropUnrun ==
  /\ ppc = "idle" /\ status = "queued" /\ (cancelSet \/ deleting)
  /\ status' = "canceled"
  /\ UNCHANGED <<log, ppc, targets>> /\ WorkerFrame

WorkerStep == \/ CopySubscribers \/ Put \/ Evict \/ Published
              \/ Progress \/ Token \/ Begin \/ AnnounceBegin
              \/ \E s \in Settled : Settle(s)
              \/ AnnounceEnd \/ WaitCanceled \/ AnnounceWaitCanceled \/ DropUnrun

-----------------------------------------------------------------------------
\* POST /jobs/{id}/cancel and DELETE /jobs/{id}

Cancel ==
  /\ ~cancelSet /\ status \notin Settled
  /\ cancelSet' = TRUE
  /\ UNCHANGED <<workerVars, deleting, subs, queues, clientVars, skipped>>

\* delete_requested, and the event after it or (by Cancel) later.
Delete ==
  /\ ~deleting
  /\ deleting' = TRUE /\ cancelSet' \in {cancelSet, TRUE}
  /\ UNCHANGED <<workerVars, subs, queues, clientVars, skipped>>

-----------------------------------------------------------------------------
\* The generator of GET /jobs/{id}/events

ClientFrame == UNCHANGED <<workerVars, cancelSet, deleting, skipped>>
ClientTo(c, pc) == cpc' = [cpc EXCEPT ![c] = pc]
Unsubscribe(c) == \E i \in DOMAIN subs : subs[i] = c /\ subs' = RemoveAt(subs, i)

\* broker.subscribe, with a new and empty queue.
Subscribe(c) ==
  /\ cpc[c] = "new"
  /\ subs' = Append(subs, c)
  /\ since' = [since EXCEPT ![c] = Len(log)]
  /\ ClientTo(c, "subscribed")
  /\ UNCHANGED <<queues, got>> /\ ClientFrame

\* Mutant of Snapshot: a settled job is not recognised.
Snapshot_Blind(c) ==
  /\ cpc[c] = "subscribed"
  /\ ClientTo(c, "live")
  /\ UNCHANGED <<subs, queues, got, since>> /\ ClientFrame

\* The snapshot: a settled job ends the stream, any other starts the loop.
Snapshot(c) ==
  /\ cpc[c] = "subscribed"
  /\ IF status \in Settled THEN ClientTo(c, "ended") /\ Unsubscribe(c)
                           ELSE ClientTo(c, "live") /\ UNCHANGED subs
  /\ UNCHANGED <<queues, got, since>> /\ ClientFrame

\* Mutant of Poll: only done ends the stream.
Poll_OnlyDone(c) ==
  /\ cpc[c] = "live" /\ queues[c] # <<>>
  /\ queues' = [queues EXCEPT ![c] = Tail(@)]
  /\ got' = [got EXCEPT ![c] = @ \cup {Head(queues[c])}]
  /\ IF log[Head(queues[c])] = "done" THEN ClientTo(c, "ended") /\ Unsubscribe(c)
                                      ELSE UNCHANGED <<cpc, subs>>
  /\ UNCHANGED since /\ ClientFrame

\* _sse_poll returns an event, and it is sent; done and error end the stream.
Poll(c) ==
  /\ cpc[c] = "live" /\ queues[c] # <<>>
  /\ queues' = [queues EXCEPT ![c] = Tail(@)]
  /\ got' = [got EXCEPT ![c] = @ \cup {Head(queues[c])}]
  /\ IF log[Head(queues[c])] \in {"done", "error"}
     THEN ClientTo(c, "ended") /\ Unsubscribe(c)
     ELSE UNCHANGED <<cpc, subs>>
  /\ UNCHANGED since /\ ClientFrame

\* request.is_disconnected, or the response is torn down.
Leave(c) ==
  /\ cpc[c] \in {"subscribed", "live"}
  /\ ClientTo(c, "gone") /\ Unsubscribe(c)
  /\ UNCHANGED <<queues, got, since>> /\ ClientFrame

-----------------------------------------------------------------------------
Init ==
  /\ status = "queued" /\ cancelSet = FALSE /\ deleting = FALSE
  /\ log = <<>> /\ ppc = "idle" /\ targets = <<>>
  /\ subs = <<>>
  /\ queues = [c \in Subscribers |-> <<>>]
  /\ cpc = [c \in Subscribers |-> "new"]
  /\ got = [c \in Subscribers |-> {}]
  /\ since = [c \in Subscribers |-> 0]
  /\ skipped = {}

Next == \/ WorkerStep
        \/ Cancel \/ Delete
        \/ \E c \in Subscribers : Subscribe(c) \/ Snapshot(c) \/ Poll(c) \/ Leave(c)

Spec == Init /\ [][Next]_vars

\* The generator is driven by the event loop and polls for ever; the worker
\* finishes every publish.  Nobody has to open a stream, or to stay on it.
Fairness == /\ WF_vars(WorkerStep)
            /\ \A c \in Subscribers : WF_vars(Snapshot(c)) /\ WF_vars(Poll(c))

LiveSpec == Spec /\ Fairness

-----------------------------------------------------------------------------
EndPublished == log # <<>> /\ Last(log) \in {"done", "error"}
Queued(c) == ToSet(queues[c])

\* A stream that is open when the end of the job was published holds the end.
\* The generator subscribes first and reads the status second, the worker writes
\* the status first and publishes second: whoever is late sees the other, so no
\* response waits for an end that went by (api.py:320-339, runner.py:446-456).
NoSilentEnd ==
  \A c \in Subscribers :
    (cpc[c] = "live" /\ EndPublished /\ ppc = "idle" /\ c \notin skipped)
      => Len(log) \in Queued(c)

\* A full queue costs old events, never the newest one that is not a token: what
\* the last progress or end event said reaches every reader (jobs.py:294-303).
LatestSurvives ==
  \A c \in Subscribers : \A i \in 1..Len(log) :
    (/\ cpc[c] = "live" /\ ppc = "idle" /\ c \notin skipped
     /\ since[c] < i /\ log[i] # "token"
     /\ \A k \in i+1..Len(log) : log[k] = "token")
      => i \in got[c] \cup Queued(c)

\* Every response that is open when the job's end was published is ended by the
\* server, unless its reader left before (api.py:341-356).
WatcherIsReleased ==
  \A c \in Subscribers :
    (cpc[c] = "live" /\ EndPublished /\ c \notin skipped)
       ~> (cpc[c] \in {"ended", "gone"} \/ c \in skipped)

\* docs/ARCHITECTURE.md:234: a cancelled job sends an error event with
\* "canceled": true: once the worker settled a job, its end was published.
SettledIsAnnounced ==
  (status \in Settled /\ ppc = "idle" /\ ~deleting) => EndPublished
=============================================================================
