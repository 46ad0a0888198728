------------------------------ MODULE FetchPool -------------------------------
(***************************************************************************)
(* Completed Download Handling: the fetch pool of internal/importer and    *)
(* the handlers that reach into it.  The tick loop and every successful    *)
(* fetch list the due rows and hand them to fetch goroutines (dispatch);   *)
(* a goroutine holds one slot of activeFetches from startFetch until its   *)
(* outcome is known, and records a failure only after giving the slot      *)
(* back.  Deletes cancel a running fetch and wait for it, the retention    *)
(* sweep at the end of a tick deletes old rows, users send rows back to be *)
(* fetched again, and the process may be killed at any point.              *)
(*                                                                         *)
(* Network and disk calls between two steps of a goroutine are where other *)
(* goroutines run; what a goroutine read before such a call stays in its   *)
(* own "due", "task" or "sweep".                                           *)
(***************************************************************************)
EXTENDS Database, FiniteSets

CONSTANTS
  Fetchers,         \* fetch goroutines alive at once (a bound of the model)
  Ticker,           \* the goroutine of Importer.Run
  MaxConcurrent,    \* max_concurrent_downloads
  MaxRetries,       \* import_max_retries
  CancelTimesOut,   \* whether CancelFetch's 10 s wait may run out
  Retention,        \* whether the two cleanup policies are switched on
  MaxRequests,      \* bound: delete and retry requests in a behaviour
  MaxRestarts       \* bound: process restarts in a behaviour

ASSUME PoolAssumption ==
  /\ Downloads # {}
  /\ Ticker \notin Fetchers
  /\ MaxConcurrent \in Nat \ {0}
  /\ MaxRetries \in Nat \ {0}
  /\ CancelTimesOut \in BOOLEAN
  /\ Retention \in BOOLEAN
  /\ MaxRequests \in Nat
  /\ MaxRestarts \in Nat

VARIABLES
  active,       \* keys of activeFetches: the downloads holding a slot
  pc,           \* where each goroutine stands
  task,         \* fetcher -> snapshot of the row it was started with
  cancelled,    \* fetchers whose context carries errFetchCancelled
  due,          \* goroutine -> rows its dispatch has still to go through
  sweep,        \* rows a retention sweep has still to remove
  swept,        \* the row of the sweep whose files are already removed
  disk,         \* downloads with local files
  del,          \* download -> progress of a delete request for it
  retrying,     \* downloads a retry request found in a retryable state
  requests, restarts     \* counters of the two bounds

handlers == <<del, retrying>>
bounds == <<requests, restarts>>
poolVars == <<active, pc, task, cancelled, due, sweep, swept, disk, handlers, bounds>>
vars == <<rows, poolVars>>

Dispatchers == Fetchers \cup {Ticker}

\* What the record of a goroutine that does not exist holds.
NoTask == [id |-> CHOOSE id \in Downloads : TRUE, state |-> "provider_completed",
           retries |-> 0, report |-> 0]

\* From startFetch to doneFetch a goroutine owns its download's slot.
Holding(f) == pc[f] \in {"fetch", "written", "saved"}

\* No goroutine there: the record can stand for a new one.
Free(f) == pc[f] = "idle" /\ due[f] = {}

PoolTypeOK ==
  /\ rows \in [Downloads -> Row]
  /\ active \in SUBSET Downloads
  /\ pc \in [Dispatchers -> {"idle", "dispatch", "completed", "fetch", "written",
                          "saved", "refill", "failed", "giveup"}]
  /\ task \in [Fetchers -> Snapshot]
  /\ cancelled \in SUBSET Fetchers
  /\ due \in [Dispatchers -> SUBSET Snapshot]
  /\ sweep \in SUBSET Downloads
  /\ swept \in SUBSET Downloads
  /\ disk \in SUBSET Downloads
  /\ del \in [Downloads -> {"none", "waiting", "overdue", "stopped", "wiped"}]
  /\ retrying \in SUBSET Downloads
  /\ requests \in 0..MaxRequests
  /\ restarts \in 0..MaxRestarts

PoolInit ==
  /\ rows = [id \in Downloads |-> NewRow]
  /\ active = {}
  /\ pc = [p \in Dispatchers |-> "idle"]
  /\ task = [f \in Fetchers |-> NoTask]
  /\ cancelled = {}
  /\ due = [p \in Dispatchers |-> {}]
  /\ sweep = {} /\ swept = {}
  /\ disk = {}
  /\ del = [id \in Downloads |-> "none"]
  /\ retrying = {}
  /\ requests = 0 /\ restarts = 0

-------------------------------------------------------------------------------
(***************************************************************************)
(* dispatch: a tick, or a fetch that succeeded, lists the due rows once    *)
(* and walks the list in added_at order.                                   *)
(***************************************************************************)
SweepDone == sweep = {} /\ swept = {}

TickDispatch ==
  /\ pc[Ticker] = "idle" /\ SweepDone
  /\ due' = [due EXCEPT ![Ticker] = SnapshotsOf(ListDownloadsDueForRetry)]
  /\ pc' = [pc EXCEPT ![Ticker] = "dispatch"]
  /\ UNCHANGED <<rows, active, task, cancelled, sweep, swept, disk, handlers, bounds>>

\* runFetch after a success: the freed slot is refilled at once.
Refill(f) ==
  /\ pc[f] = "refill"
  /\ due' = [due EXCEPT ![f] = SnapshotsOf(ListDownloadsDueForRetry)]
  /\ pc' = [pc EXCEPT ![f] = "idle"]
  /\ UNCHANGED <<rows, active, task, cancelled, sweep, swept, disk, handlers, bounds>>

\* startFetch finds the download in flight: the walk goes on.
SkipInFlight(p, s) ==
  /\ Oldest(s, due[p])
  /\ s.id \in active
  /\ due' = [due EXCEPT ![p] = @ \ {s}]
  /\ UNCHANGED <<rows, active, pc, task, cancelled, sweep, swept, disk, handlers, bounds>>

\* startFetch finds every slot taken: the walk ends.  Bound: it also ends
\* when Fetchers has no free record left for a new goroutine.
StopWhenFull(p, s) ==
  /\ Oldest(s, due[p])
  /\ s.id \notin active
  /\ Cardinality(active) >= MaxConcurrent \/ \A f \in Fetchers \ {p} : ~Free(f)
  /\ due' = [due EXCEPT ![p] = {}]
  /\ UNCHANGED <<rows, active, pc, task, cancelled, sweep, swept, disk, handlers, bounds>>

\* Mutation: the count is compared before the new fetch is included.
StartFetchOffByOne(p, s, f) ==
  /\ Oldest(s, due[p])
  /\ s.id \notin active
  /\ Cardinality(active) <= MaxConcurrent
  /\ Free(f)
  /\ active' = active \cup {s.id}
  /\ due' = [due EXCEPT ![p] = @ \ {s}]
  /\ pc' = [pc EXCEPT ![f] = "fetch"]
  /\ task' = [task EXCEPT ![f] = s]
  /\ UNCHANGED <<rows, cancelled, sweep, swept, disk, handlers, bounds>>

\* startFetch counts and registers under one lock, then a goroutine runs.
StartFetch(p, s, f) ==
  /\ Oldest(s, due[p])
  /\ s.id \notin active
  /\ Cardinality(active) < MaxConcurrent
  /\ Free(f)
  /\ active' = active \cup {s.id}
  /\ due' = [due EXCEPT ![p] = @ \ {s}]
  /\ pc' = [pc EXCEPT ![f] = "fetch"]
  /\ task' = [task EXCEPT ![f] = s]
  /\ UNCHANGED <<rows, cancelled, sweep, swept, disk, handlers, bounds>>

Dispatch(p) ==
  \E s \in due[p] :
    \/ SkipInFlight(p, s)
    \/ StopWhenFull(p, s)
    \/ \E f \in Fetchers : StartFetch(p, s, f)

-------------------------------------------------------------------------------
(***************************************************************************)
(* processReserved and the end of runFetch.                                *)
(***************************************************************************)
Goes(f, next) == pc' = [pc EXCEPT ![f] = next]
Ends(f) == Goes(f, "idle") /\ task' = [task EXCEPT ![f] = NoTask]

\* Files arrive in the download's own directory (none when all are filtered
\* out: the directory itself is made).
FetchWrites(f) ==
  /\ pc[f] = "fetch" /\ f \notin cancelled
  /\ disk' = disk \cup {task[f].id}
  /\ Goes(f, "written")
  /\ UNCHANGED <<rows, active, task, cancelled, due, sweep, swept, handlers, bounds>>

\* doneFetch: close(done) lets a waiting delete go on, the slot is free.
DoneFetch(f) ==
  /\ active' = active \ {task[f].id}
  /\ cancelled' = cancelled \ {f}
  /\ del' = [del EXCEPT ![task[f].id] = IF @ = "waiting" THEN "stopped" ELSE @]

\* Mutation: an empty file list counts as a finished download.
FetchSavesNothing(f) ==
  /\ pc[f] \in {"fetch", "written"} /\ f \notin cancelled
  /\ Stored(task[f].id)
  /\ UpdateDownloadStatus(task[f].id, "ready_for_import", task[f].report)
  /\ Goes(f, "saved")
  /\ UNCHANGED <<active, task, cancelled, due, sweep, swept, disk, handlers, bounds>>

\* Mutation: the provider's name of the state is stored.
FetchSavesProviderState(f) ==
  /\ pc[f] = "written" /\ f \notin cancelled
  /\ Stored(task[f].id)
  /\ UpdateDownloadStatus(task[f].id, "completed", task[f].report)
  /\ Goes(f, "saved")
  /\ UNCHANGED <<active, task, cancelled, due, sweep, swept, disk, handlers, bounds>>

\* The last file is there: mark ready_for_import, a failure if the row is gone.
FetchSaves(f) ==
  /\ pc[f] = "written" /\ f \notin cancelled
  /\ Stored(task[f].id)
  /\ UpdateDownloadStatus(task[f].id, "ready_for_import", task[f].report)
  /\ Goes(f, "saved")
  /\ UNCHANGED <<active, task, cancelled, due, sweep, swept, disk, handlers, bounds>>

\* The provider's copy has been dealt with (delete-after-fetch).
FetchSucceeds(f) ==
  /\ pc[f] = "saved"
  /\ DoneFetch(f)
  /\ Goes(f, "refill") /\ task' = [task EXCEPT ![f] = NoTask]
  /\ UNCHANGED <<rows, due, sweep, swept, disk, retrying, bounds>>

\* Mutation: an early return leaves the slot registered.
FetchFailsLeaking(f) ==
  /\ pc[f] \in {"fetch", "written"} /\ f \notin cancelled
  /\ Goes(f, "failed")
  /\ UNCHANGED <<rows, active, task, cancelled, due, sweep, swept, disk, handlers, bounds>>

\* A provider, network, disk or database error; whole files stay where they
\* are.  The slot is given back before the failure is recorded.
FetchFails(f) ==
  /\ pc[f] \in {"fetch", "written"} /\ f \notin cancelled
  /\ DoneFetch(f)
  /\ Goes(f, "failed")
  /\ UNCHANGED <<rows, task, due, sweep, swept, disk, retrying, bounds>>

\* However a cancelled fetch surfaces its end, it is reported as a removal.
FetchStops(f) ==
  /\ pc[f] \in {"fetch", "written"} /\ f \in cancelled
  /\ DoneFetch(f)
  /\ Ends(f)
  /\ UNCHANGED <<rows, due, sweep, swept, disk, retrying, bounds>>

\* handleFailure, first statement: the attempt is counted from the snapshot.
RecordFailure(f) ==
  /\ pc[f] = "failed"
  /\ LET id == task[f].id
         attempt == task[f].retries + 1
         last == attempt >= MaxRetries
     IN /\ UpdateDownloadRetry(id, attempt, ~last)
        /\ IF last /\ Stored(id) THEN Goes(f, "giveup") /\ UNCHANGED task ELSE Ends(f)
  /\ UNCHANGED <<active, cancelled, due, sweep, swept, disk, handlers, bounds>>

\* handleFailure, second statement of the last attempt.
GiveUp(f) ==
  /\ pc[f] = "giveup"
  /\ UpdateDownloadStatus(task[f].id, "error", task[f].report)
  /\ Ends(f)
  /\ UNCHANGED <<active, cancelled, due, sweep, swept, disk, handlers, bounds>>

Fetch(f) ==
  \/ FetchWrites(f) \/ FetchSaves(f) \/ FetchSucceeds(f) \/ FetchFails(f)
  \/ FetchStops(f) \/ Refill(f) \/ RecordFailure(f) \/ GiveUp(f)

-------------------------------------------------------------------------------
(***************************************************************************)
(* The retention sweeps, run by the tick after its dispatch: each lists    *)
(* its rows once, then removes them one by one with a provider call in     *)
(* between.                                                                *)
(***************************************************************************)
CleanupOldDownloads ==
  /\ pc[Ticker] = "dispatch" /\ due[Ticker] = {}
  /\ sweep' = IF Retention THEN ListDownloadsEligibleForCleanup ELSE {}
  /\ pc' = [pc EXCEPT ![Ticker] = "completed"]
  /\ UNCHANGED <<rows, active, task, cancelled, due, swept, disk, handlers, bounds>>

CleanupErroredDownloads ==
  /\ pc[Ticker] = "completed" /\ SweepDone
  /\ sweep' = IF Retention THEN ListErroredDownloadsEligibleForCleanup ELSE {}
  /\ pc' = [pc EXCEPT ![Ticker] = "idle"]
  /\ UNCHANGED <<rows, active, task, cancelled, due, swept, disk, handlers, bounds>>

\* cleanupDownload up to the provider call.
CleanupFiles(id) ==
  /\ id \in sweep /\ swept = {}
  /\ disk' = disk \ {id}
  /\ sweep' = sweep \ {id} /\ swept' = {id}
  /\ UNCHANGED <<rows, active, pc, task, cancelled, due, handlers, bounds>>

\* cleanupDownload after it.
CleanupRow(id) ==
  /\ id \in swept
  /\ DeleteDownload(id)
  /\ swept' = {}
  /\ UNCHANGED <<active, pc, task, cancelled, due, sweep, disk, handlers, bounds>>

\* A tick once its dispatch has listed the due rows.
TickGoesOn ==
  \/ Dispatch(Ticker) \/ CleanupOldDownloads \/ CleanupErroredDownloads
  \/ \E id \in Downloads : CleanupFiles(id) \/ CleanupRow(id)

-------------------------------------------------------------------------------
(***************************************************************************)
(* Requests: delete and retry.                                             *)
(***************************************************************************)
\* Mutation: the fetch is asked to stop, nobody waits until it has.
DeleteBeginsNoWait(id) ==
  /\ del[id] = "none" /\ Stored(id)
  /\ requests < MaxRequests /\ requests' = requests + 1
  /\ cancelled' = cancelled \cup {f \in Fetchers : Holding(f) /\ task[f].id = id}
  /\ del' = [del EXCEPT ![id] = "stopped"]
  /\ UNCHANGED <<rows, active, pc, task, due, sweep, swept, disk, retrying, restarts>>

\* Mutation: CancelFetch itself forgets the fetch it cancels.
DeleteBeginsForgetting(id) ==
  /\ del[id] = "none" /\ Stored(id)
  /\ requests < MaxRequests /\ requests' = requests + 1
  /\ cancelled' = cancelled \cup {f \in Fetchers : Holding(f) /\ task[f].id = id}
  /\ active' = active \ {id}
  /\ del' = [del EXCEPT ![id] = IF id \in active THEN "waiting" ELSE "stopped"]
  /\ UNCHANGED <<rows, pc, task, due, sweep, swept, disk, retrying, restarts>>

\* The row is read, then CancelFetch: wait for a running fetch, or return.
DeleteBegins(id) ==
  /\ del[id] = "none" /\ Stored(id)
  /\ requests < MaxRequests /\ requests' = requests + 1
  /\ cancelled' = cancelled \cup {f \in Fetchers : Holding(f) /\ task[f].id = id}
  /\ del' = [del EXCEPT ![id] = IF id \in active THEN "waiting" ELSE "stopped"]
  /\ UNCHANGED <<rows, active, pc, task, due, sweep, swept, disk, retrying, restarts>>

DeleteGivesUpWaiting(id) ==
  /\ del[id] = "waiting" /\ CancelTimesOut
  /\ del' = [del EXCEPT ![id] = "overdue"]
  /\ UNCHANGED <<rows, active, pc, task, cancelled, due, sweep, swept, disk, retrying, bounds>>

\* Provider delete, then the local files when the request asks for it.
DeleteFiles(id) ==
  /\ del[id] \in {"stopped", "overdue"}
  /\ \E deleteFiles \in BOOLEAN :
       disk' = IF deleteFiles THEN disk \ {id} ELSE disk
  /\ del' = [del EXCEPT ![id] = "wiped"]
  /\ UNCHANGED <<rows, active, pc, task, cancelled, due, sweep, swept, retrying, bounds>>

\* The tombstone is on record; the row goes.
DeleteRow(id) ==
  /\ del[id] = "wiped"
  /\ DeleteDownload(id)
  /\ del' = [del EXCEPT ![id] = "none"]
  /\ UNCHANGED <<active, pc, task, cancelled, due, sweep, swept, disk, retrying, bounds>>

Delete(id) ==
  \/ DeleteBegins(id) \/ DeleteGivesUpWaiting(id) \/ DeleteFiles(id) \/ DeleteRow(id)

RetryableState == {"error", "ready_for_import", "provider_completed"}

RetryBegins(id) ==
  /\ id \notin retrying /\ rows[id].state \in RetryableState
  /\ requests < MaxRequests
  /\ requests' = requests + 1
  /\ retrying' = retrying \cup {id}
  /\ UNCHANGED <<rows, active, pc, task, cancelled, due, sweep, swept, disk, del, restarts>>

RetryApplies(id) ==
  /\ id \in retrying
  /\ RetryDownload(id)
  /\ retrying' = retrying \ {id}
  /\ UNCHANGED <<active, pc, task, cancelled, due, sweep, swept, disk, del, bounds>>

-------------------------------------------------------------------------------
\* The process dies or is shut down: goroutines and requests are lost with
\* their memory, rows and files stay.
Restart ==
  /\ restarts < MaxRestarts
  /\ restarts' = restarts + 1
  /\ active' = {} /\ cancelled' = {} /\ sweep' = {} /\ swept' = {} /\ retrying' = {}
  /\ pc' = [p \in Dispatchers |-> "idle"]
  /\ task' = [f \in Fetchers |-> NoTask]
  /\ due' = [p \in Dispatchers |-> {}]
  /\ del' = [id \in Downloads |-> "none"]
  /\ UNCHANGED <<rows, disk, requests>>

\* A refresh finds the provider done; module Refresh has the real thing.
ProviderCompletes(id) ==
  /\ rows[id].state = "queued"
  /\ UpdateDownloadStatus(id, "provider_completed", 1)
  /\ UNCHANGED poolVars

\* Nobody stands between two steps, except in a transfer: the only time in
\* which the days of a retention period can pass.
Quiet ==
  /\ SweepDone /\ retrying = {} /\ pc[Ticker] = "idle"
  /\ \A f \in Fetchers : pc[f] \in {"idle", "fetch", "written"} /\ due[f] = {}
  /\ \A id \in Downloads : del[id] = "none"

TimePasses(id) ==
  /\ \/ BackoffElapses(id)
     \/ /\ Retention /\ Quiet
        /\ id \notin active /\ rows[id].state \in {"ready_for_import", "error"}
        /\ GrowsOld(id)
  /\ UNCHANGED poolVars

PoolStep ==
  \/ TickGoesOn
  \/ \E f \in Fetchers : Fetch(f) \/ Dispatch(f)
  \/ \E id \in Downloads : Delete(id) \/ RetryBegins(id) \/ RetryApplies(id) \/ TimePasses(id)

PoolNext == TickDispatch \/ PoolStep \/ Restart \/ \E id \in Downloads : ProviderCompletes(id)

PoolSpec == PoolInit /\ [][PoolNext]_vars

-------------------------------------------------------------------------------
(***************************************************************************)
(* Fairness.  The ticker keeps firing and a tick never waits for fetches;  *)
(* the idle timeout ends every fetch one way or the other; a request that  *)
(* has begun is served; backoff is a finite time.  Nothing is assumed of   *)
(* users, of the provider or of restarts.                                  *)
(***************************************************************************)
PoolFairness ==
  /\ WF_vars(TickDispatch \/ TickGoesOn)
  /\ \A f \in Fetchers : WF_vars(Fetch(f) \/ Dispatch(f))
  /\ \A id \in Downloads :
       /\ WF_vars(DeleteFiles(id) \/ DeleteRow(id))
       /\ WF_vars(RetryApplies(id))
       /\ WF_vars(TimePasses(id))

FairPoolSpec == PoolSpec /\ PoolFairness

-------------------------------------------------------------------------------
(***************************************************************************)
(* Properties.                                                             *)
(***************************************************************************)
\* max_concurrent_downloads bounds the downloads in flight across ticks and
\* refills, however their dispatches interleave (dispatch, startFetch).
PoolWithinLimit == Cardinality(active) <= MaxConcurrent

\* Two goroutines never write into one download's directory: whoever fetches
\* owns that download's entry of activeFetches alone, although due lists are
\* stale by the time they are walked (activeFetches, startFetch).
OneFetchPerDownload ==
  /\ \A f \in Fetchers : Holding(f) => task[f].id \in active
  /\ \A f, g \in Fetchers :
       Holding(f) /\ Holding(g) /\ task[f].id = task[g].id => f = g

\* A row is ready_for_import only while its files are on disk, unless a
\* delete or a sweep has removed them and is about to remove the row: nothing
\* else leaves an *arr app an empty folder to import (processReserved).
ReadyHasFiles ==
  \A id \in Downloads :
    rows[id].state = "ready_for_import" =>
      id \in disk \/ del[id] = "wiped" \/ id \in swept

\* A delete that has not run out of its 10 s goes on to the files only when
\* the fetch it cancelled has stopped: CancelFetch returns after doneFetch.
CancelWaits ==
  \A f \in cancelled : Holding(f) => del[task[f].id] # "stopped"

\* The pool implements the abstract slots: it never overshoots, doubles or
\* swaps a slot in one step, whatever the goroutines around it do.
Slots == INSTANCE FetchSlots WITH Names <- Downloads, Limit <- MaxConcurrent,
                                  holders <- active
ImplementsSlots == Slots!Spec

\* A finished download is fetched or given up in the end: no due row is
\* starved by full slots, skipped rows, stale lists, backoff or a restart
\* (dispatch, runFetch, handleFailure).
EveryDueSettles ==
  \A id \in Downloads :
    rows[id].state = "provider_completed" ~> rows[id].state # "provider_completed"
===============================================================================
