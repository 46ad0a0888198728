--------------------------- MODULE FetchPoolProofs ----------------------------
(***************************************************************************)
(* Theorems about the fetch pool, for any downloads, any number of fetch   *)
(* goroutines, any limits and any bounds.                                  *)
(***************************************************************************)
EXTENDS FetchPool, FiniteSetTheorems, TLAPS

USE DownloadsAssumption, PoolAssumption

-------------------------------------------------------------------------------
(***************************************************************************)
(* Types.                                                                  *)
(***************************************************************************)
LEMMA NoTaskType == NoTask \in Snapshot
BY DEF NoTask, Snapshot, States

\* A statement that writes a row of the right type keeps the table's type.
LEMMA WriteType ==
  ASSUME rows \in [Downloads -> Row], NEW id \in Downloads, NEW row \in Row, Write(id, row)
  PROVE  rows' \in [Downloads -> Row]
BY DEF Write

LEMMA StatementTypes ==
  ASSUME rows \in [Downloads -> Row], NEW id \in Downloads
  PROVE  /\ \A state \in States, report \in Nat :
              UpdateDownloadStatus(id, state, report) => rows' \in [Downloads -> Row]
         /\ \A retries \in Nat, backoff \in BOOLEAN :
              UpdateDownloadRetry(id, retries, backoff) => rows' \in [Downloads -> Row]
         /\ RetryDownload(id) => rows' \in [Downloads -> Row]
         /\ DeleteDownload(id) => rows' \in [Downloads -> Row]
         /\ BackoffElapses(id) => rows' \in [Downloads -> Row]
         /\ GrowsOld(id) => rows' \in [Downloads -> Row]
<1>0. rows[id] \in Row
  OBVIOUS
<1>1. ASSUME NEW state \in States, NEW report \in Nat, UpdateDownloadStatus(id, state, report)
      PROVE  rows' \in [Downloads -> Row]
  <2>1. [rows[id] EXCEPT !.state = state, !.report = report, !.aged = FALSE] \in Row
    BY <1>0 DEF Row
  <2> QED BY <2>1, <1>1, WriteType DEF UpdateDownloadStatus
<1>2. ASSUME NEW retries \in Nat, NEW backoff \in BOOLEAN, UpdateDownloadRetry(id, retries, backoff)
      PROVE  rows' \in [Downloads -> Row]
  <2>1. [rows[id] EXCEPT !.retries = retries, !.backoff = backoff,
                    !.aged = @ /\ rows[id].state = "ready_for_import"] \in Row
    BY <1>0 DEF Row
  <2> QED BY <2>1, <1>2, WriteType DEF UpdateDownloadRetry
<1>3. ASSUME RetryDownload(id) PROVE rows' \in [Downloads -> Row]
  <2>1. [rows[id] EXCEPT !.state = "provider_completed", !.retries = 0,
                    !.backoff = FALSE, !.aged = FALSE] \in Row
    BY <1>0 DEF Row, States
  <2> QED BY <2>1, <1>3, WriteType DEF RetryDownload
<1>4. ASSUME DeleteDownload(id) PROVE rows' \in [Downloads -> Row]
  <2>1. [rows[id] EXCEPT !.state = "gone", !.report = 0, !.retries = 0,
                    !.backoff = FALSE, !.aged = FALSE] \in Row
    BY <1>0 DEF Row
  <2> QED BY <2>1, <1>4, WriteType DEF DeleteDownload
<1>5. ASSUME BackoffElapses(id) PROVE rows' \in [Downloads -> Row]
  <2>1. [rows[id] EXCEPT !.backoff = FALSE] \in Row
    BY <1>0 DEF Row
  <2>2. rows' = [rows EXCEPT ![id] = [rows[id] EXCEPT !.backoff = FALSE]]
    BY <1>5 DEF BackoffElapses
  <2> QED BY <2>1, <2>2
<1>6. ASSUME GrowsOld(id) PROVE rows' \in [Downloads -> Row]
  <2>1. [rows[id] EXCEPT !.aged = TRUE] \in Row
    BY <1>0 DEF Row
  <2>2. rows' = [rows EXCEPT ![id] = [rows[id] EXCEPT !.aged = TRUE]]
    BY <1>6 DEF GrowsOld
  <2> QED BY <2>1, <2>2
<1> QED BY <1>1, <1>2, <1>3, <1>4, <1>5, <1>6

LEMMA DueType ==
  ASSUME rows \in [Downloads -> Row]
  PROVE  SnapshotsOf(ListDownloadsDueForRetry) \subseteq Snapshot
BY DEF SnapshotsOf, SnapshotOf, ListDownloadsDueForRetry, Snapshot, Row, States

LEMMA TypeInit == PoolInit => PoolTypeOK
<1> SUFFICES ASSUME PoolInit PROVE PoolTypeOK
  OBVIOUS
<1>1. NewRow \in Row
  BY DEF NewRow, Row, States
<1>2. rows \in [Downloads -> Row]
  BY <1>1 DEF PoolInit
<1>3. task \in [Fetchers -> Snapshot]
  BY NoTaskType DEF PoolInit
<1> QED BY <1>2, <1>3 DEF PoolInit, PoolTypeOK, Dispatchers

\* The dispatches of the ticker and of the fetchers.
LEMMA DispatchType ==
  ASSUME PoolTypeOK, NEW p \in Dispatchers, Dispatch(p)
  PROVE  PoolTypeOK'
<1> USE DEF PoolTypeOK, Dispatchers, handlers, bounds
<1> PICK s \in due[p] : \/ SkipInFlight(p, s)
                       \/ StopWhenFull(p, s)
                       \/ \E f \in Fetchers : StartFetch(p, s, f)
  BY DEF Dispatch
<1>0. s \in Snapshot /\ s.id \in Downloads
  BY DEF Snapshot
<1>1. CASE SkipInFlight(p, s)
  BY <1>1 DEF SkipInFlight
<1>2. CASE StopWhenFull(p, s)
  BY <1>2 DEF StopWhenFull
<1>3. ASSUME NEW f \in Fetchers, StartFetch(p, s, f) PROVE PoolTypeOK'
  BY <1>0, <1>3 DEF StartFetch
<1> QED BY <1>1, <1>2, <1>3

\* A goroutine that ends its fetch gives the slot back.
LEMMA DoneFetchType ==
  ASSUME PoolTypeOK, NEW f \in Fetchers, DoneFetch(f)
  PROVE  /\ active' \in SUBSET Downloads
         /\ cancelled' \in SUBSET Fetchers
         /\ del' \in [Downloads -> {"none", "waiting", "overdue", "stopped", "wiped"}]
BY DEF DoneFetch, PoolTypeOK

LEMMA FetchType ==
  ASSUME PoolTypeOK, NEW f \in Fetchers, Fetch(f)
  PROVE  PoolTypeOK'
<1> USE DEF PoolTypeOK, Dispatchers, handlers, bounds, Goes, Ends
<1>0. /\ task[f] \in Snapshot
      /\ task[f].id \in Downloads /\ task[f].report \in Nat /\ task[f].retries \in Nat
  BY DEF Snapshot
<1>1. CASE FetchWrites(f)
  BY <1>0, <1>1 DEF FetchWrites
<1>2. CASE FetchSaves(f)
  <2>1. rows' \in [Downloads -> Row]
    BY <1>0, <1>2, StatementTypes DEF FetchSaves, States
  <2> QED BY <2>1, <1>2 DEF FetchSaves
<1>3. CASE FetchSucceeds(f)
  BY <1>3, NoTaskType, DoneFetchType DEF FetchSucceeds
<1>4. CASE FetchFails(f)
  BY <1>4, DoneFetchType DEF FetchFails
<1>5. CASE FetchStops(f)
  BY <1>5, NoTaskType, DoneFetchType DEF FetchStops
<1>6. CASE Refill(f)
  BY <1>6, DueType DEF Refill
<1>7. CASE RecordFailure(f)
  <2>1. UpdateDownloadRetry(task[f].id, task[f].retries + 1,
                            ~(task[f].retries + 1 >= MaxRetries))
    BY <1>7, Zenon DEF RecordFailure
  <2>2. task[f].retries + 1 \in Nat
    BY <1>0
  <2>3. rows' \in [Downloads -> Row]
    BY <1>0, <2>1, <2>2, StatementTypes, Zenon
  <2> QED BY <2>3, <1>7, NoTaskType DEF RecordFailure
<1>8. CASE GiveUp(f)
  <2>1. rows' \in [Downloads -> Row]
    BY <1>0, <1>8, StatementTypes DEF GiveUp, States
  <2> QED BY <2>1, <1>8, NoTaskType DEF GiveUp
<1> QED BY <1>1, <1>2, <1>3, <1>4, <1>5, <1>6, <1>7, <1>8 DEF Fetch

LEMMA TickType ==
  ASSUME PoolTypeOK, TickDispatch \/ TickGoesOn
  PROVE  PoolTypeOK'
<1> USE DEF PoolTypeOK, Dispatchers, handlers, bounds
<1>1. CASE TickDispatch
  BY <1>1, DueType DEF TickDispatch
<1>2. CASE Dispatch(Ticker)
  BY <1>2, DispatchType
<1>3. CASE CleanupOldDownloads
  BY <1>3 DEF CleanupOldDownloads, ListDownloadsEligibleForCleanup
<1>4. CASE CleanupErroredDownloads
  BY <1>4 DEF CleanupErroredDownloads, ListErroredDownloadsEligibleForCleanup
<1>5. ASSUME NEW id \in Downloads, CleanupFiles(id) PROVE PoolTypeOK'
  BY <1>5 DEF CleanupFiles
<1>6. ASSUME NEW id \in Downloads, CleanupRow(id) PROVE PoolTypeOK'
  <2>1. rows' \in [Downloads -> Row]
    BY <1>6, StatementTypes DEF CleanupRow
  <2> QED BY <2>1, <1>6 DEF CleanupRow
<1> QED BY <1>1, <1>2, <1>3, <1>4, <1>5, <1>6 DEF TickGoesOn

LEMMA RequestType ==
  ASSUME PoolTypeOK, NEW id \in Downloads,
         Delete(id) \/ RetryBegins(id) \/ RetryApplies(id)
  PROVE  PoolTypeOK'
<1> USE DEF PoolTypeOK, Dispatchers, handlers, bounds
<1>1. CASE DeleteBegins(id)
  BY <1>1 DEF DeleteBegins
<1>2. CASE DeleteGivesUpWaiting(id)
  BY <1>2 DEF DeleteGivesUpWaiting
<1>3. CASE DeleteFiles(id)
  BY <1>3 DEF DeleteFiles
<1>4. CASE DeleteRow(id)
  <2>1. rows' \in [Downloads -> Row]
    BY <1>4, StatementTypes DEF DeleteRow
  <2> QED BY <2>1, <1>4 DEF DeleteRow
<1>5. CASE RetryBegins(id)
  BY <1>5 DEF RetryBegins
<1>6. CASE RetryApplies(id)
  <2>1. rows' \in [Downloads -> Row]
    BY <1>6, StatementTypes DEF RetryApplies
  <2> QED BY <2>1, <1>6 DEF RetryApplies
<1> QED BY <1>1, <1>2, <1>3, <1>4, <1>5, <1>6 DEF Delete

LEMMA OutsideType ==
  ASSUME PoolTypeOK, NEW id \in Downloads,
         TimePasses(id) \/ Restart \/ ProviderCompletes(id)
  PROVE  PoolTypeOK'
<1> USE DEF PoolTypeOK, Dispatchers, handlers, bounds
<1>1. CASE TimePasses(id)
  <2>1. rows' \in [Downloads -> Row]
    BY <1>1, StatementTypes DEF TimePasses
  <2> QED BY <2>1, <1>1 DEF TimePasses, poolVars
<1>2. CASE Restart
  BY <1>2, NoTaskType DEF Restart
<1>3. CASE ProviderCompletes(id)
  <2>1. rows' \in [Downloads -> Row]
    BY <1>3, StatementTypes DEF ProviderCompletes, States
  <2> QED BY <2>1, <1>3 DEF ProviderCompletes, poolVars
<1> QED BY <1>1, <1>2, <1>3

LEMMA TypeStep == PoolTypeOK /\ [PoolNext]_vars => PoolTypeOK'
<1> SUFFICES ASSUME PoolTypeOK, [PoolNext]_vars PROVE PoolTypeOK'
  OBVIOUS
<1>1. CASE TickDispatch \/ TickGoesOn
  BY <1>1, TickType
<1>2. ASSUME NEW f \in Fetchers, Fetch(f) \/ Dispatch(f) PROVE PoolTypeOK'
  BY <1>2, FetchType, DispatchType DEF Dispatchers
<1>3. ASSUME NEW id \in Downloads, Delete(id) \/ RetryBegins(id) \/ RetryApplies(id)
      PROVE  PoolTypeOK'
  BY <1>3, RequestType
<1>4. ASSUME NEW id \in Downloads, TimePasses(id) \/ ProviderCompletes(id) PROVE PoolTypeOK'
  BY <1>4, OutsideType
<1>5. CASE Restart
  BY <1>5, OutsideType
<1>6. CASE UNCHANGED vars
  BY <1>6 DEF vars, poolVars, handlers, bounds, PoolTypeOK
<1> QED BY <1>1, <1>2, <1>3, <1>4, <1>5, <1>6 DEF PoolNext, PoolStep

\* Every variable of the pool keeps its type: in particular a row only ever
\* gets a state of the local state machine and a whole number of retries,
\* whatever snapshot the statement that wrote it was computed from.
THEOREM PoolTypes == PoolSpec => []PoolTypeOK
BY TypeInit, TypeStep, PTL DEF PoolSpec

-------------------------------------------------------------------------------
(***************************************************************************)
(* Slots.  Of all the actions only startFetch, DoneFetch, CancelFetch and  *)
(* a restart touch what the slot properties speak of; SlotSteps says so    *)
(* once, and the theorems below only look at those.                        *)
(***************************************************************************)
EndsFetch(f) == FetchSucceeds(f) \/ FetchFails(f) \/ FetchStops(f)

\* No slot, owner or cancellation changes and no delete gets past its wait.
Undisturbed ==
  /\ UNCHANGED <<active, cancelled>>
  /\ \A f \in Fetchers : /\ Holding(f)' <=> Holding(f)
                         /\ Holding(f) => task'[f] = task[f]
  /\ \A id \in Downloads : del'[id] = "stopped" => del[id] = "stopped"

LEMMA SlotSteps ==
  ASSUME PoolTypeOK, [PoolNext]_vars
  PROVE  \/ \E p \in Dispatchers : \E s \in Snapshot, f \in Fetchers : StartFetch(p, s, f)
         \/ \E f \in Fetchers : EndsFetch(f)
         \/ \E id \in Downloads : DeleteBegins(id)
         \/ Restart
         \/ Undisturbed
<1> DEFINE Goal == \/ \E p \in Dispatchers : \E s \in Snapshot, f \in Fetchers : StartFetch(p, s, f)
                   \/ \E f \in Fetchers : EndsFetch(f)
                   \/ \E id \in Downloads : DeleteBegins(id)
                   \/ Restart
                   \/ Undisturbed
<1>0. \A f \in Fetchers : f # Ticker
  OBVIOUS
<1>1. ASSUME UNCHANGED <<active, cancelled, pc, task, del>> PROVE Undisturbed
  BY <1>1 DEF Undisturbed, Holding
<1>2. ASSUME NEW p \in Dispatchers, Dispatch(p) PROVE Goal
  <2>1. PICK s \in due[p] : \/ SkipInFlight(p, s)
                          \/ StopWhenFull(p, s)
                          \/ \E f \in Fetchers : StartFetch(p, s, f)
    BY <1>2 DEF Dispatch
  <2>2. s \in Snapshot
    BY DEF PoolTypeOK
  <2>3. CASE SkipInFlight(p, s)
    BY <1>1, <2>3 DEF SkipInFlight, handlers
  <2>4. CASE StopWhenFull(p, s)
    BY <1>1, <2>4 DEF StopWhenFull, handlers
  <2> QED BY <2>1, <2>2, <2>3, <2>4
<1>3. ASSUME UNCHANGED <<active, cancelled, task, del>>, NEW next, pc' = [pc EXCEPT ![Ticker] = next]
      PROVE  Undisturbed
  BY <1>0, <1>3 DEF Undisturbed, Holding, PoolTypeOK
<1>4. CASE TickDispatch
  BY <1>3, <1>4 DEF TickDispatch, handlers
<1>5. CASE TickGoesOn
  <2>1. CASE CleanupOldDownloads
    BY <1>3, <2>1 DEF CleanupOldDownloads, handlers
  <2>2. CASE CleanupErroredDownloads
    BY <1>3, <2>2 DEF CleanupErroredDownloads, handlers
  <2>3. ASSUME NEW id \in Downloads, CleanupFiles(id) \/ CleanupRow(id) PROVE Undisturbed
    BY <1>1, <2>3 DEF CleanupFiles, CleanupRow, handlers
  <2> QED BY <1>2, <1>5, <2>1, <2>2, <2>3 DEF TickGoesOn, Dispatchers
<1>6. ASSUME NEW f \in Fetchers, Fetch(f) PROVE Goal
  <2> USE DEF PoolTypeOK, Dispatchers
  <2>1. CASE EndsFetch(f)
    BY <2>1
  <2>2. CASE FetchWrites(f)
    BY <2>2 DEF FetchWrites, Goes, Undisturbed, Holding, handlers
  <2>3. CASE FetchSaves(f)
    BY <2>3 DEF FetchSaves, Goes, Undisturbed, Holding, handlers
  <2>4. CASE Refill(f)
    BY <2>4 DEF Refill, Undisturbed, Holding, handlers
  <2>5. CASE RecordFailure(f)
    <3>1. /\ pc[f] = "failed" /\ UNCHANGED <<active, cancelled, del>>
          /\ \/ pc' = [pc EXCEPT ![f] = "giveup"] /\ UNCHANGED task
             \/ pc' = [pc EXCEPT ![f] = "idle"] /\ task' = [task EXCEPT ![f] = NoTask]
      BY <2>5 DEF RecordFailure, Goes, Ends, handlers
    <3> QED BY <3>1 DEF Undisturbed, Holding
  <2>6. CASE GiveUp(f)
    BY <2>6 DEF GiveUp, Goes, Ends, Undisturbed, Holding, handlers
  <2> QED BY <1>6, <2>1, <2>2, <2>3, <2>4, <2>5, <2>6 DEF Fetch, EndsFetch
<1>7. ASSUME NEW id \in Downloads, Delete(id) PROVE Goal
  <2> USE DEF PoolTypeOK
  <2>1. CASE DeleteGivesUpWaiting(id)
    BY <2>1 DEF DeleteGivesUpWaiting, Undisturbed, Holding
  <2>2. CASE DeleteFiles(id)
    BY <2>2 DEF DeleteFiles, Undisturbed, Holding
  <2>3. CASE DeleteRow(id)
    BY <2>3 DEF DeleteRow, Undisturbed, Holding
  <2> QED BY <1>7, <2>1, <2>2, <2>3 DEF Delete
<1>8. ASSUME NEW id \in Downloads,
             RetryBegins(id) \/ RetryApplies(id) \/ TimePasses(id) \/ ProviderCompletes(id)
      PROVE  Undisturbed
  BY <1>1, <1>8 DEF RetryBegins, RetryApplies, TimePasses, ProviderCompletes, poolVars, handlers
<1>9. CASE UNCHANGED vars
  BY <1>1, <1>9 DEF vars, poolVars, handlers
<1> QED BY <1>2, <1>4, <1>5, <1>6, <1>7, <1>8, <1>9 DEF PoolNext, PoolStep, Dispatchers

-------------------------------------------------------------------------------
FiniteWithinLimit == IsFiniteSet(active) /\ PoolWithinLimit

LEMMA WithinLimitStep ==
  ASSUME PoolTypeOK, [PoolNext]_vars, FiniteWithinLimit
  PROVE  FiniteWithinLimit'
<1> USE DEF FiniteWithinLimit, PoolWithinLimit
<1>1. ASSUME NEW p \in Dispatchers, NEW s \in Snapshot, NEW f \in Fetchers, StartFetch(p, s, f)
      PROVE  FiniteWithinLimit'
  <2>1. /\ s.id \notin active /\ Cardinality(active) < MaxConcurrent
        /\ active' = active \cup {s.id}
    BY <1>1 DEF StartFetch
  <2>2. IsFiniteSet(active') /\ Cardinality(active') = Cardinality(active) + 1
    BY <2>1, FS_AddElement
  <2>3. Cardinality(active) \in Nat
    BY FS_CardinalityType
  <2> QED BY <2>1, <2>2, <2>3
<1>2. ASSUME NEW f \in Fetchers, EndsFetch(f) PROVE FiniteWithinLimit'
  <2>1. active' = active \ {task[f].id}
    BY <1>2 DEF EndsFetch, FetchSucceeds, FetchFails, FetchStops, DoneFetch
  <2>2. IsFiniteSet(active') /\ Cardinality(active') <= Cardinality(active)
    BY <2>1, FS_Subset
  <2>3. Cardinality(active) \in Nat /\ Cardinality(active') \in Nat
    BY <2>2, FS_CardinalityType
  <2> QED BY <2>2, <2>3
<1>3. CASE Restart
  BY <1>3, FS_EmptySet DEF Restart
<1>4. ASSUME UNCHANGED active PROVE FiniteWithinLimit'
  BY <1>4
<1> QED BY <1>1, <1>2, <1>3, <1>4, SlotSteps DEF DeleteBegins, Undisturbed

\* max_concurrent_downloads is never exceeded, for any limit and any number of
\* downloads and goroutines: every way a download gets into activeFetches
\* compares the count in the same step, and every goroutine that ends gives
\* back a slot.
THEOREM WithinLimit == PoolSpec => []PoolWithinLimit
<1>1. PoolInit => FiniteWithinLimit
  BY FS_EmptySet DEF PoolInit, FiniteWithinLimit, PoolWithinLimit
<1>2. PoolTypeOK /\ FiniteWithinLimit /\ [PoolNext]_vars => FiniteWithinLimit'
  BY WithinLimitStep
<1>3. FiniteWithinLimit => PoolWithinLimit
  BY DEF FiniteWithinLimit
<1> QED BY <1>1, <1>2, <1>3, PoolTypes, PTL DEF PoolSpec

-------------------------------------------------------------------------------
LEMMA OneFetchStep ==
  ASSUME PoolTypeOK, [PoolNext]_vars, OneFetchPerDownload
  PROVE  OneFetchPerDownload'
<1> USE DEF OneFetchPerDownload, Holding
<1>1. ASSUME NEW p \in Dispatchers, NEW s \in Snapshot, NEW f \in Fetchers, StartFetch(p, s, f)
      PROVE  OneFetchPerDownload'
  <2>1. /\ s.id \notin active /\ active' = active \cup {s.id}
        /\ pc' = [pc EXCEPT ![f] = "fetch"] /\ task' = [task EXCEPT ![f] = s]
    BY <1>1 DEF StartFetch
  <2>2. /\ Holding(f)' /\ task'[f] = s
        /\ \A g \in Fetchers \ {f} : (Holding(g)' <=> Holding(g)) /\ task'[g] = task[g]
    BY <2>1 DEF PoolTypeOK, Dispatchers
  <2> QED BY <2>1, <2>2
<1>2. ASSUME NEW f \in Fetchers, EndsFetch(f) PROVE OneFetchPerDownload'
  <2>1. Holding(f) /\ active' = active \ {task[f].id}
    BY <1>2 DEF EndsFetch, FetchSucceeds, FetchFails, FetchStops, DoneFetch
  <2>2. /\ ~Holding(f)'
        /\ \A g \in Fetchers \ {f} : (Holding(g)' <=> Holding(g)) /\ task'[g] = task[g]
    BY <1>2 DEF EndsFetch, FetchSucceeds, FetchFails, FetchStops, Goes, Ends,
         PoolTypeOK, Dispatchers
  <2> QED BY <2>1, <2>2
<1>3. ASSUME NEW id \in Downloads, DeleteBegins(id) PROVE OneFetchPerDownload'
  BY <1>3 DEF DeleteBegins
<1>4. CASE Restart
  BY <1>4 DEF Restart, Dispatchers
<1>5. CASE Undisturbed
  BY <1>5 DEF Undisturbed
<1> QED BY <1>1, <1>2, <1>3, <1>4, <1>5, SlotSteps

\* No two goroutines ever fetch one download at a time, however stale the due
\* list was that a dispatch started the second one from, and every goroutine
\* that fetches is visible in activeFetches, where a delete looks for it.
THEOREM OneFetch == PoolSpec => []OneFetchPerDownload
<1>1. PoolInit => OneFetchPerDownload
  BY DEF PoolInit, OneFetchPerDownload, Holding, Dispatchers
<1>2. PoolTypeOK /\ OneFetchPerDownload /\ [PoolNext]_vars => OneFetchPerDownload'
  BY OneFetchStep
<1> QED BY <1>1, <1>2, PoolTypes, PTL DEF PoolSpec

-------------------------------------------------------------------------------
(***************************************************************************)
(* A cancelled goroutine still holds its slot: that no cancellation is     *)
(* left over for the next fetch is what makes CancelWaits inductive.       *)
(***************************************************************************)
CancelledHold == \A f \in cancelled : Holding(f)
CancelInv == CancelledHold /\ CancelWaits

LEMMA CancelStep ==
  ASSUME PoolTypeOK, [PoolNext]_vars, OneFetchPerDownload, CancelInv
  PROVE  CancelInv'
<1> USE DEF CancelInv, CancelledHold, CancelWaits
<1>0. cancelled \subseteq Fetchers
  BY DEF PoolTypeOK
<1>1. ASSUME NEW p \in Dispatchers, NEW s \in Snapshot, NEW f \in Fetchers, StartFetch(p, s, f)
      PROVE  CancelInv'
  <2>1. ~Holding(f)
    BY <1>1 DEF StartFetch, Free, Holding
  <2>2. \A g \in cancelled : g # f /\ (Holding(g)' <=> Holding(g)) /\ task'[g] = task[g]
    BY <1>0, <1>1, <2>1 DEF StartFetch, Holding, PoolTypeOK, Dispatchers
  <2>3. cancelled' = cancelled /\ del' = del
    BY <1>1 DEF StartFetch, handlers
  <2> QED BY <2>2, <2>3
<1>2. ASSUME NEW f \in Fetchers, EndsFetch(f) PROVE CancelInv'
  <2>1. Holding(f) /\ DoneFetch(f)
    BY <1>2 DEF EndsFetch, FetchSucceeds, FetchFails, FetchStops, Holding
  <2>2. \A g \in Fetchers \ {f} : (Holding(g)' <=> Holding(g)) /\ task'[g] = task[g]
    BY <1>2 DEF EndsFetch, FetchSucceeds, FetchFails, FetchStops, Goes, Ends, Holding,
         PoolTypeOK, Dispatchers
  <2>3. \A g \in cancelled' : g \in cancelled /\ g \in Fetchers \ {f}
    BY <1>0, <2>1 DEF DoneFetch
  <2>4. \A g \in cancelled' : task[g].id # task[f].id
    BY <2>1, <2>3 DEF OneFetchPerDownload
  <2>5. \A g \in cancelled' : del'[task[g].id] = del[task[g].id]
    BY <2>1, <2>3, <2>4 DEF DoneFetch, PoolTypeOK, Snapshot
  <2> QED BY <2>2, <2>3, <2>5
<1>3. ASSUME NEW id \in Downloads, DeleteBegins(id) PROVE CancelInv'
  <2>1. \A f \in cancelled' : Holding(f) /\ f \in Fetchers
    BY <1>0, <1>3 DEF DeleteBegins
  <2>2. \A f \in Fetchers : (Holding(f)' <=> Holding(f)) /\ task'[f] = task[f]
    BY <1>3 DEF DeleteBegins, Holding
  <2>3. \A f \in cancelled' : task[f].id = id => del'[id] # "stopped"
    BY <1>3, <2>1 DEF DeleteBegins, OneFetchPerDownload, PoolTypeOK
  <2>4. \A f \in cancelled' : task[f].id # id =>
          f \in cancelled /\ del'[task[f].id] = del[task[f].id]
    BY <1>3, <2>1 DEF DeleteBegins, PoolTypeOK
  <2> QED BY <2>1, <2>2, <2>3, <2>4
<1>4. CASE Restart
  BY <1>4 DEF Restart
<1>5. CASE Undisturbed
  <2>1. \A f \in cancelled : /\ Holding(f)' /\ task'[f] = task[f]
                            /\ task[f].id \in Downloads
    BY <1>0, <1>5 DEF Undisturbed, PoolTypeOK, Snapshot
  <2> QED BY <1>5, <2>1 DEF Undisturbed
<1> QED BY <1>1, <1>2, <1>3, <1>4, <1>5, SlotSteps

\* As long as its 10 s have not run out, a delete that found a running fetch
\* does not touch provider or files before that fetch has called doneFetch.
THEOREM CancelIsAwaited == PoolSpec => []CancelWaits
<1>1. PoolInit => CancelInv
  BY DEF PoolInit, CancelInv, CancelledHold, CancelWaits
<1>2. PoolTypeOK /\ OneFetchPerDownload /\ CancelInv /\ [PoolNext]_vars => CancelInv'
  BY CancelStep
<1>3. CancelInv => CancelWaits
  BY DEF CancelInv
<1> QED BY <1>1, <1>2, <1>3, PoolTypes, OneFetch, PTL DEF PoolSpec

-------------------------------------------------------------------------------
LEMMA SlotsStep ==
  ASSUME PoolTypeOK, OneFetchPerDownload, [PoolNext]_vars
  PROVE  [Slots!Next]_active
<1> USE DEF Slots!Next
<1>1. ASSUME NEW p \in Dispatchers, NEW s \in Snapshot, NEW f \in Fetchers, StartFetch(p, s, f)
      PROVE  [Slots!Next]_active
  <2>1. Slots!Cardinality(active) = Cardinality(active)
    BY Zenon DEF Slots!Cardinality, Cardinality
  <2>2. Slots!Take(s.id) /\ s.id \in Downloads
    BY <1>1, <2>1 DEF StartFetch, Slots!Take, Snapshot
  <2> QED BY <2>2
<1>2. ASSUME NEW f \in Fetchers, EndsFetch(f) PROVE [Slots!Next]_active
  <2>1. Holding(f) /\ active' = active \ {task[f].id}
    BY <1>2 DEF EndsFetch, FetchSucceeds, FetchFails, FetchStops, DoneFetch, Holding
  <2>2. Slots!Give(task[f].id) /\ task[f].id \in Downloads
    BY <2>1 DEF OneFetchPerDownload, Slots!Give, PoolTypeOK, Snapshot
  <2> QED BY <2>2
<1>3. CASE Restart
  BY <1>3 DEF Restart, Slots!Reset
<1>4. CASE UNCHANGED active
  BY <1>4
<1> QED BY <1>1, <1>2, <1>3, <1>4, SlotSteps DEF DeleteBegins, Undisturbed

\* The pool implements the bounded slots of FetchSlots: every step of it takes
\* one free slot for one download, gives back one that is held, empties them
\* all at a restart, or leaves them alone.
THEOREM PoolImplementsSlots == PoolSpec => ImplementsSlots
<1>1. PoolInit => Slots!Init
  BY DEF PoolInit, Slots!Init
<1>2. PoolTypeOK /\ OneFetchPerDownload /\ [PoolNext]_vars => [Slots!Next]_active
  BY SlotsStep
<1> QED BY <1>1, <1>2, PoolTypes, OneFetch, PTL DEF PoolSpec, ImplementsSlots, Slots!Spec

-------------------------------------------------------------------------------
(***************************************************************************)
(* Files.  ReadyHasFiles needs two more facts to be inductive: the files a *)
(* goroutine wrote before its last statement are still there then, unless  *)
(* a delete or a sweep of that download is under way or done, and a sweep  *)
(* has one row at a time between its files and its statement.              *)
(***************************************************************************)
HasFiles(id) == id \in disk \/ del[id] = "wiped" \/ id \in swept \/ ~Stored(id)

FilesInv ==
  /\ ReadyHasFiles
  /\ \A f \in Fetchers : pc[f] = "written" => HasFiles(task[f].id)
  /\ \A a, b \in swept : a = b

\* No row becomes ready_for_import, and none that is gone comes back.
NoneReadied ==
  \A id \in Downloads :
    /\ rows'[id].state = "ready_for_import" => rows[id].state = "ready_for_import"
    /\ ~Stored(id) => rows'[id].state = "gone"

LEMMA StatementsReadyNone ==
  ASSUME rows \in [Downloads -> Row], NEW id \in Downloads
  PROVE  /\ \A state, report : state # "ready_for_import" =>
              (UpdateDownloadStatus(id, state, report) => NoneReadied)
         /\ \A retries, backoff : UpdateDownloadRetry(id, retries, backoff) => NoneReadied
         /\ RetryDownload(id) => NoneReadied
         /\ DeleteDownload(id) => NoneReadied /\ rows'[id].state = "gone"
         /\ BackoffElapses(id) => NoneReadied
         /\ GrowsOld(id) => NoneReadied
<1> USE DEF NoneReadied, Write, Stored, Row
<1>1. ASSUME NEW state, NEW report, state # "ready_for_import",
             UpdateDownloadStatus(id, state, report)
      PROVE  NoneReadied
  BY <1>1 DEF UpdateDownloadStatus
<1>2. ASSUME NEW retries, NEW backoff, UpdateDownloadRetry(id, retries, backoff)
      PROVE  NoneReadied
  BY <1>2 DEF UpdateDownloadRetry
<1>3. ASSUME RetryDownload(id) PROVE NoneReadied
  BY <1>3 DEF RetryDownload
<1>4. ASSUME DeleteDownload(id) PROVE NoneReadied /\ rows'[id].state = "gone"
  BY <1>4 DEF DeleteDownload
<1>5. ASSUME BackoffElapses(id) PROVE NoneReadied
  BY <1>5 DEF BackoffElapses
<1>6. ASSUME GrowsOld(id) PROVE NoneReadied
  BY <1>6 DEF GrowsOld
<1> QED BY <1>1, <1>2, <1>3, <1>4, <1>5, <1>6

\* A step that readies no row, takes no files away, completes no delete, adds
\* no writer and leaves the sweep alone has nothing to break.
LEMMA FilesKept ==
  ASSUME PoolTypeOK, FilesInv, NoneReadied, UNCHANGED swept, disk \subseteq disk',
         \A id \in Downloads : del[id] = "wiped" => del'[id] = "wiped",
         \A f \in Fetchers : pc'[f] = "written" => pc[f] = "written" /\ task'[f] = task[f]
  PROVE  FilesInv'
<1>1. \A f \in Fetchers : task[f].id \in Downloads
  BY DEF PoolTypeOK, Snapshot
<1>2. \A id \in Downloads : HasFiles(id) => HasFiles(id)'
  BY DEF HasFiles, NoneReadied, Stored
<1>3. ReadyHasFiles'
  BY DEF FilesInv, ReadyHasFiles, NoneReadied
<1> QED BY <1>1, <1>2, <1>3 DEF FilesInv

LEMMA FilesStep ==
  ASSUME MaxRestarts = 0, PoolTypeOK, [PoolNext]_vars, FilesInv
  PROVE  FilesInv'
<1>0. UNCHANGED rows => NoneReadied
  BY DEF NoneReadied, Stored
<1>t. \A f \in Fetchers : /\ task[f].id \in Downloads
                         /\ f # Ticker
  BY DEF PoolTypeOK, Snapshot
<1>1. ASSUME NEW p \in Dispatchers, Dispatch(p) PROVE FilesInv'
  <2>1. PICK s \in due[p] : \/ SkipInFlight(p, s)
                          \/ StopWhenFull(p, s)
                          \/ \E f \in Fetchers : StartFetch(p, s, f)
    BY <1>1 DEF Dispatch
  <2>2. CASE SkipInFlight(p, s) \/ StopWhenFull(p, s)
    BY <2>2, <1>0, FilesKept DEF SkipInFlight, StopWhenFull, handlers
  <2>3. ASSUME NEW f \in Fetchers, StartFetch(p, s, f) PROVE FilesInv'
    <3>1. \A g \in Fetchers : pc'[g] = "written" => pc[g] = "written" /\ task'[g] = task[g]
      BY <2>3 DEF StartFetch, PoolTypeOK, Dispatchers
    <3> QED BY <3>1, <2>3, <1>0, FilesKept DEF StartFetch, handlers
  <2> QED BY <2>1, <2>2, <2>3
<1>2. CASE TickDispatch \/ CleanupOldDownloads \/ CleanupErroredDownloads
  <2>1. \A f \in Fetchers : pc'[f] = pc[f] /\ task'[f] = task[f]
    BY <1>2, <1>t DEF TickDispatch, CleanupOldDownloads, CleanupErroredDownloads,
         PoolTypeOK, Dispatchers
  <2> QED BY <2>1, <1>2, <1>0, FilesKept
          DEF TickDispatch, CleanupOldDownloads, CleanupErroredDownloads, handlers
<1>3. ASSUME NEW id \in Downloads, CleanupFiles(id) PROVE FilesInv'
  BY <1>3 DEF CleanupFiles, FilesInv, ReadyHasFiles, HasFiles, Stored, handlers
<1>4. ASSUME NEW id \in Downloads, CleanupRow(id) PROVE FilesInv'
  <2>1. NoneReadied /\ rows'[id].state = "gone"
    BY <1>4, StatementsReadyNone DEF CleanupRow, PoolTypeOK
  <2>2. /\ UNCHANGED <<pc, task, disk, del>> /\ swept' = {}
        /\ \A e \in swept : e = id
    BY <1>4 DEF CleanupRow, handlers, FilesInv
  <2>3. \A e \in Downloads : HasFiles(e) => HasFiles(e)'
    BY <2>1, <2>2 DEF HasFiles, NoneReadied, Stored
  <2>4. ReadyHasFiles'
    BY <2>1, <2>2 DEF FilesInv, ReadyHasFiles, NoneReadied
  <2> QED BY <1>t, <2>2, <2>3, <2>4 DEF FilesInv
<1>5. ASSUME NEW f \in Fetchers, Fetch(f) PROVE FilesInv'
  <2> USE DEF Goes, Ends, PoolTypeOK, Dispatchers
  <2>1. CASE FetchWrites(f)
    <3>1. /\ UNCHANGED <<rows, task, del, swept>>
          /\ disk' = disk \cup {task[f].id}
          /\ \A g \in Fetchers \ {f} : pc'[g] = pc[g]
      BY <2>1 DEF FetchWrites, handlers
    <3> QED BY <3>1 DEF FilesInv, ReadyHasFiles, HasFiles, Stored
  <2>2. CASE FetchSaves(f)
    <3>1. /\ UNCHANGED <<task, del, swept, disk>>
          /\ \A g \in Fetchers : pc'[g] = "written" => pc[g] = "written"
          /\ pc[f] = "written" /\ Stored(task[f].id)
      BY <2>2 DEF FetchSaves, handlers
    <3>2. \A id \in Downloads : rows'[id].state = IF id = task[f].id THEN "ready_for_import"
                                                  ELSE rows[id].state
      BY <2>2, <1>t DEF FetchSaves, UpdateDownloadStatus, Write, Row
    <3>3. ReadyHasFiles'
      BY <3>1, <3>2 DEF FilesInv, ReadyHasFiles, HasFiles
    <3>4. \A id \in Downloads : HasFiles(id) => HasFiles(id)'
      BY <3>1, <3>2 DEF HasFiles, Stored
    <3> QED BY <1>t, <3>1, <3>3, <3>4 DEF FilesInv
  <2>3. CASE FetchSucceeds(f) \/ FetchFails(f) \/ FetchStops(f)
    <3>1. /\ UNCHANGED <<rows, swept, disk>>
          /\ \A g \in Fetchers : pc'[g] = "written" => pc[g] = "written" /\ task'[g] = task[g]
      BY <2>3 DEF FetchSucceeds, FetchFails, FetchStops
    <3>2. \A id \in Downloads : del[id] = "wiped" => del'[id] = "wiped"
      BY <2>3 DEF FetchSucceeds, FetchFails, FetchStops, DoneFetch
    <3> QED BY <3>1, <3>2, <1>0, FilesKept
  <2>4. CASE Refill(f)
    BY <2>4, <1>0, FilesKept DEF Refill, handlers
  <2>5. CASE RecordFailure(f)
    <3>1. /\ UNCHANGED <<swept, disk, del>>
          /\ \A g \in Fetchers : pc'[g] = "written" => pc[g] = "written" /\ task'[g] = task[g]
      BY <2>5 DEF RecordFailure, handlers
    <3>2. UpdateDownloadRetry(task[f].id, task[f].retries + 1,
                              ~(task[f].retries + 1 >= MaxRetries))
      BY <2>5, Zenon DEF RecordFailure
    <3>3. NoneReadied
      BY <1>t, <3>2, StatementsReadyNone, Zenon
    <3> QED BY <3>1, <3>3, FilesKept
  <2>6. CASE GiveUp(f)
    <3>1. NoneReadied
      BY <1>t, <2>6, StatementsReadyNone DEF GiveUp
    <3> QED BY <2>6, <3>1, FilesKept DEF GiveUp, handlers
  <2> QED BY <1>5, <2>1, <2>2, <2>3, <2>4, <2>5, <2>6 DEF Fetch
<1>6. ASSUME NEW id \in Downloads, Delete(id) PROVE FilesInv'
  <2> USE DEF PoolTypeOK
  <2>1. CASE DeleteBegins(id)
    BY <2>1, <1>0, FilesKept DEF DeleteBegins
  <2>2. CASE DeleteGivesUpWaiting(id)
    BY <2>2, <1>0, FilesKept DEF DeleteGivesUpWaiting
  <2>3. CASE DeleteFiles(id)
    BY <2>3, <1>t DEF DeleteFiles, FilesInv, ReadyHasFiles, HasFiles, Stored
  <2>4. CASE DeleteRow(id)
    <3>1. NoneReadied /\ rows'[id].state = "gone"
      BY <2>4, StatementsReadyNone DEF DeleteRow
    <3>2. /\ UNCHANGED <<pc, task, disk, swept>>
          /\ \A e \in Downloads \ {id} : del'[e] = del[e]
      BY <2>4 DEF DeleteRow
    <3>3. \A e \in Downloads : HasFiles(e) => HasFiles(e)'
      BY <3>1, <3>2 DEF HasFiles, NoneReadied, Stored
    <3>4. ReadyHasFiles'
      BY <3>1, <3>2 DEF FilesInv, ReadyHasFiles, NoneReadied
    <3> QED BY <1>t, <3>2, <3>3, <3>4 DEF FilesInv
  <2> QED BY <1>6, <2>1, <2>2, <2>3, <2>4 DEF Delete
<1>7. ASSUME NEW id \in Downloads,
             RetryBegins(id) \/ RetryApplies(id) \/ TimePasses(id) \/ ProviderCompletes(id)
      PROVE  FilesInv'
  <2>1. NoneReadied
    BY <1>0, <1>7, StatementsReadyNone
       DEF RetryBegins, RetryApplies, TimePasses, ProviderCompletes, PoolTypeOK
  <2> QED BY <1>7, <2>1, FilesKept
          DEF RetryBegins, RetryApplies, TimePasses, ProviderCompletes, poolVars, handlers
<1>8. ~Restart
  BY DEF Restart, PoolTypeOK
<1>9. CASE UNCHANGED vars
  BY <1>0, <1>9, FilesKept DEF vars, poolVars, handlers
<1> QED BY <1>1, <1>2, <1>3, <1>4, <1>5, <1>6, <1>7, <1>8, <1>9
        DEF PoolNext, PoolStep, TickGoesOn, Dispatchers

\* While the process stays up, an *arr app is never told of an import whose
\* files are not there: whatever deletes, sweeps, retries and second fetches do
\* around a goroutine, ready_for_import is only written over files, and files
\* only go ahead of their row.  A crash between the two halves of a delete is
\* what the assumption leaves out.
THEOREM ReadyFiles ==
  ASSUME MaxRestarts = 0
  PROVE  PoolSpec => []ReadyHasFiles
<1>1. PoolInit => FilesInv
  BY DEF PoolInit, FilesInv, ReadyHasFiles, NewRow, Dispatchers
<1>2. PoolTypeOK /\ FilesInv /\ [PoolNext]_vars => FilesInv'
  BY FilesStep
<1>3. FilesInv => ReadyHasFiles
  BY DEF FilesInv
<1> QED BY <1>1, <1>2, <1>3, PoolTypes, PTL DEF PoolSpec
===============================================================================
