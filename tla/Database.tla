------------------------------- MODULE Database -------------------------------
(***************************************************************************)
(* The downloads table: one row per Managed download, and the statements   *)
(* of internal/database/downloads.go that read and write it.  The database *)
(* is opened with a single connection, so each statement is one atomic     *)
(* step; nothing makes two statements of one caller atomic, which is why   *)
(* callers appear here only as users of single statements.                 *)
(*                                                                         *)
(* A row keeps the columns the importer decides on.  "report" stands for   *)
(* progress and size together: the number of the provider record they were *)
(* copied from.  "backoff" is next_retry_at lying in the future, "aged" is *)
(* the timestamp a retention query compares lying before its cutoff.       *)
(***************************************************************************)
EXTENDS Integers

CONSTANT Downloads      \* download ids, numbered in the order of added_at

ASSUME DownloadsAssumption == Downloads \subseteq Nat

VARIABLE rows           \* id -> row of the downloads table

\* The states of the local state machine; "gone" is an id without a row.
States == {"queued", "downloading", "provider_completed",
           "ready_for_import", "error"}

Row == [state   : States \cup {"gone"},
        report  : Nat,
        retries : Nat,
        backoff : BOOLEAN,
        aged    : BOOLEAN]

Stored(id) == rows[id].state # "gone"

\* InsertDownload of an *arr add: queued, nothing reported yet.
NewRow == [state |-> "queued", report |-> 0, retries |-> 0,
           backoff |-> FALSE, aged |-> FALSE]

\* A row as a query returned it; it does not follow the table any more.
Snapshot == [id : Downloads, state : States, retries : Nat, report : Nat]
SnapshotOf(id) == [id |-> id, state |-> rows[id].state,
                   retries |-> rows[id].retries, report |-> rows[id].report]
SnapshotsOf(ids) == {SnapshotOf(id) : id \in ids}

\* ORDER BY added_at, or added_at DESC: results are worked off in this order.
Oldest(d, list) == d \in list /\ \A e \in list : d.id <= e.id
Newest(d, list) == d \in list /\ \A e \in list : d.id >= e.id

(***************************************************************************)
(* Queries.                                                                *)
(***************************************************************************)
ListDownloadsByProvider == {id \in Downloads : Stored(id)}

ListDownloadsDueForRetry ==
  {id \in Downloads : rows[id].state = "provider_completed" /\ ~rows[id].backoff}

ListActiveManagedDownloads ==
  {id \in Downloads : rows[id].state \in {"queued", "downloading"}}

ListDownloadsEligibleForCleanup ==
  {id \in Downloads : rows[id].state = "ready_for_import" /\ rows[id].aged}

ListErroredDownloadsEligibleForCleanup ==
  {id \in Downloads : rows[id].state = "error" /\ rows[id].aged}

ListStuckDownloads ==
  {id \in ListActiveManagedDownloads : rows[id].aged}

(***************************************************************************)
(* Statements.  Each is an UPDATE ... WHERE id = ?, so it leaves the table *)
(* alone when the row is gone; a caller that cares tests Stored, which is  *)
(* the "no download with id" error of checkRowsAffected.                   *)
(***************************************************************************)
Write(id, row) == rows' = IF Stored(id) THEN [rows EXCEPT ![id] = row] ELSE rows

UpdateDownloadStatus(id, state, report) ==
  Write(id, [rows[id] EXCEPT !.state = state, !.report = report, !.aged = FALSE])

\* Moves updated_at, not completed_at: a ready row does not get any younger.
UpdateDownloadRetry(id, retries, backoff) ==
  Write(id, [rows[id] EXCEPT !.retries = retries, !.backoff = backoff,
                             !.aged = @ /\ rows[id].state = "ready_for_import"])

RetryDownload(id) ==
  Write(id, [rows[id] EXCEPT !.state = "provider_completed", !.retries = 0,
                             !.backoff = FALSE, !.aged = FALSE])

DeleteDownload(id) ==
  Write(id, [rows[id] EXCEPT !.state = "gone", !.report = 0, !.retries = 0,
                             !.backoff = FALSE, !.aged = FALSE])

(***************************************************************************)
(* Time, as far as the queries compare with it.                            *)
(***************************************************************************)
\* next_retry_at passes.
BackoffElapses(id) ==
  /\ rows[id].backoff
  /\ rows' = [rows EXCEPT ![id].backoff = FALSE]

\* The row outlives the retention period or the stuck-download timeout.
GrowsOld(id) ==
  /\ rows[id].state \in States \ {"provider_completed"}
  /\ ~rows[id].aged
  /\ rows' = [rows EXCEPT ![id].aged = TRUE]
===============================================================================
