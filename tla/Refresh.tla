------------------------------- MODULE Refresh --------------------------------
(***************************************************************************)
(* Refreshing Managed rows from a provider: the bulk pass of every tick    *)
(* (refreshKind), the fast poll of active rows in its own goroutine        *)
(* (refreshActiveKind), RefreshFromProvider with its ordering guard, which *)
(* both share, and the stuck-download watchdog that follows the bulk pass. *)
(*                                                                         *)
(* Life is what happens to a download at the provider: the list of states  *)
(* its record goes through.  Record number v is Life[v], and a row's       *)
(* "report" is the number of the record it was written from.  Dated        *)
(* providers put the record's own time, here its number, into an answer.   *)
(*                                                                         *)
(* fetchedAt is only ever compared, so the model keeps the comparisons and *)
(* not the clock: latest is the poller whose request began last,           *)
(* overtaken[p] the rows for which one that began after p's has recorded.  *)
(***************************************************************************)
EXTENDS Database, Sequences

CONSTANTS
  Life,             \* the provider's states of a download, oldest first
  FastPolls,        \* whether the fast poll runs beside the bulk pass
  Dated,            \* whether the provider dates its records
  StaleAnswers,     \* whether it may answer with a record it has replaced
  Watchdog          \* whether stuck_download_timeout is set

LastRecord == Len(Life)

ASSUME RefreshAssumption ==
  /\ Life \in Seq({"queued", "downloading", "completed", "error"})
  /\ LastRecord > 0
  /\ {FastPolls, Dated, StaleAnswers, Watchdog} \subseteq BOOLEAN

Pollers == IF FastPolls THEN {"bulk", "fast"} ELSE {"bulk"}

VARIABLES
  provider,     \* id -> number of the provider's current record
  record,       \* id -> record time refreshState keeps, 0 for none
  stage,        \* where each poller stands
  todo,         \* poller -> row snapshots it has still to go through
  heard,        \* poller -> id -> record number answered, 0 if absent
  pending,      \* poller -> the row update it has decided on, if any
  latest, overtaken

polls == <<stage, todo, heard, pending, latest, overtaken>>
refreshOwn == <<provider, record, polls>>
refreshVars == <<rows, refreshOwn>>

Update == [id : Downloads, state : States, report : Nat]

RefreshTypeOK ==
  /\ rows \in [Downloads -> Row]
  /\ provider \in [Downloads -> 1..LastRecord]
  /\ record \in [Downloads -> 0..LastRecord]
  /\ stage \in [Pollers -> {"idle", "asked", "answered", "refresh",
                            "update", "stuck"}]
  /\ todo \in [Pollers -> SUBSET Snapshot]
  /\ heard \in [Pollers -> [Downloads -> 0..LastRecord]]
  /\ pending \in [Pollers -> SUBSET Update]
  /\ latest \in Pollers
  /\ overtaken \in [Pollers -> SUBSET Downloads]

Silence == [id \in Downloads |-> 0]

\* What each poller keeps, to begin with.
Each(x) == [p \in Pollers |-> x]

RefreshInit ==
  /\ rows = [id \in Downloads |-> NewRow]
  /\ provider = [id \in Downloads |-> 1]
  /\ record = Silence
  /\ stage = Each("idle") /\ todo = Each({}) /\ heard = Each(Silence)
  /\ pending = Each({}) /\ latest = "bulk" /\ overtaken = Each({})

-------------------------------------------------------------------------------
(***************************************************************************)
(* Requests.  The provider may take any time to answer, and the answer any *)
(* time to arrive.                                                         *)
(***************************************************************************)
Moves(p, next) == stage' = [stage EXCEPT ![p] = next]

\* fetchedAt := time.Now(), then the call.
Asks(p) ==
  /\ Moves(p, "asked")
  /\ latest' = p
  /\ overtaken' = [overtaken EXCEPT ![p] = {}]

BulkAsks ==
  /\ stage["bulk"] = "idle"
  /\ Asks("bulk")
  /\ UNCHANGED <<rows, provider, record, todo, heard, pending>>

\* The fast poll lists the active rows first and asks about them one by one.
FastLists ==
  /\ stage["fast"] = "idle" /\ todo["fast"] = {} /\ ListActiveManagedDownloads # {}
  /\ todo' = [todo EXCEPT !["fast"] = SnapshotsOf(ListActiveManagedDownloads)]
  /\ UNCHANGED <<rows, provider, record, stage, heard, pending, latest, overtaken>>

FastAsks ==
  /\ stage["fast"] = "idle" /\ todo["fast"] # {}
  /\ Asks("fast")
  /\ UNCHANGED <<rows, provider, record, todo, heard, pending>>

\* The records an answer about id may carry.
Answer(id) == IF StaleAnswers THEN 1..provider[id] ELSE {provider[id]}

AskedAbout(p) ==
  IF p = "bulk" THEN Downloads ELSE {d.id : d \in {e \in todo[p] : Oldest(e, todo[p])}}

\* The provider composes its answer; it says nothing of downloads not asked for.
Answers(p) ==
  /\ stage[p] = "asked"
  /\ \E answer \in [AskedAbout(p) -> 1..LastRecord] :
       /\ \A id \in AskedAbout(p) : answer[id] \in Answer(id)
       /\ heard' = [heard EXCEPT ![p] =
                      [id \in Downloads |-> IF id \in AskedAbout(p) THEN answer[id] ELSE 0]]
  /\ Moves(p, IF p = "bulk" THEN "answered" ELSE "refresh")
  /\ UNCHANGED <<rows, provider, record, todo, pending, latest, overtaken>>

\* A failed listing ends the bulk pass; a failed lookup goes on with the next
\* row, unless the answer is a rate limit, which ends the fast poll too.
Fails(p) ==
  /\ stage[p] = "asked"
  /\ IF p = "bulk"
     THEN Moves(p, "refresh") /\ UNCHANGED todo
     ELSE /\ Moves(p, "idle")
          /\ \E rateLimited \in BOOLEAN :
               todo' = [todo EXCEPT ![p] =
                 IF rateLimited THEN {} ELSE {d \in @ : ~Oldest(d, @)}]
  /\ UNCHANGED <<rows, provider, record, heard, pending, latest, overtaken>>

\* The bulk pass reads the rows only after the listing has arrived.
BulkListsRows ==
  /\ stage["bulk"] = "answered"
  /\ todo' = [todo EXCEPT !["bulk"] = SnapshotsOf(ListDownloadsByProvider)]
  /\ Moves("bulk", "refresh")
  /\ UNCHANGED <<rows, provider, record, heard, pending, latest, overtaken>>

-------------------------------------------------------------------------------
(***************************************************************************)
(* RefreshFromProvider for one row.                                        *)
(***************************************************************************)
\* Mutation: the provider's name of the state is stored.
StateAsReported(state) == state

LocalStateFromProvider(state) == IF state = "completed" THEN "provider_completed" ELSE state

\* Mutation: a record already heard of is not news.
RefreshGuardNewerOnly(p, id, v) ==
  IF record[id] # 0 THEN v > record[id] ELSE id \notin overtaken[p]

\* refreshGuardAllows: two different record times decide; otherwise a request
\* must not be older than the one applied last.
RefreshGuardAllows(p, id, v) ==
  IF record[id] \notin {0, v} THEN v > record[id] ELSE id \notin overtaken[p]

\* ... and, under the same lock, what it remembers of an accepted answer.  A
\* request that is over can no longer be overtaken.
Remember(p, id, v) ==
  /\ record' = [record EXCEPT ![id] = IF Dated THEN v ELSE @]
  /\ overtaken' = [q \in Pollers |->
       IF latest = p /\ q # p /\ stage[q] # "idle"
       THEN overtaken[q] \cup {id} ELSE overtaken[q] \ {id}]

\* Mutation: the provider's word always counts.
SettledLocallyNever(d, state) == FALSE

\* The row's own state has the last word: its files are here, the importer has
\* given it up, or the provider has already said that it is done.
SettledLocally(d, state) ==
  \/ d.state = "ready_for_import"
  \/ (d.state = "error" /\ d.retries > 0)
  \/ (d.state = "provider_completed" /\ state \in {"queued", "downloading"})

NothingNew(d, state, v) == state = d.state /\ v = d.report

\* The fast poll lists its rows oldest first, the bulk pass newest first.
Comes(p, d) == IF p = "fast" THEN Oldest(d, todo[p]) ELSE Newest(d, todo[p])

AfterRow(p) == IF p = "fast" THEN "idle" ELSE "refresh"

\* Everything up to the UPDATE is decided on the snapshot d, and its answer is
\* used up.
RefreshRow(p, d) ==
  LET v == heard[p][d.id]
      state == LocalStateFromProvider(Life[v])
      allowed == RefreshGuardAllows(p, d.id, v)
      writes == allowed /\ ~SettledLocally(d, state) /\ ~NothingNew(d, state, v)
  IN /\ stage[p] = "refresh" /\ Comes(p, d)
     /\ todo' = [todo EXCEPT ![p] = @ \ {d}]
     /\ heard' = [heard EXCEPT ![p][d.id] = 0]
     /\ IF allowed THEN Remember(p, d.id, v) ELSE UNCHANGED <<record, overtaken>>
     /\ IF writes
        THEN /\ pending' = [pending EXCEPT
                             ![p] = {[id |-> d.id, state |-> state, report |-> v]}]
             /\ Moves(p, "update")
        ELSE Moves(p, AfterRow(p)) /\ UNCHANGED pending
     /\ UNCHANGED <<rows, provider, latest>>

\* The UPDATE itself, other statements of the handler later.
UpdateRow(p, u) ==
  /\ stage[p] = "update" /\ u \in pending[p]
  /\ UpdateDownloadStatus(u.id, u.state, u.report)
  /\ pending' = [pending EXCEPT ![p] = {}]
  /\ Moves(p, AfterRow(p))
  /\ UNCHANGED <<provider, record, todo, heard, latest, overtaken>>

-------------------------------------------------------------------------------
(***************************************************************************)
(* checkStuckDownloads, after the bulk pass: rows the provider has said    *)
(* nothing new of for stuck_download_timeout are marked error.             *)
(***************************************************************************)
CheckStuckDownloads ==
  /\ stage["bulk"] = "refresh" /\ todo["bulk"] = {}
  /\ todo' = [todo EXCEPT !["bulk"] = IF Watchdog THEN SnapshotsOf(ListStuckDownloads) ELSE {}]
  /\ heard' = [heard EXCEPT !["bulk"] = Silence]
  /\ Moves("bulk", "stuck")
  /\ UNCHANGED <<rows, provider, record, pending, latest, overtaken>>

\* The list is in the order of updated_at, which may be any order of the rows.
MarkStuck(d) ==
  /\ stage["bulk"] = "stuck" /\ d \in todo["bulk"]
  /\ UpdateDownloadStatus(d.id, "error", d.report)
  /\ todo' = [todo EXCEPT !["bulk"] = @ \ {d}]
  /\ UNCHANGED <<provider, record, stage, heard, pending, latest, overtaken>>

BulkEnds ==
  /\ stage["bulk"] = "stuck" /\ todo["bulk"] = {}
  /\ Moves("bulk", "idle")
  /\ UNCHANGED <<rows, provider, record, todo, heard, pending, latest, overtaken>>

Poll(p) ==
  \/ Answers(p)
  \/ \E d \in todo[p] : RefreshRow(p, d)
  \/ \E u \in pending[p] : UpdateRow(p, u)

BulkPass ==
  \/ Poll("bulk") \/ BulkListsRows \/ CheckStuckDownloads
  \/ \E d \in todo["bulk"] : MarkStuck(d)

FastPoll == FastPolls /\ (FastLists \/ FastAsks \/ Poll("fast"))

-------------------------------------------------------------------------------
\* The provider's record of a download moves on.
ProviderAdvances(id) ==
  /\ provider[id] < LastRecord
  /\ provider' = [provider EXCEPT ![id] = @ + 1]
  /\ UNCHANGED <<rows, record, polls>>

\* The stuck-download timeout of an active row passes.
GetsStuck(id) ==
  /\ Watchdog /\ id \in ListActiveManagedDownloads /\ GrowsOld(id)
  /\ UNCHANGED <<provider, record, polls>>

\* A fetch comes to its end, as module FetchPool has it in steps: the files
\* are here or the importer gives up.
FetchSettles(id) ==
  /\ rows[id].state = "provider_completed"
  /\ \/ UpdateDownloadStatus(id, "ready_for_import", rows[id].report)
     \/ Write(id, [rows[id] EXCEPT !.state = "error", !.retries = 1, !.aged = FALSE])
  /\ UNCHANGED <<provider, record, polls>>

RefreshStep ==
  \/ BulkPass \/ FastPoll
  \/ \E p \in Pollers : Fails(p)
  \/ \E id \in Downloads : ProviderAdvances(id) \/ GetsStuck(id)

\* A new process remembers nothing of its requests and their answers.
ForgetPolls ==
  /\ record' = Silence
  /\ stage' = Each("idle") /\ todo' = Each({}) /\ heard' = Each(Silence)
  /\ pending' = Each({}) /\ latest' = "bulk" /\ overtaken' = Each({})
  /\ UNCHANGED provider

RefreshNext == BulkAsks \/ BulkEnds \/ RefreshStep \/ \E id \in Downloads : FetchSettles(id)

RefreshSpec == RefreshInit /\ [][RefreshNext]_refreshVars

-------------------------------------------------------------------------------
(***************************************************************************)
(* Properties.                                                             *)
(***************************************************************************)
\* What has been settled: the files are here, or the importer has given up.
Settled(row) ==
  \/ row.state = "ready_for_import"
  \/ row.state = "error" /\ row.retries > 0

\* A provider still saying "completed" does not regress a row whose files are
\* here.  RefreshFromProvider says this of itself; the program does not keep it,
\* for what it decides on is a row it has read earlier.
ReadyIsNotRegressed ==
  [][\A id \in Downloads :
       rows[id].state = "ready_for_import" => rows'[id].state # "provider_completed"]_refreshVars
===============================================================================
