# AcerviNode in TLA+

AcerviNode is a debrid download client: *arr apps talk to it as if it were
qBittorrent or SABnzbd, it hands their magnets, torrents and NZBs to a provider
(TorBox, AllDebrid), watches the provider finish them, fetches the files to local
disk and waits for the app to import them. This directory holds TLA+ models of
the parts of that program in which goroutines, requests and the provider get in
each other's way, the TLC configurations that check them, and proofs for TLAPS.

`PROJECT.json` lists, for every definition, the lines of code it stands for.

## 1. The system

### Components, their state and operations

| Component | State it keeps | Operations | Talks to |
|---|---|---|---|
| **downloads table** `internal/database/downloads.go` | one row per download: provider id, how it was added, state, progress, retry count and time, timestamps | insert, claim, status, retry and re-add updates, delete; due, active, stuck and cleanup queries. One SQLite connection: a statement is atomic, two are not | everything |
| **importer loop** `internal/importer` `Run`, `tick` | settings, listing successes, rate-limit hits | every interval: refresh, stuck watchdog, dispatch, two retention sweeps; a second goroutine polls active rows fast | provider, table |
| **fetch pool** `internal/importer` | `activeFetches`: id -> cancel function and done channel | `dispatch`, `startFetch`, `runFetch`, `processReserved`, `handleFailure`, `CancelFetch` | table, disk, provider |
| **status refresh** `RefreshFromProvider`, `refreshGuardAllows` | `refreshState`: what was last applied to a row, and from which request | compares a listing with rows read before or after it and updates them | both pollers |
| **discovery** `discoverManual`, `database/discovery.go`, `pending_adds.go` | baseline and its seeded flag, tombstones with a lifetime, intents of failed *arr adds | adopts what the account holds and no row tracks | refresh, adds, deletes |
| **add paths** `api/add.go`, `qbittorrent`, `sabnzbd` | – | provider add, then insert or claim a row; record an intent when the call failed; re-add | provider, table |
| **delete and retry handlers** `api/downloads.go` and both shims | – | cancel the fetch, delete at the provider, delete files, tombstone, delete the row; reset a row for another fetch | pool, provider, table |
| **compat shims** `qbittorrent`, `sabnzbd` | sessions, categories | show rows in their own vocabulary | table |
| **providers, registry** `internal/debrid`, `cmd/acervinode/settings.go` | entries of config.yaml, the registered wrappers in their order, a default, a client for each kind | add, remove, reset, key, kinds, default; look up a provider for an add | every caller of a provider |
| **rate limits, listing cache** `internal/importer`, `internal/debrid` | cooldown and its growth; one cached listing per kind | back off after a 429 | both pollers |
| **backup and restore** `internal/backup`, `cmd/acervinode/restore.go` | snapshot files, schedule, a staged restore | snapshot, prune, delete, stage, apply at the next start | database file |
| **configuration** `internal/config`, `cmd/acervinode/settings.go` | config.yaml, the same in memory, environment overrides, categories with copies in shims and importer | load, validate, save, apply | registry, shims, importer |
| **authentication** `internal/auth`, `cmd/acervinode/settings.go` | accounts with a role, one of them the default; sessions | set up, add, remove, promote, log in | configuration |
| **TLS, migrations, web UI** | files | – | – |

### What is hard about it

* The tick, the fast poll, every fetch goroutine and every HTTP handler run at the
  same time over rows they have read earlier. A network call sits between almost
  any read and the write that follows from it.
* Listings lag: a deleted item may be shown for minutes, a delete or an add may
  have worked although its answer said otherwise, records arrive out of order.
* The process can be killed between any two statements; goroutines, retry
  timers and the guard's memory vanish, rows and files stay. `main.run` does not
  wait for `Importer.Run` when it shuts down, so an ordinary stop is a kill too.
* config.yaml is written in place, whole, by every change of a setting: a write
  can fail after the file was truncated. Memory, file, provider clients, shims and
  importer each have a copy of what was set. Requests look a provider up without the
  lock and act on it later.
* A fetch leaves files at every stage of completion; the next attempt may see another
  list, other filters and another directory.
* Slots, retries and backoff must never leave a finished download waiting for
  ever, and everyone who waits (a delete for a fetch) must be released.

`hazards` in `PROJECT.json` has all of these at their lines, with the properties
that watch over them or the reason why none does.

### What makes each part correct

* **pool**: never more than `max_concurrent_downloads` fetches, never two for one
  download, no `ready_for_import` without files, a delete waits for the fetch it
  cancelled, no finished download is starved.
* **refresh**: a late answer undoes what is settled only by losing a race; a completion
  gets through whatever came before it.
* **importer**: what the provider has finished ends up on disk, given up, or deleted.
* **discovery**: what was deleted does not come back, what is new shows up, what an
  *arr app was told of is Managed.
* **listing**: a vanished download is noticed, and a hiccup of the provider is not
  mistaken for one.
* **files**: what an *arr app is told is done is there in full; removals take only what
  is the download's own, and a copy at the provider is given up only for one on disk.
* **registry and settings**: what runs is what the file says; an add leaves one copy, in
  the account its row names.
* **accounts and categories**: there is always an owner; a category is known
  wherever it is used, and stays deleted.
* **backup**: the schedule goes on through restarts, a prune trades old for new, and
  a restore never loses the last database.

## 2. Modules

| Module | Models | Built on |
|---|---|---|
| `Database` | rows of Managed downloads and the statements on them | – |
| `FetchSlots` | abstract: a bounded set of named slots | – |
| `FetchPool` | dispatch, fetches, sweeps, delete and retry requests, restarts | `Database`; implements `FetchSlots` |
| `Refresh` | bulk pass, fast poll, ordering guard, stuck watchdog | `Database` |
| `Importer` | the tick as a whole: pool and refresh over one table | `FetchPool`, `Refresh` |
| `LateAnswers` | a history beside the importer: who has written a row since a poller read it | `Importer` |
| `Discovery` | discovery pass, adds, deletes, re-adds, restarts | own view of the rows |
| `FetchFiles` | one fetch, file by file; removals, retries and claims around it; what both shims tell | the step `FetchPool` has between `StartFetch` and `FetchSaves` |
| `Listing` | rows a listing does not show: counts, trust, mass-vanish brake, cooldowns | own view of Manual rows |
| `Settings` | config.yaml, memory, registry, clients, settings requests, restarts | – |
| `Routing` | which provider an add goes to | `Settings` |
| `Household` | accounts and categories | – |
| `Backup` | schedule, snapshots, pruning, staged restores, starts | – |
| `...Proofs` | theorems about the module of that name; `RoutingProofs` has those about `Settings` and `ImporterProofs` those about `Refresh` too | TLAPS |
| `MC...` | constants, lives of a download, files, symmetry sets for TLC | |

### How state and actions correspond to the code

**Granularity.** A step is what happens between two network, disk or database
calls. A value the code holds in a local variable across such a call is held in a
variable of the model (`due`, `task`, `sweep`, `todo`, `heard`, `pending`, `pass`,
`requests`), so that it can be stale. What is done under one mutex or in one
statement is one action.

**Database.** `rows` maps an id to state, retry count, "in backoff", "older than
the cutoff a query compares with", and `report`, the number of the provider
record from which progress and size came. Ids are numbers in the order of
`added_at`. Dispatch, the sweeps and the fast poll work a list off from the oldest row
(`Oldest`), the bulk pass from the newest (`Newest`, `Comes`); the list of stuck rows
has no order.

**FetchPool.** `active` is `activeFetches`; `pc[f]` is where a fetch goroutine
stands: `fetch` from `startFetch` until the files are there (`written`), `saved`
after the row says `ready_for_import`, `refill` on the success path, `failed` and
`giveup` in `handleFailure`, which runs after the slot is free. `CancelFetch` is
`DeleteBegins`: the fetch's context is cancelled (`cancelled`), the handler waits
for `DoneFetch` or gives up after 10 s. The sweeps go from row to row with
`CleanupFiles` and `CleanupRow` around the provider call. The three delete
handlers take the same steps and are one `Delete`. `errorMessage`, which files
are wanted and partial files are left out; `delete-after-fetch` is
the provider call inside `FetchSucceeds`.

**Refresh.** Life at the provider is a list of records (`Life`), a row's answer
is the number of one. `fetchedAt` is only compared, so the model keeps the
comparison: `latest` is the poller that asked last, `overtaken[p]` the rows one that asked
after `p` has recorded for. `RefreshRow` decides on the snapshot,
`UpdateRow` is the `UPDATE` that follows. `NothingNew` leaves `errorMessage` out, and
the backfills of hash, name and source and the live status cache have no
counterpart.

**Importer** adds nothing of its own but order: the tick begins a bulk pass only
when the last sweep is over, and dispatches when the watchdog is done;
`DeleteDownload` also drops what the guard remembers of a row (`PoolSide`).

**LateAnswers** restricts no step of the importer. `Held(p)` are the rows of which poller
`p` holds a snapshot or an `UPDATE` that is due, `touched[p]` those among them whose state or
retry count has been written since: the two columns `RefreshFromProvider` decides on.

**Discovery.** `account` says of each item whether it is there, deleted but
still listed, or gone. `rows` here are an item and how it was added. A pass goes
through `list`, `rows`, `seed`, `skip`, `adopt` and `insert` in the order of
`refreshKind` and `discoverManual`; the reads of the baseline and of the
tombstones are one step, since a baseline is only ever written by a pass.
Requests go through the provider call, the lookup and the statement of their
handler. `lasting` are the tombstones with the 30-day lifetime, the others
have an hour. Hashes and names are one: `ContentOf`.

**FetchFiles** opens the fetch. `download` is what the provider has, with sizes as
it reports them and as they are, `disk` and `part` are the files in place and the
`.part` files of each directory, `fetch` is the attempt in memory. `Lists` takes all or
some of the provider's files and filters them (`packedOnly`, `dropSamples`, the smallest and
largest size and the patterns of `filterFiles`; a pattern is the set of names it lets
through), `Skips`, `Opens`, `ServerRefuses`, `Accepts`, `Copies` and `CopyFails` are
`fetchFile` and `openFile`, `PersistsPath` and `MarksReady` the end of `processReserved`,
`Failed` is `handleFailure`, `FindsNoRow` an `UPDATE` of a row that is gone. `target` is
where a row without a path resolves to (`resolveDestDir`); settings may move it at any time.
`Retries` takes every state `retryableState` allows, a ready row whose provider copy is gone
included. `Claims` is `InsertOrClaimForArr` on a row that exists.

A removal goes call by call. `Begun` is the handler's or the sweep's look at the row, with
`CancelFetch` for a handler; `RemovesCopy` and `RemovesFiles` follow, for a handler in this
order and for the sweep in the other (`Turn`), then `RemovesRow`; a kill may come before any
of them. A call to the provider may have worked or not, which is also all that happens
without a registered provider; whether it counts as confirmed only decides about the
tombstone, which is in `Discovery`. `doomed` says that a removal of the row has begun since
it was last made ready.

`fetch.list` is the whole list, from which `fetch.kept` was chosen and `fetch.out` is what
the configured filters do not let through; `got` remembers what the attempt that last made
the row ready kept, and where, and `elsewhere` that a claim has rewritten the path since.
The progress of a copy is the most it can be: a `Write` reports its bytes before
the file is renamed. The shims are views (`QbtState`, `QbtProgress`, `QueueStatus`,
`EffectiveProgress`, `HistoryStatus`). Backoff and slots are in `FetchPool`, and free space,
file modes and names within a directory are left out.

**Listing** takes one provider and kind. `process` is what the importer holds in
memory (`listStreak`, `massVanish`, the rate-limit maps), `row` the state and
`missing_count` on disk. `past` is an observer: `unseen[r]` counts the listings
without `r` since the last failure, `odd` the time for which listings have lacked
more than half. Time is in units of the constants, and ages past the grace period are alike.

**Settings.** `cfg` is the configuration in memory, `file` what config.yaml holds, `order`,
`slots` and `fallback` the registry, `applied` what the importer was told. A request is
let through by its handler (`Arrives`), and then acts under the lock; `ResetProvider`
takes it three times. `Save` works, or fails and leaves the old file or an empty one.
One value, `general`, stands for all the general settings: some values are refused, it
may be overridden by the environment, it is pushed into the importer and baked into
every client. `missed` says that a write has failed since the start.

**Routing** adds the adds. A provider call is open between `Sends` and `Takes` or
`CallFails`, with any settings step in between; `held` are the accounts in which
there is a copy. An answer that is lost leaves a copy and no row.

**Household.** Accounts and categories are in `cfg` and `file` as above; `qbt`, `sab` and
`paths` are the copies of the shims and of the importer. `SetupChecks` and `Setup`
are the two halves of `handleSetup`. `deleted` remembers what was deleted.

**Backup.** `at[t]` is where the scheduler or a request stands in `RunOnce`; `victims[t]`
is the list its prune works off. `changed` is the channel on which `Run` hears of
a new interval, `timer` and `age` are relative to now. `SetsAside`, `MovesIn` and
`Starts` are `applyPendingRestore` and the opening of the database, with a crash possible
between any two.

## 3. Runs

| Run | Bounds | States | What it shows |
|---|---|---|---|
| `fetch_pool` | 2 downloads, 2 fetch goroutines, limit 1, 2 attempts, 1 request, both sweeps, `CancelFetch` may time out; goroutines symmetric | 2.6 M | `PoolTypeOK`, `PoolWithinLimit`, `OneFetchPerDownload`, `ReadyHasFiles`, `CancelWaits`, `ImplementsSlots` |
| `fetch_pool_live` | 2 downloads, 2 goroutines, limit 1, 1 attempt, a restart | 239 k | `EveryDueSettles`: neither download is starved of the one slot |
| `importer` | 1 download that stalls and recovers (3 records), dated, both pollers, watchdog, stale answers, limit 1, 2 attempts, a restart | 397 k | `RefreshTypeOK`, `EveryFinishedSettles`, `OnlyRacesUndo` |
| `discovery` | 1 item, 2 requests of every sort, 1 intent; requests symmetric | 2.5 M | `DiscoveryTypeOK`, `NoGhosts`, `ArrRowsAreManaged` |
| `discovery_live` | 2 items, 1 delete at a time, a restart | 84 k | `NewItemsShowUp` |
| `settings` | 2 provider types, a second account, 2 requests at a time, 3 changes or failed writes, a restart, 1 add; requests symmetric | 300 k | `SettingsTypeOK`, `FallbackIsRegistered`, `RestartChangesNothing`, `RemovedAccountsStayGone`, `ApiAddsFindAKey`, `OneCopyWhereTheRowSays` |
| `household` | 3 accounts, 2 categories, one of them a default, 6 changes, 2 failed writes, 2 restarts; accounts symmetric | 355 k | `HouseholdTypeOK`, `OneOwner`, `CategoriesAreKnown`, `DeletedCategoriesStayGone` |
| `backup` | 3 snapshot names, schedule off or every 2 ticks, keep 1, 1 failure or request; any number of restarts | 370 k | `BackupTypeOK`, `NoHistoryLost`, `PruneTradesUp`, `TimerFollowsInterval`, `BackupsGoOn` |
| `listing` | 3 Manual rows, a streak and a threshold of 2, a grace period of 2 intervals, cooldowns up to 2 | 122 k | `ListingTypeOK`, `FlaggedOnlyWhenGone`, `AnomaliesGetTheirGrace`, `RowsReconcile` |
| `files` | 5 downloads of 1 or 2 files, no filter and one of each together, 2 settings of the directory (alike), 1 shared directory, 1 refusal, 2 attempts, 3 events | 1.39 M | `FilesTypeOK`, `AppsFindWhatTheyAreTold`, `ContentIsKept`, `NothingIsLost`, `FetchesComeThrough` |

Two runs expect a violation. `wrong_account` checks `RowsRouteBack`, which states the
comment at `debrid/registry.go:243-245`: what an add records routes everything afterwards
back to the same account. TLC finds an *arr add during whose provider call the default
is switched: the shim asks the registry again (`qbittorrent/torrents.go:216`,
`sabnzbd/addnzb.go:284`) and names the new default in the row of an item the old one
holds. The API's adds record the provider they have used, which
`OneCopyWhereTheRowSays` checks and `OneCopy` proves.

`ready_regresses` checks `ReadyIsNotRegressed`, the comment at `database/downloads.go:1338-1341`:
a provider still reporting "completed" does not take a ready row back. TLC's trace has no old
record in it: both pollers hear that the download is done and decide on the row as they have
read it, unfinished; the first `UPDATE` starts the fetch, the second one comes when the row
is ready, and it is fetched again. What the code does keep is `OnlyRacesUndo`, in `importer`:
a poller after whose reading of a row nobody has written to it leaves what is settled alone,
and moves no finished row back, however old its answer is.

### Other disagreements of code and comments

The models have the steps of these and TLC finds them when the statement is
checked. They have no run of their own.

| Where | What the comment promises | What happens |
|---|---|---|
| `FetchPool`, `api/downloads.go:345-347` | a delete stops a running fetch before it removes files | a delete finds nothing to cancel, a dispatch then starts a fetch from the list it has already read: files of a row that is gone |
| `FetchPool`, `importer.go:790-792` | the sweeps leave alone what is being fetched | a row a sweep has listed is retried, and being fetched when the sweep gets to it |
| `Importer`, `api/downloads.go:393-396` | a retried row is one its provider has finished | a row the watchdog put in error is retried, so an unfinished download is fetched |
| `Importer`, `database/downloads.go:1360-1367` | once the provider has said done, nothing it says moves the row back | the state is looked at in a snapshot and the `UPDATE` follows later, after the ordering guard has been left: an old answer the one poller has accepted is written when the other has brought the row to `provider_completed`, or a retry has; dated records do not help |
| `Importer`, `database/downloads.go:1345-1354`, `importer.go:1401-1409` | a retry count says that the importer gave up, and an error of the provider stays live | a row that waits out its backoff has a count; when the provider then reports an error, the row is an error with a count, and no later answer revives it |
| `FetchFiles`, `qbittorrent/torrents.go:559-576` | 100% is not shown before anything is on disk | `qbtProgress` sees to that for the qBittorrent list; the SABnzbd queue (`queue.go:96`) shows the provider's 100% before the first attempt and through the backoff |
| `FetchFiles`, `api/downloads.go:408-421` | a retry runs the fetch again | a ready row fetched with `delete_after_fetch` can be retried; its copy is gone, so it can only be given up, although its files are there |
| `FetchFiles`, `importer.go:1988-2018` | – | a process killed inside a removal leaves a ready row without files, which both shims go on reporting as done, or a row whose copy is gone |
| `Discovery`, `qbittorrent/torrents.go:92-94` | an add whose answer was lost is recognised | a pass adopts the item before the shim, still waiting, has recorded the intent |
| `Discovery`, `api/add.go:679-688` | the old item of a re-add is deleted | the provider answers a re-add with the row's own item, which is then deleted as the old one |

Three more were met while writing `Settings`, `Routing` and `Listing`, and are modelled
as they are: *arr adds fail when the default loses its key although another provider has
one, which a start avoids (`cmd/acervinode/main.go:514-520`) and the API's adds do not suffer
from (`ApiAddsFindAKey`);
a value from the environment is written to config.yaml by the next save, which
is why `RestartChangesNothing` excepts it; and with an import interval above 30
minutes the mass-vanish clock starts over at every pass, so that an emptied account is
never believed (`ListingAssumption` excludes it by `Interval <= Grace`).

**Why the bounds are enough.** A race needs the two parties it is between and a
third to be in the way: two downloads compete for one slot, two goroutines can meet
in one download (an old list and a new one), and a second download shows that a
full pool or a skipped row does not hold up the other. Two attempts have a last one
and one that is not. One request is enough to meet every step of a fetch; what two
requests do to each other is in `discovery`, where they are the point. A life of three
or four records has every state the code treats in its own way, a step back (error to
downloading), and something old to answer with. Bounds that exist only in the model
are `Fetchers`, `MaxRequests`, `MaxRestarts`, `RowIds`, `MaxPending`, `MaxChanges`,
`MaxFailures` and `MaxUsed`. A dispatch also ends when no goroutine record is free;
`discovery` has an id to spare.

In `settings` two overlapping requests and a third change are what it takes for a
request to act on a look at the registry that two others have made wrong (a removed
default that is made the default again); two types that differ in what they serve, and
an account that is not a type, are the cases of the registry's rules. One add is enough:
adds do not read what other adds write. `household` needs an owner, a candidate and a
third account to race with. In `backup` two overlapping backups need two names and a
third for the one that is kept. In `listing` three rows are the fewest of which "more
than half" is neither one nor all, and as many as the code asks for (`MinTracked`); a
streak and a threshold of two, where the code has three, have a listing before the last
one. In `files` there is a download for every way in which name, size and kind of a file
decide: a film named like a sample beside a smaller video, packed posts of which one has
something else in it, an empty file, an unknown size and a wrong one; a size and a pattern
can keep out either of two files. Three events are what the longest stories take: a fetch
that dies, a removal that dies after it, and a retry of what they have left. One removal
at a time is under way, since a second one would find the same calls to make.
The two targets of a row without a path are alike, so one of them is the first.

Requests are left out of `importer` and of the liveness run of the pool: a user who
retries or adds again for ever keeps anything from settling; `OnlyRacesUndo`, which is
checked there, is proved with requests. The provider of `importer` dates its records. For one
that does not, `EveryFinishedSettles` is false once old answers may come in any order: the
fast poll's overtake the bulk pass's again and again, and the guard goes by the request.

**Fairness.** The ticker goes on ticking and no step of a tick waits for a fetch
(weak fairness of the tick's steps). A fetch ends, because of its idle timeout;
a request that has begun is served; backoff is finite (weak fairness of each). A
provider fails or answers with an old record sometimes, not for ever (strong fairness
of a good answer). Nothing is assumed of users, of the provider's progress or of
restarts, and, in `Discovery`, of any request. Every call has a timeout in the code,
which is why a call that never returns is not among the cases.

In `backup` time goes on, a process that stops is started again, a start gets
through again and again, and runs long enough for a backup that is due (strong
fairness of `Fires` and `MovesIn`): an instance that is always stopped within the
second a due backup waits never makes one. In `listing` and `files` only the steps of
the pass and of the attempt are fair; `RowsReconcile` and `FetchesComeThrough` begin
where the provider, its servers and the process work from then on (`steady`), which
nothing makes happen.

Deadlock is checked where ticks go on for ever: the first five runs and `backup`. The
others may stop: `settings`, `wrong_account` and `household` when their bound of changes is
used up, `listing` and `files` when everything is settled or the row is gone.

**Assumed of providers** (`Discovery`): an item id is used once; a new add of
content the account still has may be answered with the item it has. A confirmed
delete has left the listing before the short tombstone lapses; the long one outlasts
the provider's own retention, and both a pass that has its listing already. These
are the reasons `database/discovery.go` gives for the two grace periods.
The provider is configured all the time; `Settings` and `Routing` are about what
happens when it is not.

## 4. Theorems

All are of the form `Spec => []Inv`, `Spec => [][A]_vars` or a refinement, for every
value of the constants that satisfies the named assumption of the module
(`DownloadsAssumption`, `PoolAssumption`, `RefreshAssumption`, `DiscoveryAssumption`,
`ListingAssumption`, `FilesAssumption`, `SettingsAssumption`, `RoutingAssumption`,
`HouseholdAssumption`, `BackupAssumption`).

Every safety property and every action property that a passing run checks has a theorem
below. The argument is the same everywhere: an inductive invariant, one lemma per
group of actions, then one step per action.

**Fetch pool** (`FetchPoolProofs`)

* `PoolTypes`: type correctness.
* `WithinLimit`: at most `MaxConcurrent` downloads in flight. The invariant is
  strengthened by finiteness of `active` (`FiniteWithinLimit`): without it
  `Cardinality` says nothing of a set with one element more.
* `OneFetch`: whoever fetches owns the entry of `active`, alone. Inductive by itself:
  a goroutine starts only for an id that is not in `active`, and it gives back its own.
* `CancelIsAwaited`: needs `CancelledHold`, that a cancelled goroutine still holds
  its slot, and `OneFetch`, so that the one waited for is the one cancelled.
* `PoolImplementsSlots`: every step of the pool takes, gives back or resets slots, or
  stutters, under the mapping `holders <- active`.
* `ReadyFiles`: a ready row has files or is about to go, for `MaxRestarts = 0`. Needs
  `FilesInv`: a goroutine that has written its files, and has not saved the row, has
  files or a row that is going. With restarts it is false: a process killed
  between removing files and removing the row leaves such a row.

**Refresh and the importer as a whole** (`ImporterProofs`)

* `RefreshTypes`: needs that a row is never decided on without a record of it
  (`BulkHeard`, `FastHeard`): the bulk pass has heard of every row it goes through,
  the fast poll of the oldest one left.
* `ImporterTypes`: the types of both halves in the composition. `Sides` splits a step
  into one of the pool beside an idle refresh, one of the refresh beside an idle
  pool, the dispatch of a tick, and a restart, which are steps of both. `FromRecords`
  adds that an `UPDATE` that is due says what one of the provider's records says.
* `ImporterFetches`: limit, single fetch, awaited cancel and the refinement of
  `FetchSlots` hold in the composition too. A step is one the pool may take, or leaves
  the pool's memory alone and readies no row (`PoolView`), so the lemmas about the
  pool's steps are used as they stand.
* `ImporterReady`: so does `ReadyHasFiles`, for `MaxRestarts = 0`. It is the part that needs
  `FromRecords`: no answer of the provider makes a row ready.
* `OnlyRacesUndoRows`: `OnlyRacesUndo`, for every life, both pollers, stale answers, requests
  and restarts. `Races` says of each poller what its reading is worth as long as nobody has
  written to the row: the snapshot agrees with the row (`Reads`), and an `UPDATE` decided on
  it is harmless to it (`Decides`); the watchdog has listed rows that were on their way
  (`StuckList`). Whoever writes to a row marks it for the other poller, and the steps of
  the pool leave alone what pollers hold (`RestsKeeps`, `RestingStep`).

**Files** (`FetchFilesProofs`)

* `FilesTypes`: `FilesInv` adds what the row says during an attempt (`AttemptsAgree`): it
  is completed, or gone, until its files are here, with attempts left; a removal under way
  is of a row that is there and doomed; and no removal touches a shared directory.
* `ToldTrue`, `NothingLost`, `ContentKept` rest on `ToldInv`. While nobody removes the row,
  what an attempt is done with lies in the directory it has settled on (`Written`), and the
  row follows that directory unless a claim has given it another (`PathsAgree`); the
  choice keeps the largest film but for a configured filter and, of a packed post, something
  besides archives (`ChosenWell`). What the last attempt to come through kept stays where it
  was put until a removal begins (`Kept`): a later attempt may write to the same directory,
  but puts nothing there that is not whole. A ready row is one such an attempt has brought
  (`Delivered`), and a copy that is gone was its, or a removal has begun (`Owed`). An attempt
  reports 100% only when all it has left are empty files and the one whose bytes are all
  in its `.part` (`ToldTruly`).

**Listing** (`ListingProofs`)

* `ListingTypes`: the types, with the back-off between 0 and `MaxCooldown` after any number
  of refusals (`BackoffIsBounded`, `BackoffSteps`).
* `GivenUpOnlyWhenGone`, `AnomaliesWait`: `CountsAreBacked` relates the count on
  disk, which survives restarts, to listings seen since the last failure: a count
  that is not backed belongs to a provider that is not trusted yet, and by the time
  it is, enough has been seen. `ClocksAgree` says the same of the mass-vanish clock: it
  is not ahead of the observer's unless it is about to be started over.

**Discovery** (`DiscoveryProofs`)

* `DiscoveryTypes`: includes `Filled`, that what is under way names an item, which
  the other proofs use.
* `GhostsStayAway`: no pass adopts what had been deleted when it read the rows. Two
  invariants carry it. `SeenInv`: whatever a table, a request or a pass names has
  been in the account, so it never becomes new again. `GhostInv`: what is deleted is
  *buried*, has a tombstone or has left the account and every listing a pass
  holds; a delete that has its tombstone and not yet removed its row is buried too; a
  tombstone with the short lifetime is of an item the provider is already
  deleting. A pass reads tombstones after rows, so it finds them all.
* `ArrRowsStayManaged`: the row an *arr app was told of is Managed. `ManagedInv` adds
  that a request under way has told nobody anything yet; a row id is given out only
  when no request refers to it.

**Settings and routing** (`RoutingProofs`)

* `SettingsTypes`, `FallbackRegistered`, `RestartsChangeNothing`: one invariant, `Sane` and
  `RequestsOK`. A registered name is one a start would register, and a second account is
  always registered (`Rooted`); a name that is not registered has no clients (`Gone`);
  and as long as no write has failed, the file differs from memory in the override
  at most and every client is built from what memory says (`Agree`). A start registers
  what the file names, in the order of `Sorted`; by `Rooted` and `Agree` it makes
  the clients that are running.
* `RemovedStayGone`: an account that was removed comes back by an add only, or from a
  file that could not be written.
* `ApiFindsAKey`: if some account of a kind holds a key, the API's adds go to one that does.
* `AddsLeaveSettings`: `Routing` implements `Settings`, so all of this holds beside adds.
* `OneCopy`: `AllSound` says at each stage of an add what it holds: nothing until the
  provider has taken the item, and no row before the end.

**Accounts and categories** (`HouseholdProofs`)

* `HouseholdTypes`, `OwnerRemains`, `CategoriesKnown`, `DeletedStayGone`: one invariant,
  `HouseholdInv`. Ownership is proved of every configuration that is ever saved; that
  deleted categories stay away needs that memory and file agree as long as no write has
  failed (`NothingFailed`).

**Backup** (`BackupProofs`)

* `BackupTypes`: the snapshots are a sequence without repetition, which taking, pruning and
  deleting keep; ages stay below `Longest`, which exists because the intervals are finite.
* `PrunesTradeUp`: `PruneInv`. Only a prune has victims, only a backup that succeeded
  prunes, and the victims are closed downwards (`Downwards`): whatever is older than
  one of them is one too, and it stays so while others take and delete snapshots. So a
  prune removes the oldest, and leaves a newer whole one.
* `TimerFollows`: `Heard` adds what is in the channel, which is always the newest interval.
* `HistoryStays`: `Kept` adds that a running process has its database in place, and
  that a database which is not in place is the one set aside; a start that begins
  again between the two moves has nothing to set aside.

Assumptions on constants say what the code fixes: bounds are naturals, names that stand for
"none" are not names, the intervals one can set are finite in number, `Sorted` is a
sequence of names without repetition, a post is a finite set of files whose names
differ. TLC evaluates all of them in the runs.

Where a proof needs induction over data, it picks the least counterexample of a
well-founded order instead (`WFMin`): `UpTo` in `RoutingProofs`, for what a filter keeps of
a sequence, which `Settings` therefore writes as a recursive function (`Filter`), and
`HasLargest` in `BackupProofs`, for the longest interval.

**Only model-checked**: liveness, which is out of the prover's reach: `EveryDueSettles`,
`EveryFinishedSettles`, `NewItemsShowUp`, `BackupsGoOn`, `RowsReconcile` and `FetchesComeThrough`.

## 5. Not modelled

* The listing cache (`debrid/listcache.go`): the importer's pass, its only user left,
  always asks for a fresh listing, and nothing calls `ListCached`.
* Provider clients are HTTP and JSON; what they can answer is the environment.
* Parsing of magnets, torrents and NZBs, uploads, cached checks, hash and name matching
  of intents, source files, the backfills of hash, name and source.
* The views of both shims beyond state, progress and path: speeds, limits, paging,
  free space. Their pause, priority and queue calls change nothing.
* Sessions, passwords, API keys, certificates, SQL migrations, the web UI: single
  lookups or values under a mutex, or things done once before anything else.
* Keys of providers given in the environment, test-connection, and download-time settings.
* What a database has in its `-wal` only; clocks that are set back.
* Real time. Timeouts, grace periods and retention periods are events that may come
  at any time their code allows, or units of the constants in `Listing` and `Backup`.

## 6. Plan

Done, in this order: `Database`, `FetchSlots`, `FetchPool`, `Refresh`, `Importer`,
`Discovery`, `Settings`, `Routing`, `Backup`, `Household`, `Listing`, `FetchFiles`, with proofs
of the safety of all of them. What would add most:

1. `Discovery` over `Settings`: passes, adds and deletes while their provider is removed
   or reset, so that a delete without a provider and its short tombstone can be stated.
2. `FetchPool` implementing an abstract fetch that `FetchFiles` refines, in place
   of the agreement by hand on where an attempt begins and ends.
3. Several intents and hash matching in `Discovery`; re-adds that wait for a fetch.
