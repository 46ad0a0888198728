----------------------------- MODULE FetchFiles -----------------------------
(***************************************************************************)
(* One fetch, file by file, and what the *arr apps are told meanwhile.     *)
(*                                                                         *)
(* FetchPool has the fetch as one step between reserving and freeing a     *)
(* slot; this module opens it (importer.go, processReserved and            *)
(* fetchFile).  The provider's list is taken and filtered, a destination   *)
(* is settled, every file is written to a .part beside its place and       *)
(* renamed into it, the place is recorded on the row, the row becomes      *)
(* ready, and the provider's copy may be deleted.  The process can die     *)
(* between any two of these; the disk and the row stay.  The destination   *)
(* of a row with no recorded path follows the settings, so that two        *)
(* attempts may not agree on it.                                           *)
(*                                                                         *)
(* Around it a row can be retried in every state the provider is done in,  *)
(* and removed by a request or by the retention sweep, call by call: one   *)
(* removal at a time, reading the row and stopping its fetch in one step.  *)
(* The tombstones they write are Discovery's, a cancelled fetch that does  *)
(* not stop in time is FetchPool's.  A provider that is not registered is  *)
(* one whose calls fail and change nothing.                                *)
(*                                                                         *)
(* The views at the end are what the qBittorrent and SABnzbd shims make of *)
(* the row (torrents.go, queue.go, history.go).                            *)
(***************************************************************************)
EXTENDS Integers, FiniteSets, FiniteSetsExt

CONSTANTS
    Downloads,    \* what a provider may have: records [kind, post] of torrent
                  \* or usenet and a set of files, each a record
                  \*   [name, kind, size (reported, 0 unknown), bytes (true)]
    Targets,      \* directories a row without a path resolves to, one a setting
    GivenPaths,   \* paths an *arr add may bring
    Shared,       \* the one of them that does not end with the download's name
    Filters,      \* settings of the file filters: records [min, max (0 for none),
                  \* pass, the names the include and exclude patterns let through]
    Refusals,     \* len(fileOpenRetryDelays)
    MaxRetries,   \* import_max_retries
    MaxEvents     \* bound on crashes, requests, sweeps, changes of settings and
                  \* lists that are not whole

NoPath == "none"
Dirs   == Targets \cup GivenPaths
Names  == UNION {{f.name : f \in d.post} : d \in Downloads}
Kinds  == {"video", "sample", "archive", "support", "other"}

\* The files of a download have names and places of their own, and a path is
\* never empty.
ASSUME FilesAssumption ==
    /\ \A d \in Downloads :
         /\ IsFiniteSet(d.post)
         /\ \A f \in d.post : f.kind \in Kinds /\ f.size \in Nat /\ f.bytes \in Nat
         /\ \A f, g \in d.post : f.name = g.name => f = g
    /\ Shared \notin Targets /\ NoPath \notin Dirs
    /\ Refusals \in Nat /\ MaxRetries \in Nat \ {0} /\ MaxEvents \in Nat
    /\ Filters \subseteq [min : Nat, max : Nat, pass : SUBSET Names]

VARIABLES
    download,  \* what the provider has: its files, its kind, whether it is there,
               \* and whether its copy is to go after the fetch
    row,       \* the row of the downloads table
    target,    \* where a row without a path resolves to
    fetch,     \* the attempt under way, in the process's memory
    got,       \* what the attempt that last made the row ready kept, and where
    disk,      \* disk[dir][file]: bytes in place, -1 for none
    part,      \* the .part files on disk
    sibling,   \* another download's files in Shared are there
    removal,   \* a removal under way: whose, the path it read, the calls it has left
    doomed,    \* a removal has begun since the row was last made ready
    steady,    \* the provider, its servers and the process work from here on
    events     \* how many crashes, requests and the like there were so far

around == <<removal, doomed, steady, events>>
vars == <<download, row, target, fetch, got, disk, part, sibling, around>>

Idle == [pc |-> "off", saved |-> NoPath, retries |-> 0, dest |-> NoPath, list |-> {},
         out |-> {}, kept |-> {}, todo |-> {}, at |-> {}, refused |-> 0]
NoRow == [state |-> "removed", saved |-> NoPath, retries |-> 0, elsewhere |-> FALSE]
NothingGot == [kept |-> {}, dest |-> NoPath]
NoRemoval  == [by |-> "none", saved |-> NoPath, left |-> {}]

----------------------------------------------------------------------------
(* Which files are fetched.                                                *)

\* packedOnly: archives and what travels with them, and no sample as big as
\* all the archives.  Kinds: video, sample (a video named like one), archive,
\* support, other.
Size(files) == MapThenSumSet(LAMBDA f : f.size, files)
Archives(files) == {f \in files : f.kind = "archive"}
Outweighs(f, files) == f.size > 0 /\ f.size >= Size(Archives(files))
PackedOnly(files) ==
    /\ Archives(files) # {}
    /\ \A f \in files : f.kind \in {"archive", "support", "sample"}
    /\ \A f \in files : f.kind = "sample" => ~Outweighs(f, files)

\* dropSamples: a video named like a sample goes only when a video that is
\* not named so is larger.
\* Mutation: the name alone decides.
DropsByName(files) == {f \in files : f.kind # "sample"}
DropSamples(files) ==
    {f \in files : f.kind = "sample" =>
       ~ \E g \in files : g.kind = "video" /\ g.size > f.size}

Passes(filter, f) ==
    /\ f.size >= filter.min
    /\ filter.max > 0 => f.size <= filter.max
    /\ f.name \in filter.pass

FilterFiles(files, skip, filter) ==
    {f \in (IF skip THEN DropSamples(files) ELSE files) : Passes(filter, f)}

\* resolveDestDir.
Resolve(saved) == IF saved = NoPath THEN target ELSE saved

----------------------------------------------------------------------------
FilesInit ==
    /\ download \in {[kind |-> d.kind, post |-> d.post, there |-> TRUE, thenDelete |-> b]
                       : d \in Downloads, b \in BOOLEAN}
    /\ row = [state |-> "queued", saved |-> NoPath, retries |-> 0, elsewhere |-> FALSE]
    /\ target \in Targets
    /\ fetch = Idle /\ got = NothingGot
    /\ disk = [d \in Dirs |-> [f \in Names |-> -1]]
    /\ part = [d \in Dirs |-> {}]
    /\ sibling = TRUE /\ removal = NoRemoval /\ doomed = FALSE /\ steady = FALSE
    /\ events = 0

Event == events < MaxEvents /\ events' = events + 1

\* The refresh brings the provider's state (LocalStateFromProvider).
ProviderMoves ==
    /\ \/ row.state = "queued" /\ row' = [row EXCEPT !.state = "downloading"]
       \/ row.state = "downloading" /\ row' = [row EXCEPT !.state = "completed"]
    /\ UNCHANGED <<download, target, fetch, got, disk, part, sibling, around>>

\* processReserved, up to the provider's answer.
Begins ==
    /\ fetch.pc = "off" /\ row.state = "completed"
    /\ fetch' = [Idle EXCEPT !.pc = "list", !.saved = row.saved, !.retries = row.retries]
    /\ row' = [row EXCEPT !.elsewhere = FALSE]
    /\ UNCHANGED <<download, target, got, disk, part, sibling, around>>

\* handleFailure counts on from the row the attempt began with; on a row that is
\* gone its statements find nothing.
Failed ==
    /\ fetch' = Idle
    /\ row' = IF row.state = "removed" THEN row
              ELSE [row EXCEPT !.retries = fetch.retries + 1,
                      !.state = IF fetch.retries + 1 >= MaxRetries THEN "error" ELSE @]
    /\ UNCHANGED <<download, target, got, disk, sibling, removal, doomed, steady>>
Failure == Failed /\ UNCHANGED events

\* An error, or a list with nothing in it yet.
ListFails ==
    /\ fetch.pc = "list" /\ (~steady \/ ~download.there)
    /\ Failure /\ UNCHANGED part

Refuses(list) == download.kind = "usenet" /\ PackedOnly(list)

\* The provider may know of some of the files only.
Answers(list) ==
    /\ download.there
    /\ \/ list = download.post /\ UNCHANGED events
       \/ list \notin {{}, download.post} /\ ~steady /\ Event

ListRefused ==
    /\ fetch.pc = "list"
    /\ \E list \in SUBSET download.post : Refuses(list) /\ Answers(list)
    /\ Failed /\ UNCHANGED part

Lists ==
    /\ fetch.pc = "list"
    /\ \E list \in SUBSET download.post, skip \in BOOLEAN, filter \in Filters :
         LET kept == FilterFiles(list, skip, filter)
             out  == {f \in list : ~Passes(filter, f)}
         IN  /\ ~Refuses(list) /\ Answers(list)
             /\ fetch' = [fetch EXCEPT !.pc = "files", !.dest = Resolve(fetch.saved),
                            !.list = list, !.out = out, !.kept = kept, !.todo = kept]
    /\ UNCHANGED <<download, row, target, got, disk, part, sibling, removal, doomed, steady>>

\* fetchFile: what is in place at the size the provider reports is not
\* fetched again.
Skips(f) ==
    /\ fetch.pc = "files" /\ f \in fetch.todo
    /\ disk[fetch.dest][f.name] = f.size
    /\ fetch' = [fetch EXCEPT !.todo = @ \ {f}]
    /\ UNCHANGED <<download, row, target, got, disk, part, sibling, around>>

Opens(f) ==
    /\ fetch.pc = "files" /\ f \in fetch.todo
    /\ disk[fetch.dest][f.name] # f.size
    /\ fetch' = [fetch EXCEPT !.pc = "open", !.at = {f}, !.refused = 0]
    /\ UNCHANGED <<download, row, target, got, disk, part, sibling, around>>

\* openFile: a refused request is made again with a fresh link.
\* Mutation: one retry more than there are delays.
OneMoreTry == fetch.refused <= Refusals
TriesAgain == fetch.refused < Refusals

ServerRefuses ==
    /\ fetch.pc = "open" /\ ~steady /\ TriesAgain
    /\ fetch' = [fetch EXCEPT !.refused = @ + 1]
    /\ UNCHANGED <<download, row, target, got, disk, part, sibling, around>>

\* The last refusal, no link, or no connection.
OpenFails ==
    /\ fetch.pc = "open" /\ (~steady \/ ~download.there)
    /\ Failure /\ UNCHANGED part

\* A .part left by a process that died is written over.
\* Mutation: it is in the way.
AcceptsIfNew(f) ==
    /\ fetch.pc = "open" /\ f \in fetch.at /\ f.name \notin part[fetch.dest]
    /\ part' = [part EXCEPT ![fetch.dest] = @ \cup {f.name}]
    /\ fetch' = [fetch EXCEPT !.pc = "copy", !.refused = 0]
    /\ UNCHANGED <<download, row, target, got, disk, sibling, around>>
Accepts(f) ==
    /\ fetch.pc = "open" /\ f \in fetch.at
    /\ part' = [part EXCEPT ![fetch.dest] = @ \cup {f.name}]
    /\ fetch' = [fetch EXCEPT !.pc = "copy", !.refused = 0]
    /\ UNCHANGED <<download, row, target, got, disk, sibling, around>>

PartGone(f) == part' = [part EXCEPT ![fetch.dest] = @ \ {f.name}]

\* The stream ended cleanly after n bytes: expectedTransferSize, by the
\* server's length if it stated one, else by the provider's size.
\* Mutation: a clean end is taken for the whole file.
CleanEnd(f, n, stated) == stated => n = f.bytes
Complete(f, n, stated) ==
    IF stated THEN n = f.bytes ELSE f.size = 0 \/ n = f.size

Renamable(f) == f.name \in part[fetch.dest]

\* The connection broke or stalled, the file is short, or a removal has taken
\* the .part and there is nothing to rename.
CopyFails(f) ==
    /\ fetch.pc = "copy" /\ f \in fetch.at /\ (~steady \/ ~Renamable(f))
    /\ PartGone(f) /\ Failure

Copies(f) ==
    /\ fetch.pc = "copy" /\ f \in fetch.at /\ Renamable(f)
    /\ \E n \in 0 .. f.bytes, stated \in BOOLEAN :
         /\ steady => n = f.bytes /\ stated
         /\ Complete(f, n, stated)
         /\ disk' = [disk EXCEPT ![fetch.dest][f.name] = n]
    /\ PartGone(f)
    /\ fetch' = [fetch EXCEPT !.pc = "files", !.at = {}, !.todo = @ \ {f}]
    /\ UNCHANGED <<download, row, target, got, sibling, around>>

\* A path the row was not given is recorded: the one this attempt has used.
PathUsed == fetch.dest

PersistsPath ==
    /\ fetch.pc = "files" /\ fetch.todo = {}
    /\ row.state # "removed" \/ fetch.saved # NoPath
    /\ fetch' = [fetch EXCEPT !.pc = "mark"]
    /\ row' = IF fetch.saved = NoPath
              THEN [row EXCEPT !.saved = PathUsed, !.elsewhere = FALSE] ELSE row
    /\ UNCHANGED <<download, target, got, disk, part, sibling, around>>

MarksReady ==
    /\ fetch.pc = "mark" /\ row.state # "removed"
    /\ row' = [row EXCEPT !.state = "ready"]
    /\ got' = [kept |-> fetch.kept, dest |-> fetch.dest]
    /\ doomed' = (removal.by # "none")
    /\ fetch' = IF download.thenDelete THEN [fetch EXCEPT !.pc = "delete"] ELSE Idle
    /\ UNCHANGED <<download, target, disk, part, sibling, removal, steady, events>>

\* Both statements fail when a removal has taken the row.
FindsNoRow ==
    /\ row.state = "removed"
    /\ \/ fetch.pc = "files" /\ fetch.todo = {} /\ fetch.saved = NoPath
       \/ fetch.pc = "mark"
    /\ Failure /\ UNCHANGED part

\* The provider is told to delete its copy, and may have done so when its
\* answer is lost.
ProviderDeletes ==
    \E gone \in BOOLEAN : download' = [download EXCEPT !.there = @ /\ ~gone]

\* deleteProviderCopyAfterFetch.
\* Mutation: once everything is copied, whatever becomes of the row.
CopyGoesEarly ==
    /\ fetch.pc \in {"mark", "delete"}
    /\ ProviderDeletes
    /\ fetch' = Idle
    /\ UNCHANGED <<row, target, got, disk, part, sibling, around>>
DeletesProviderCopy ==
    /\ fetch.pc = "delete"
    /\ ProviderDeletes
    /\ fetch' = Idle
    /\ UNCHANGED <<row, target, got, disk, part, sibling, around>>

FetchStep ==
    \/ Begins \/ ListFails \/ ListRefused \/ Lists
    \/ \E f \in fetch.todo : Skips(f) \/ Opens(f)
    \/ ServerRefuses \/ OpenFails
    \/ \E f \in fetch.at : Accepts(f) \/ CopyFails(f) \/ Copies(f)
    \/ PersistsPath \/ MarksReady \/ FindsNoRow \/ DeletesProviderCopy

----------------------------------------------------------------------------
(* Around the fetch.                                                       *)

\* removableDestDir: only a directory that ends with the download's name.
Removable(dir) == dir # Shared

\* RemoveLocalFiles, of the path the row had when it was read.
RemoveLocalFiles ==
    LET dir == Resolve(removal.saved)
    IN  IF Removable(dir)
        THEN /\ disk' = [disk EXCEPT ![dir] = [f \in Names |-> -1]]
             /\ part' = [part EXCEPT ![dir] = {}]
             /\ sibling' = (sibling /\ dir # Shared)
        ELSE UNCHANGED <<disk, part, sibling>>

Begun(by, calls) ==
    /\ row.state # "removed" /\ removal.by = "none" /\ ~steady /\ Event
    /\ removal' = [by |-> by, saved |-> row.saved, left |-> calls]
    /\ doomed' = TRUE
    /\ UNCHANGED <<download, row, target, got, disk, sibling, steady>>

\* A request reads the row, and CancelFetch stops its fetch, which counts no
\* failure; it goes on to the provider and, when asked to, to the files.
AppDeletes(kind) ==
    /\ download.kind = kind
    /\ \E deleteFiles \in BOOLEAN :
         Begun("app", IF deleteFiles THEN {"provider", "files"} ELSE {"provider"})
    /\ fetch' = Idle
    /\ part' = IF fetch.pc = "copy"
               THEN [part EXCEPT ![fetch.dest] = @ \ {f.name : f \in fetch.at}]
               ELSE part

DeletesTorrent == AppDeletes("torrent")
DeletesNZB     == AppDeletes("usenet")

\* cleanupDownload stops no fetch.
CleansUp ==
    /\ row.state \in {"ready", "error"}
    /\ Begun("sweep", {"files", "provider"})
    /\ UNCHANGED <<fetch, part>>

\* A request goes to the provider first, the sweep to the files.
Turn(call, first) ==
    /\ call \in removal.left
    /\ removal.by = first \/ removal.left = {call}
    /\ removal' = [removal EXCEPT !.left = @ \ {call}]

RemovesCopy ==
    /\ Turn("provider", "app") /\ ProviderDeletes
    /\ UNCHANGED <<row, target, fetch, got, disk, part, sibling, doomed, steady, events>>

RemovesFiles ==
    /\ Turn("files", "sweep") /\ RemoveLocalFiles
    /\ UNCHANGED <<download, row, target, fetch, got, doomed, steady, events>>

\* DeleteDownload.  A fetch that began meanwhile goes on.
RemovesRow ==
    /\ removal.by # "none" /\ removal.left = {}
    /\ removal' = NoRemoval /\ row' = NoRow /\ got' = NothingGot /\ doomed' = FALSE
    /\ UNCHANGED <<download, target, fetch, disk, part, sibling, steady, events>>

\* The process dies and starts again.
Crashes ==
    /\ ~steady /\ (fetch.pc # "off" \/ removal.by # "none") /\ Event
    /\ fetch' = Idle /\ removal' = NoRemoval
    /\ UNCHANGED <<download, row, target, got, disk, part, sibling, doomed, steady>>

\* handleRetryDownload: wherever the provider is done (retryableState).
Retries ==
    /\ row.state \in {"error", "ready", "completed"} /\ ~steady /\ Event
    /\ row' = [row EXCEPT !.state = "completed", !.retries = 0]
    /\ UNCHANGED <<download, target, fetch, got, disk, part, sibling, removal, doomed, steady>>

\* download_dir, the category's path or the row's category is changed.
TargetMoves(dir) ==
    /\ dir # target /\ Event
    /\ target' = dir
    /\ UNCHANGED <<download, row, fetch, got, disk, part, sibling, removal, doomed, steady>>

\* InsertOrClaimForArr: an *arr add that the provider answers with this very
\* item writes its save_path over the row's, whatever has been fetched.
Claims(dir) ==
    /\ row.state # "removed" /\ row.saved # dir /\ ~steady /\ Event
    /\ row' = [row EXCEPT !.saved = dir,
                          !.elsewhere = row.state = "ready" \/ fetch.pc # "off"]
    /\ UNCHANGED <<download, target, fetch, got, disk, part, sibling, removal, doomed, steady>>

Settles ==
    /\ ~steady /\ removal.by = "none"
    /\ steady' = TRUE
    /\ UNCHANGED <<download, row, target, fetch, got, disk, part, sibling, removal, doomed,
                   events>>

FilesNext ==
    \/ ProviderMoves \/ FetchStep \/ Crashes \/ Retries
    \/ CleansUp \/ DeletesTorrent \/ DeletesNZB
    \/ RemovesCopy \/ RemovesFiles \/ RemovesRow
    \/ \E dir \in Targets : TargetMoves(dir)
    \/ \E dir \in GivenPaths : Claims(dir)
    \/ Settles

\* Ticks go on and every step of an attempt returns, if only by its timeout.
FilesSpec == FilesInit /\ [][FilesNext]_vars /\ WF_vars(FetchStep)

----------------------------------------------------------------------------
(* What the *arr apps are told: pure views of the row.                     *)

QbtState ==
    CASE row.state = "queued"                      -> "queuedDL"
      [] row.state \in {"downloading", "completed"} -> "downloading"
      [] row.state = "ready"                       -> "pausedUP"
      [] row.state = "error"                       -> "error"
      [] OTHER                                     -> "gone"

\* The local copy's progress, while there is one, at the most it can be: what
\* is written of a file is reported before the file is renamed into its place.
\* (A list without a size is measured by the row's own; that is left out.)
Sized(files) == {f \in files : f.size > 0}
Left == IF fetch.pc = "copy" THEN fetch.todo \ fetch.at ELSE fetch.todo

FetchProgress ==
    IF \/ Sized(fetch.kept) = {}
       \/ fetch.pc \notin {"files", "open", "copy", "mark", "delete"}
       \/ fetch.kept = Left THEN "untracked"
    ELSE IF Sized(Left) = {} THEN "all" ELSE "some"

\* What the provider last said of its own copy: some figure, and the whole once
\* it is done.
Reported == IF row.state \in {"queued", "downloading"} THEN "reported" ELSE "all"

\* What the SABnzbd queue shows, too.
EffectiveProgress ==
    IF row.state = "completed" /\ FetchProgress # "untracked" THEN FetchProgress
    ELSE Reported

QbtProgress ==
    IF row.state = "completed" /\ FetchProgress = "untracked" THEN "none"
    ELSE EffectiveProgress

\* mode=queue: what the provider or the fetch is still at.
InQueue == row.state \in {"queued", "downloading", "completed"}
QueueStatus ==
    CASE ~InQueue                  -> "none"
      [] row.state = "queued"      -> "Queued"
      [] row.state = "downloading" -> "Downloading"
      [] row.state = "completed"   -> "Moving"

\* mode=history: what is over, the only place an app takes a path from.
HistoryStatus ==
    CASE row.state = "ready" -> "Completed"
      [] row.state = "error" -> "Failed"
      [] OTHER               -> "none"

----------------------------------------------------------------------------
(* Properties.                                                             *)

\* Every value is one the code can hold; a server is asked for a file once
\* and then as often as there are delays (openFile).
FilesTypeOK ==
    /\ download.there \in BOOLEAN /\ doomed \in BOOLEAN
    /\ row \in [state : {"queued", "downloading", "completed", "ready", "error", "removed"},
                saved : Dirs \cup {NoPath}, retries : 0 .. MaxRetries, elsewhere : BOOLEAN]
    /\ target \in Targets
    /\ fetch.pc \in {"off", "list", "files", "open", "copy", "mark", "delete"}
    /\ fetch.refused \in 0 .. Refusals
    /\ fetch.at \subseteq fetch.todo /\ fetch.todo \subseteq fetch.kept
    /\ removal \in [by : {"none", "app", "sweep"}, saved : Dirs \cup {NoPath},
                    left : SUBSET {"provider", "files"}]
    /\ \A d \in Dirs : part[d] \subseteq Names

\* As whole as anyone said it is: when neither the server nor the provider
\* states a size there is nothing to hold a file to.
InPlace(dir, f) ==
    LET n == disk[dir][f.name]
    IN  n \in {f.size, f.bytes} \/ (f.size = 0 /\ n >= 0)

\* A download on its way that is said to be at 100%, while a fetch is tracked in
\* the SABnzbd queue, always in the qBittorrent list.
ToldWhole ==
    \/ QbtState = "downloading" /\ QbtProgress = "all"
    \/ QueueStatus = "Moving" /\ FetchProgress # "untracked" /\ EffectiveProgress = "all"

\* A download that either shim reports as done has a path, and every file the
\* attempt kept of the provider's list is there in full, whatever crashes,
\* short transfers, retries and changed settings came before - unless an *arr
\* add has rewritten the path since, or a removal of it has begun, which a crash
\* may have ended between the files and the row.  While a fetch of it is
\* tracked, a download still on its way is not at 100% in either shim before
\* every file with anything in it is there, or has been written to its .part
\* and is about to be renamed, when the provider's sizes are right and nobody is
\* removing it; while no fetch is under way, the qBittorrent shim does not say
\* 100% at all.  (The SABnzbd queue does then: it shows the provider's figure.)
AppsFindWhatTheyAreTold ==
    /\ QbtState = "pausedUP" \/ HistoryStatus = "Completed" =>
         \/ row.elsewhere \/ doomed
         \/ row.saved # NoPath /\ \A f \in got.kept : InPlace(row.saved, f)
    /\ ToldWhole =>
         /\ fetch.pc # "off"
         /\ \/ \E f \in fetch.kept : f.size # f.bytes
            \/ removal.by # "none"
            \/ \A f \in fetch.kept :
                 \/ f.bytes = 0 \/ InPlace(fetch.dest, f)
                 \/ f \in fetch.at /\ f.name \in part[fetch.dest]

Videos(files)  == {f \in files : f.kind \in {"video", "sample"}}
Content(files) ==
    {f \in files : f.kind \in {"video", "other"}
                   \/ (f.kind = "sample" /\ Outweighs(f, files))}

\* Of the list an attempt is about to make its row ready with, the largest video
\* was not taken for a sample: only a size or a pattern someone configured keeps
\* it out.  And a usenet download that was never unpacked does not reach an app
\* as done.
ContentIsKept ==
    fetch.pc = "mark" =>
      /\ \A f \in Videos(fetch.list) :
           (\A g \in Videos(fetch.list) : g.size <= f.size) => f \in fetch.kept \cup fetch.out
      /\ download.kind = "usenet" /\ Archives(fetch.list) # {} => Content(fetch.list) # {}

\* Deleting one download never takes what another has in the same directory,
\* and the provider's copy is given up only by a removal of the download or
\* when everything an attempt kept of it is on local disk - where it stays
\* through retries of a row whose copy is gone, through crashes, and when the
\* row has been given another path.
NothingIsLost ==
    /\ sibling
    /\ ~download.there =>
         \/ row.state = "removed" \/ doomed
         \/ got.dest # NoPath /\ \A f \in got.kept : InPlace(got.dest, f)

\* Once the provider and its servers answer, a download the provider has
\* completed is brought to local disk, whatever earlier attempts, crashes and
\* removals have left there; it is given up only when the provider's copy is
\* gone or was never unpacked, and it never hangs between.
FetchesComeThrough ==
    (steady /\ row.state = "completed") ~>
      \/ row.state = "ready"
      \/ row.state = "error" /\ (~download.there \/ Refuses(download.post))
=============================================================================
