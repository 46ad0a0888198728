--------------------------- MODULE FetchFilesProofs ---------------------------
(***************************************************************************)
(* Types of a fetch, that nothing is lost by it or by the removals around  *)
(* it, that an app finds what it is told is there, and that the content of *)
(* a download is kept, for any downloads, directories, retry limits and    *)
(* filters, and for any number of crashes, requests and sweeps.            *)
(***************************************************************************)
EXTENDS FetchFiles, TLAPS

USE FilesAssumption DEF FilesAssumption

(***************************************************************************)
(* Types.  The attempt and the download are typed by field.                *)
(***************************************************************************)
RowStates == {"queued", "downloading", "completed", "ready", "error", "removed"}

RowRecords == [state : RowStates, saved : Dirs \cup {NoPath}, retries : 0 .. MaxRetries,
               elsewhere : BOOLEAN]

RowTyped == row \in RowRecords

\* An attempt at the files, and what has any of them on disk.
Trying   == {"list", "files", "open", "copy", "mark"}
UnderWay == {"files", "open", "copy", "mark", "delete"}

FetchTyped ==
    /\ DOMAIN fetch = {"pc", "saved", "retries", "dest", "list", "out", "kept", "todo",
                       "at", "refused"}
    /\ fetch.pc \in {"off", "list", "files", "open", "copy", "mark", "delete"}
    /\ fetch.saved \in Dirs \cup {NoPath}
    /\ fetch.retries \in 0 .. MaxRetries /\ fetch.retries < MaxRetries
    /\ fetch.pc \in UnderWay => fetch.dest \in Dirs
    /\ fetch.kept \subseteq download.post
    /\ fetch.list \subseteq download.post
    /\ fetch.todo \subseteq fetch.kept
    /\ fetch.at \subseteq fetch.todo
    /\ fetch.pc \notin {"open", "copy"} => fetch.at = {}
    /\ fetch.refused \in 0 .. Refusals

DownloadTyped ==
    /\ DOMAIN download = {"kind", "post", "there", "thenDelete"}
    /\ \E d \in Downloads : download.post = d.post
    /\ download.there \in BOOLEAN

RemovalTyped ==
    /\ removal \in [by : {"none", "app", "sweep"}, saved : Dirs \cup {NoPath},
                    left : SUBSET {"provider", "files"}]
    /\ doomed \in BOOLEAN

Typed ==
    /\ RowTyped /\ FetchTyped /\ DownloadTyped /\ RemovalTyped
    /\ target \in Targets
    /\ part \in [Dirs -> SUBSET Names]

(***************************************************************************)
(* What the row says while an attempt or a removal is under way.  It is    *)
(* completed, or gone, until its files are here; it can be retried at any  *)
(* time, and a completed row always has an attempt left.                   *)
(***************************************************************************)
AttemptsAgree ==
    /\ fetch.pc \in Trying => row.state \in {"completed", "removed"}
    /\ fetch.pc = "delete" => row.state \in {"ready", "completed", "removed"}
    /\ row.state \in {"queued", "downloading"} => row.retries = 0
    /\ row.state = "completed" => row.retries < MaxRetries
    /\ removal.by = "none" => removal.left = {}
    /\ removal.by # "none" => doomed /\ row.state # "removed"

FilesInv == Typed /\ AttemptsAgree /\ sibling

LEMMA PlaceFacts ==
    /\ Targets \subseteq Dirs
    /\ \A saved \in Dirs \cup {NoPath} : target \in Targets => Resolve(saved) \in Dirs
BY DEF Dirs, Resolve

LEMMA NameFacts ==
  ASSUME DownloadTyped, NEW f \in download.post
  PROVE  f.name \in Names
<1>1. PICK d \in Downloads : download.post = d.post
  BY DEF DownloadTyped
<1>2. f.name \in {g.name : g \in d.post}
  BY <1>1
<1> QED BY <1>2 DEF Names

LEMMA TypesOK == Typed => FilesTypeOK
BY DEF Typed, RowTyped, RowRecords, RowStates, FetchTyped, DownloadTyped, RemovalTyped,
       FilesTypeOK

LEMMA FilesStarts == FilesInit => FilesInv
<1> SUFFICES ASSUME FilesInit PROVE FilesInv
  OBVIOUS
<1>1. RowTyped
  BY DEF FilesInit, RowTyped, RowRecords, RowStates
<1>2. FetchTyped
  BY DEF FilesInit, FetchTyped, Idle, UnderWay
<1>3. DownloadTyped
  <2>1. PICK d \in Downloads, b \in BOOLEAN :
          download = [kind |-> d.kind, post |-> d.post, there |-> TRUE, thenDelete |-> b]
    BY DEF FilesInit
  <2> QED BY <2>1 DEF DownloadTyped
<1>4. target \in Targets /\ part \in [Dirs -> SUBSET Names]
  BY DEF FilesInit
<1>5. RemovalTyped
  BY DEF FilesInit, RemovalTyped, NoRemoval
<1>6. AttemptsAgree
  BY DEF FilesInit, AttemptsAgree, Idle, NoRemoval, Trying
<1>7. sibling
  BY DEF FilesInit
<1> QED BY <1>1, <1>2, <1>3, <1>4, <1>5, <1>6, <1>7 DEF FilesInv, Typed

-------------------------------------------------------------------------------
(***************************************************************************)
(* What the steps write.                                                   *)
(***************************************************************************)
\* A row as a statement leaves it.
LEMMA RowWrites ==
  ASSUME RowTyped
  PROVE  /\ \A state \in RowStates :
              LET r == [row EXCEPT !.state = state] IN
              r \in RowRecords /\ r.state = state /\ r.retries = row.retries
         /\ LET r == [row EXCEPT !.elsewhere = FALSE] IN
            r \in RowRecords /\ r.state = row.state /\ r.retries = row.retries
         /\ \A dir \in Dirs, moved \in BOOLEAN :
              LET r == [row EXCEPT !.saved = dir, !.elsewhere = moved] IN
              r \in RowRecords /\ r.state = row.state /\ r.retries = row.retries
         /\ LET r == [row EXCEPT !.state = "completed", !.retries = 0] IN
            r \in RowRecords /\ r.state = "completed" /\ r.retries = 0
<1>0. row \in RowRecords
  BY DEF RowTyped
<1>1. ASSUME NEW state \in RowStates
      PROVE  LET r == [row EXCEPT !.state = state] IN
             r \in RowRecords /\ r.state = state /\ r.retries = row.retries
  BY <1>0 DEF RowRecords
<1>2. LET r == [row EXCEPT !.elsewhere = FALSE] IN
      r \in RowRecords /\ r.state = row.state /\ r.retries = row.retries
  BY <1>0 DEF RowRecords
<1>3. ASSUME NEW dir \in Dirs, NEW moved \in BOOLEAN
      PROVE  LET r == [row EXCEPT !.saved = dir, !.elsewhere = moved] IN
             r \in RowRecords /\ r.state = row.state /\ r.retries = row.retries
  BY <1>0 DEF RowRecords
<1>4. LET r == [row EXCEPT !.state = "completed", !.retries = 0] IN
      r \in RowRecords /\ r.state = "completed" /\ r.retries = 0
  <2>1. 0 \in 0 .. MaxRetries /\ "completed" \in RowStates
    BY DEF RowStates
  <2> QED BY <1>0, <2>1 DEF RowRecords
<1> QED BY <1>1, <1>2, <1>3, <1>4

\* A failure counts on from what the attempt began with, which is below the
\* limit, and leaves a row that is gone alone.
LEMMA FailedRow ==
  ASSUME RowTyped, FetchTyped, row.state \in {"completed", "removed"}, Failed
  PROVE  /\ row' \in RowRecords
         /\ row'.state \in {"completed", "error", "removed"}
         /\ row'.state = "completed" => row'.retries < MaxRetries
         /\ row'.state = "removed" <=> row.state = "removed"
<1>1. /\ fetch.retries + 1 \in 0 .. MaxRetries /\ row \in RowRecords
      /\ MaxRetries \in Nat
  BY DEF FetchTyped, RowTyped
<1>2. CASE row.state = "removed"
  BY <1>1, <1>2 DEF Failed
<1>3. CASE row.state = "completed" /\ fetch.retries + 1 >= MaxRetries
  <2>1. row' = [row EXCEPT !.retries = fetch.retries + 1, !.state = "error"]
    BY <1>3 DEF Failed
  <2> QED BY <1>1, <1>3, <2>1 DEF RowRecords, RowStates
<1>4. CASE row.state = "completed" /\ ~(fetch.retries + 1 >= MaxRetries)
  <2>1. row' = [row EXCEPT !.retries = fetch.retries + 1, !.state = row.state]
    BY <1>4 DEF Failed
  <2>2. row' \in RowRecords /\ row'.state = row.state /\ row'.retries = fetch.retries + 1
    BY <1>1, <2>1 DEF RowRecords, RowStates
  <2>3. row'.retries < MaxRetries
    BY <1>1, <1>4, <2>2
  <2> QED BY <1>4, <2>2, <2>3
<1> QED BY <1>2, <1>3, <1>4

LEMMA IdleTyped ==
  ASSUME DownloadTyped', fetch' = Idle
  PROVE  FetchTyped'
BY DEF FetchTyped, Idle, UnderWay

\* The provider's answer to a delete.
LEMMA DeletesTyped ==
  ASSUME DownloadTyped, ProviderDeletes
  PROVE  /\ DownloadTyped'
         /\ download'.post = download.post /\ download'.kind = download.kind
         /\ download'.there => download.there
<1>1. PICK gone \in BOOLEAN : download' = [download EXCEPT !.there = @ /\ ~gone]
  BY DEF ProviderDeletes
<1>2. /\ DOMAIN download' = DOMAIN download
      /\ download'.post = download.post /\ download'.kind = download.kind
      /\ download'.there = (download.there /\ ~gone)
  BY <1>1 DEF DownloadTyped
<1> QED BY <1>1, <1>2 DEF DownloadTyped

\* A step that leaves the removal alone, or ends it with the process.
LEMMA SameRemoval ==
  ASSUME RemovalTyped, removal' = removal \/ removal' = NoRemoval, doomed' \in BOOLEAN
  PROVE  RemovalTyped'
BY DEF RemovalTyped, NoRemoval

\* An attempt that fails leaves a row that can be tried again, or an error.
LEMMA FailureStep ==
  ASSUME FilesInv, Failed, part' \in [Dirs -> SUBSET Names], fetch.pc \in Trying
  PROVE  FilesInv'
<1>0. Typed /\ AttemptsAgree /\ sibling
  BY DEF FilesInv
<1>1. /\ row.state \in {"completed", "removed"}
      /\ RowTyped /\ FetchTyped /\ DownloadTyped /\ RemovalTyped
  BY <1>0 DEF AttemptsAgree, Typed
<1>2. UNCHANGED <<download, target, sibling, removal, doomed>> /\ fetch' = Idle
  BY DEF Failed
<1>3. DownloadTyped' /\ RemovalTyped'
  BY <1>1, <1>2 DEF DownloadTyped, RemovalTyped
<1>4. /\ row' \in RowRecords
      /\ row'.state \in {"completed", "error", "removed"}
      /\ row'.state = "completed" => row'.retries < MaxRetries
      /\ row'.state = "removed" <=> row.state = "removed"
  BY <1>1, FailedRow
<1>5. RowTyped'
  BY <1>4 DEF RowTyped, RowRecords, RowStates
<1>6. Typed'
  BY <1>0, <1>2, <1>3, <1>5, IdleTyped DEF Typed
<1>7. AttemptsAgree'
  BY <1>0, <1>2, <1>4 DEF AttemptsAgree, Idle, Trying
<1> QED BY <1>0, <1>2, <1>6, <1>7 DEF FilesInv

\* The attempt goes on, and the row says what it said.
LEMMA AttemptStep ==
  ASSUME FilesInv, FetchTyped', UNCHANGED <<download, row, target, sibling, removal, doomed>>,
         part' \in [Dirs -> SUBSET Names], fetch'.pc \in Trying,
         row.state \in {"completed", "removed"}
  PROVE  FilesInv'
BY DEF FilesInv, Typed, RowTyped, RowRecords, RowStates, DownloadTyped, RemovalTyped,
       AttemptsAgree, Trying

\* What is set in the attempt's record, field by field.
LEMMA Fields ==
  ASSUME FetchTyped, NEW pc, NEW files, NEW at, NEW refused
  PROVE  /\ LET a == [fetch EXCEPT !.pc = pc] IN
            /\ DOMAIN a = DOMAIN fetch /\ a.pc = pc /\ a.saved = fetch.saved
            /\ a.retries = fetch.retries /\ a.dest = fetch.dest /\ a.list = fetch.list
            /\ a.out = fetch.out /\ a.kept = fetch.kept /\ a.todo = fetch.todo
            /\ a.at = fetch.at /\ a.refused = fetch.refused
         /\ LET a == [fetch EXCEPT !.todo = files] IN
            /\ DOMAIN a = DOMAIN fetch /\ a.pc = fetch.pc /\ a.saved = fetch.saved
            /\ a.retries = fetch.retries /\ a.dest = fetch.dest /\ a.list = fetch.list
            /\ a.out = fetch.out /\ a.kept = fetch.kept /\ a.todo = files
            /\ a.at = fetch.at /\ a.refused = fetch.refused
         /\ LET a == [fetch EXCEPT !.pc = pc, !.at = at, !.refused = refused] IN
            /\ DOMAIN a = DOMAIN fetch /\ a.pc = pc /\ a.saved = fetch.saved
            /\ a.retries = fetch.retries /\ a.dest = fetch.dest /\ a.list = fetch.list
            /\ a.out = fetch.out /\ a.kept = fetch.kept /\ a.todo = fetch.todo
            /\ a.at = at /\ a.refused = refused
         /\ LET a == [fetch EXCEPT !.pc = pc, !.refused = refused] IN
            /\ DOMAIN a = DOMAIN fetch /\ a.pc = pc /\ a.saved = fetch.saved
            /\ a.retries = fetch.retries /\ a.dest = fetch.dest /\ a.list = fetch.list
            /\ a.out = fetch.out /\ a.kept = fetch.kept /\ a.todo = fetch.todo
            /\ a.at = fetch.at /\ a.refused = refused
         /\ LET a == [fetch EXCEPT !.pc = pc, !.at = at, !.todo = files] IN
            /\ DOMAIN a = DOMAIN fetch /\ a.pc = pc /\ a.saved = fetch.saved
            /\ a.retries = fetch.retries /\ a.dest = fetch.dest /\ a.list = fetch.list
            /\ a.out = fetch.out /\ a.kept = fetch.kept /\ a.todo = files
            /\ a.at = at /\ a.refused = fetch.refused
         /\ LET a == [fetch EXCEPT !.refused = refused] IN
            /\ DOMAIN a = DOMAIN fetch /\ a.pc = fetch.pc /\ a.saved = fetch.saved
            /\ a.retries = fetch.retries /\ a.dest = fetch.dest /\ a.list = fetch.list
            /\ a.out = fetch.out /\ a.kept = fetch.kept /\ a.todo = fetch.todo
            /\ a.at = fetch.at /\ a.refused = refused
BY DEF FetchTyped

LEMMA ListsStep ==
  ASSUME FilesInv, Lists
  PROVE  FilesInv'
<1>0. Typed /\ AttemptsAgree /\ FetchTyped /\ DownloadTyped
  BY DEF FilesInv, Typed
<1>1. PICK list \in SUBSET download.post, skip \in BOOLEAN, filter \in Filters :
        LET kept == FilterFiles(list, skip, filter)
            out  == {f \in list : ~Passes(filter, f)} IN
        fetch' = [fetch EXCEPT !.pc = "files", !.dest = Resolve(fetch.saved),
                    !.list = list, !.out = out, !.kept = kept, !.todo = kept]
  BY DEF Lists
<1> DEFINE kept == FilterFiles(list, skip, filter)
           out  == {f \in list : ~Passes(filter, f)}
<1>2. kept \subseteq download.post
  BY DEF FilterFiles, DropSamples
<1>3. Resolve(fetch.saved) \in Dirs
  BY <1>0, PlaceFacts DEF Typed, FetchTyped
<1>4. fetch.pc = "list" /\ fetch.at = {} /\ fetch.refused \in 0 .. Refusals
      /\ row.state \in {"completed", "removed"}
  BY <1>0 DEF Lists, FetchTyped, AttemptsAgree, Trying
<1>5. UNCHANGED <<download, row, target, part, sibling, removal, doomed>>
  BY DEF Lists
<1> HIDE DEF kept, out
<1>6. /\ DOMAIN fetch' = DOMAIN fetch /\ fetch'.pc = "files" /\ fetch'.saved = fetch.saved
      /\ fetch'.retries = fetch.retries /\ fetch'.dest = Resolve(fetch.saved)
      /\ fetch'.list = list /\ fetch'.kept = kept /\ fetch'.todo = kept
      /\ fetch'.at = fetch.at /\ fetch'.refused = fetch.refused
  BY <1>0, <1>1 DEF FetchTyped, kept, out
<1>7. FetchTyped'
  BY <1>0, <1>2, <1>3, <1>4, <1>5, <1>6 DEF FetchTyped
<1> QED BY <1>0, <1>4, <1>5, <1>6, <1>7, AttemptStep DEF Typed, Trying

LEMMA FileSteps ==
  ASSUME FilesInv, NEW f,
         \/ f \in fetch.todo /\ (Skips(f) \/ Opens(f))
         \/ f \in fetch.at /\ (Accepts(f) \/ Copies(f))
         \/ ServerRefuses
  PROVE  FilesInv'
<1>0. Typed /\ AttemptsAgree /\ FetchTyped /\ DownloadTyped /\ part \in [Dirs -> SUBSET Names]
  BY DEF FilesInv, Typed
<1>a. /\ fetch.pc \in Trying => row.state \in {"completed", "removed"}
      /\ UNCHANGED <<download, row, target, sibling, removal, doomed>>
  BY <1>0 DEF AttemptsAgree, Skips, Opens, Accepts, Copies, ServerRefuses, around
<1>1. CASE f \in fetch.todo /\ Skips(f)
  <2>1. part' = part /\ fetch.pc = "files"
    BY <1>1 DEF Skips
  <2>2. FetchTyped' /\ fetch'.pc = "files"
    BY <1>0, <1>a, <1>1, <2>1, Fields DEF Skips, FetchTyped
  <2> QED BY <1>0, <1>a, <2>1, <2>2, AttemptStep DEF Trying
<1>2. CASE f \in fetch.todo /\ Opens(f)
  <2>1. part' = part /\ fetch.pc = "files"
    BY <1>2 DEF Opens
  <2>2. FetchTyped' /\ fetch'.pc = "open"
    BY <1>0, <1>a, <1>2, <2>1, Fields DEF Opens, FetchTyped, UnderWay
  <2> QED BY <1>0, <1>a, <2>1, <2>2, AttemptStep DEF Trying
<1>3. CASE f \in fetch.at /\ Accepts(f)
  <2>1. fetch.pc = "open"
    BY <1>3 DEF Accepts
  <2>2. FetchTyped' /\ fetch'.pc = "copy"
    BY <1>0, <1>a, <1>3, <2>1, Fields DEF Accepts, FetchTyped, UnderWay
  <2>3. f.name \in Names
    BY <1>0, <1>3, NameFacts DEF FetchTyped
  <2>4. part' \in [Dirs -> SUBSET Names]
    BY <1>0, <1>3, <2>3 DEF Accepts
  <2> QED BY <1>0, <1>a, <2>1, <2>2, <2>4, AttemptStep DEF Trying
<1>4. CASE f \in fetch.at /\ Copies(f)
  <2>1. fetch.pc = "copy"
    BY <1>4 DEF Copies
  <2>2. FetchTyped' /\ fetch'.pc = "files"
    BY <1>0, <1>a, <1>4, <2>1, Fields DEF Copies, FetchTyped, UnderWay
  <2>3. part' \in [Dirs -> SUBSET Names]
    BY <1>0, <1>4 DEF Copies, PartGone
  <2> QED BY <1>0, <1>a, <2>1, <2>2, <2>3, AttemptStep DEF Trying
<1>5. CASE ServerRefuses
  <2>1. part' = part /\ fetch.pc = "open" /\ fetch.refused < Refusals
    BY <1>5 DEF ServerRefuses, TriesAgain
  <2>2. fetch.refused + 1 \in 0 .. Refusals
    BY <1>0, <2>1 DEF FetchTyped
  <2>3. fetch' = [fetch EXCEPT !.refused = fetch.refused + 1]
    BY <1>5 DEF ServerRefuses
  <2>4. FetchTyped' /\ fetch'.pc = "open"
    BY <1>0, <1>a, <2>1, <2>2, <2>3, Fields DEF FetchTyped, UnderWay
  <2> QED BY <1>0, <1>a, <2>1, <2>4, AttemptStep DEF Trying
<1> QED BY <1>1, <1>2, <1>3, <1>4, <1>5

LEMMA PersistsPathStep ==
  ASSUME FilesInv, PersistsPath
  PROVE  FilesInv'
<1>0. Typed /\ AttemptsAgree /\ sibling /\ FetchTyped /\ RowTyped /\ DownloadTyped
      /\ RemovalTyped
  BY DEF FilesInv, Typed
<1>1. /\ fetch.pc = "files" /\ row.state \in {"completed", "removed"}
      /\ UNCHANGED <<download, target, part, sibling, removal, doomed>>
  BY <1>0 DEF PersistsPath, AttemptsAgree, Trying, around
<1>2. FetchTyped' /\ fetch'.pc = "mark"
  BY <1>0, <1>1, Fields DEF PersistsPath, FetchTyped, UnderWay
<1>3. /\ row' \in RowRecords /\ row'.state = row.state /\ row'.retries = row.retries
  <2>1. CASE fetch.saved = NoPath
    BY <1>0, <1>1, <2>1, RowWrites DEF PersistsPath, PathUsed, FetchTyped, UnderWay
  <2>2. CASE fetch.saved # NoPath
    BY <1>0, <2>2 DEF PersistsPath, RowTyped
  <2> QED BY <2>1, <2>2
<1>4. DownloadTyped' /\ RemovalTyped'
  BY <1>0, <1>1 DEF DownloadTyped, RemovalTyped
<1>5. Typed'
  BY <1>0, <1>1, <1>2, <1>3, <1>4 DEF Typed, RowTyped, RowRecords, RowStates
<1>6. AttemptsAgree' /\ sibling'
  BY <1>0, <1>1, <1>2, <1>3 DEF AttemptsAgree, Trying
<1> QED BY <1>5, <1>6 DEF FilesInv

LEMMA MarksReadyStep ==
  ASSUME FilesInv, MarksReady
  PROVE  FilesInv'
<1>0. Typed /\ AttemptsAgree /\ sibling /\ RowTyped /\ FetchTyped /\ DownloadTyped
      /\ RemovalTyped
  BY DEF FilesInv, Typed
<1>1. UNCHANGED <<download, target, part, sibling, removal>> /\ fetch.pc = "mark"
      /\ doomed' = (removal.by # "none")
  BY DEF MarksReady
<1>2. row' \in RowRecords /\ row'.state = "ready"
  BY <1>0, RowWrites DEF MarksReady, RowStates
<1>3. fetch' = Idle \/ fetch' = [fetch EXCEPT !.pc = "delete"]
  BY DEF MarksReady
<1>4. DownloadTyped' /\ RemovalTyped'
  BY <1>0, <1>1 DEF DownloadTyped, RemovalTyped
<1>5. FetchTyped' /\ fetch'.pc \in {"off", "delete"}
  <2>1. CASE fetch' = Idle
    BY <1>4, <2>1, IdleTyped DEF Idle
  <2>2. CASE fetch' = [fetch EXCEPT !.pc = "delete"]
    BY <1>0, <1>1, <2>2, Fields DEF FetchTyped, UnderWay
  <2> QED BY <1>3, <2>1, <2>2
<1>6. Typed'
  BY <1>0, <1>1, <1>2, <1>4, <1>5 DEF Typed, RowTyped, RowRecords, RowStates
<1>7. AttemptsAgree' /\ sibling'
  BY <1>0, <1>1, <1>2, <1>5 DEF AttemptsAgree, Trying
<1> QED BY <1>6, <1>7 DEF FilesInv

LEMMA BeginsStep ==
  ASSUME FilesInv, Begins
  PROVE  FilesInv'
<1>0. Typed /\ AttemptsAgree /\ sibling /\ RowTyped /\ DownloadTyped /\ RemovalTyped
  BY DEF FilesInv, Typed
<1>1. UNCHANGED <<download, target, part, sibling, removal, doomed>> /\ row.state = "completed"
  BY DEF Begins, around
<1>2. row' \in RowRecords /\ row'.state = row.state /\ row'.retries = row.retries
  BY <1>0, RowWrites DEF Begins
<1>3. row.saved \in Dirs \cup {NoPath} /\ row.retries \in 0 .. MaxRetries
      /\ row.retries < MaxRetries
  BY <1>0, <1>1 DEF RowTyped, RowRecords, AttemptsAgree
<1>4. DownloadTyped' /\ RemovalTyped'
  BY <1>0, <1>1 DEF DownloadTyped, RemovalTyped
<1>5. FetchTyped' /\ fetch'.pc = "list"
  BY <1>3, <1>4 DEF Begins, FetchTyped, Idle, UnderWay
<1>6. Typed'
  BY <1>0, <1>1, <1>2, <1>4, <1>5 DEF Typed, RowTyped, RowRecords, RowStates
<1>7. AttemptsAgree' /\ sibling'
  BY <1>0, <1>1, <1>2, <1>5 DEF AttemptsAgree, Trying
<1> QED BY <1>6, <1>7 DEF FilesInv

LEMMA FailureSteps ==
  ASSUME FilesInv, NEW f,
         \/ ListFails \/ ListRefused \/ OpenFails \/ FindsNoRow
         \/ f \in fetch.at /\ CopyFails(f)
  PROVE  FilesInv' /\ Failed /\ fetch.pc \in Trying
<1>0. part \in [Dirs -> SUBSET Names]
  BY DEF FilesInv, Typed
<1>1. Failed /\ fetch.pc \in Trying
  BY DEF ListFails, ListRefused, OpenFails, FindsNoRow, CopyFails, Failure, Trying
<1>2. part' \in [Dirs -> SUBSET Names]
  <2>1. CASE ListFails \/ ListRefused \/ OpenFails \/ FindsNoRow
    BY <1>0, <2>1 DEF ListFails, ListRefused, OpenFails, FindsNoRow
  <2>2. CASE f \in fetch.at /\ CopyFails(f)
    BY <1>0, <2>2 DEF CopyFails, PartGone
  <2> QED BY <2>1, <2>2
<1> QED BY <1>1, <1>2, FailureStep

LEMMA FetchSteps ==
  ASSUME FilesInv, FetchStep, ~DeletesProviderCopy
  PROVE  FilesInv'
<1>1. CASE Begins \/ Lists \/ PersistsPath \/ MarksReady
  BY <1>1, BeginsStep, ListsStep, PersistsPathStep, MarksReadyStep
<1>2. CASE ListFails \/ ListRefused \/ OpenFails \/ FindsNoRow
  BY <1>2, FailureSteps
<1>3. ASSUME NEW f \in fetch.todo, Skips(f) \/ Opens(f) PROVE FilesInv'
  BY <1>3, FileSteps
<1>4. ASSUME NEW f \in fetch.at, Accepts(f) \/ Copies(f) PROVE FilesInv'
  BY <1>4, FileSteps
<1>5. ASSUME NEW f \in fetch.at, CopyFails(f) PROVE FilesInv'
  BY <1>5, FailureSteps
<1>6. CASE ServerRefuses
  BY <1>6, FileSteps
<1> QED BY <1>1, <1>2, <1>3, <1>4, <1>5, <1>6 DEF FetchStep

-------------------------------------------------------------------------------
(***************************************************************************)
(* Deletes of the provider's copy, and removals: the directory of others   *)
(* is left alone (removableDestDir).                                       *)
(***************************************************************************)
LEMMA CopyGoesStep ==
  ASSUME FilesInv, DeletesProviderCopy \/ RemovesCopy
  PROVE  FilesInv'
<1>0. Typed /\ AttemptsAgree /\ sibling /\ RowTyped /\ FetchTyped /\ DownloadTyped
      /\ RemovalTyped
  BY DEF FilesInv, Typed
<1>1. UNCHANGED <<row, target, part, sibling, doomed>> /\ (fetch' = Idle \/ fetch' = fetch)
  BY DEF DeletesProviderCopy, RemovesCopy, around
<1>2. DownloadTyped' /\ download'.post = download.post
  BY <1>0, DeletesTyped DEF DeletesProviderCopy, RemovesCopy
<1>3. /\ removal' = removal \/ (removal'.by = removal.by /\ removal.by # "none")
      /\ RemovalTyped'
  <2>1. CASE DeletesProviderCopy
    BY <1>0, <2>1 DEF DeletesProviderCopy, around, RemovalTyped
  <2>2. CASE RemovesCopy
    BY <1>0, <1>1, <2>2 DEF RemovesCopy, Turn, RemovalTyped, AttemptsAgree
  <2> QED BY <2>1, <2>2
<1>4. FetchTyped' /\ fetch'.pc \in {fetch.pc, "off"}
  BY <1>0, <1>1, <1>2 DEF FetchTyped, Idle, UnderWay
<1>5. Typed'
  BY <1>0, <1>1, <1>2, <1>3, <1>4 DEF Typed, RowTyped, RowRecords, RowStates
<1>6. AttemptsAgree' /\ sibling'
  BY <1>0, <1>1, <1>3, <1>4 DEF AttemptsAgree, Trying
<1> QED BY <1>5, <1>6 DEF FilesInv

LEMMA BegunStep ==
  ASSUME FilesInv, DeletesTorrent \/ DeletesNZB \/ CleansUp
  PROVE  /\ FilesInv' /\ doomed' /\ removal'.by # "none" /\ row.state # "removed"
         /\ UNCHANGED <<download, row, got, disk>>
         /\ fetch' = Idle \/ fetch' = fetch
<1>0. Typed /\ AttemptsAgree /\ sibling /\ RowTyped /\ FetchTyped /\ DownloadTyped
      /\ part \in [Dirs -> SUBSET Names]
  BY DEF FilesInv, Typed
<1>1. PICK by \in {"app", "sweep"}, calls \in SUBSET {"provider", "files"} : Begun(by, calls)
  BY DEF DeletesTorrent, DeletesNZB, CleansUp, AppDeletes
<1>2. fetch' = Idle \/ fetch' = fetch
  BY DEF DeletesTorrent, DeletesNZB, CleansUp, AppDeletes
<1>3. part' \in [Dirs -> SUBSET Names]
  BY <1>0 DEF DeletesTorrent, DeletesNZB, CleansUp, AppDeletes
<1>4. /\ UNCHANGED <<download, row, target, got, disk, sibling>>
      /\ removal' = [by |-> by, saved |-> row.saved, left |-> calls]
      /\ row.state # "removed" /\ doomed' = TRUE
  BY <1>1 DEF Begun
<1>5. removal'.by # "none" /\ RemovalTyped'
  BY <1>0, <1>4 DEF RemovalTyped, RowTyped, RowRecords
<1>6. DownloadTyped'
  BY <1>0, <1>4 DEF DownloadTyped
<1>7. FetchTyped' /\ fetch'.pc \in {fetch.pc, "off"}
  BY <1>0, <1>2, <1>4, <1>6 DEF FetchTyped, Idle, UnderWay
<1>8. Typed'
  BY <1>0, <1>3, <1>4, <1>5, <1>6, <1>7 DEF Typed, RowTyped, RowRecords, RowStates
<1>9. AttemptsAgree' /\ sibling'
  BY <1>0, <1>4, <1>7 DEF AttemptsAgree, Trying
<1> QED BY <1>2, <1>4, <1>5, <1>8, <1>9 DEF FilesInv

LEMMA RemovesFilesStep ==
  ASSUME FilesInv, RemovesFiles
  PROVE  FilesInv' /\ removal'.by # "none" /\ removal.by # "none"
<1>0. Typed /\ AttemptsAgree /\ sibling /\ RowTyped /\ FetchTyped /\ DownloadTyped
      /\ RemovalTyped /\ part \in [Dirs -> SUBSET Names]
  BY DEF FilesInv, Typed
<1>1. UNCHANGED <<download, row, target, fetch, got, doomed>>
  BY DEF RemovesFiles
<1>2. sibling' /\ part' \in [Dirs -> SUBSET Names]
  <2> DEFINE dir == Resolve(removal.saved)
  <2>1. CASE Removable(dir)
    <3>1. /\ part' = [part EXCEPT ![dir] = {}]
          /\ sibling' = (sibling /\ dir # Shared)
      BY <2>1 DEF RemovesFiles, RemoveLocalFiles
    <3>2. dir # Shared
      BY <2>1 DEF Removable
    <3> HIDE DEF dir
    <3> QED BY <1>0, <3>1, <3>2
  <2>2. CASE ~Removable(dir)
    <3>1. part' = part /\ sibling' = sibling
      BY <2>2 DEF RemovesFiles, RemoveLocalFiles
    <3> QED BY <1>0, <3>1
  <2> QED BY <2>1, <2>2
<1>3. removal'.by = removal.by /\ RemovalTyped' /\ removal.by # "none"
  BY <1>0, <1>1 DEF RemovesFiles, Turn, RemovalTyped, AttemptsAgree
<1>4. DownloadTyped' /\ FetchTyped'
  BY <1>0, <1>1 DEF DownloadTyped, FetchTyped
<1>5. Typed'
  BY <1>0, <1>1, <1>2, <1>3, <1>4 DEF Typed, RowTyped, RowRecords, RowStates
<1>6. AttemptsAgree'
  BY <1>0, <1>1, <1>3 DEF AttemptsAgree
<1> QED BY <1>2, <1>3, <1>5, <1>6 DEF FilesInv

LEMMA RemovesRowStep ==
  ASSUME FilesInv, RemovesRow
  PROVE  FilesInv' /\ row'.state = "removed"
<1>0. Typed /\ AttemptsAgree /\ sibling /\ FetchTyped /\ DownloadTyped
      /\ part \in [Dirs -> SUBSET Names]
  BY DEF FilesInv, Typed
<1>1. UNCHANGED <<download, target, fetch, part, sibling>> /\ row' = NoRow
      /\ removal' = NoRemoval /\ doomed' = FALSE
  BY DEF RemovesRow
<1>2. row' \in RowRecords /\ row'.state = "removed"
  <2>1. 0 \in 0 .. MaxRetries
    OBVIOUS
  <2> QED BY <1>1, <2>1 DEF NoRow, RowRecords, RowStates
<1>3. DownloadTyped' /\ FetchTyped' /\ RemovalTyped'
  BY <1>0, <1>1 DEF DownloadTyped, FetchTyped, RemovalTyped, NoRemoval
<1>4. Typed'
  BY <1>0, <1>1, <1>2, <1>3 DEF Typed, RowTyped, RowRecords, RowStates
<1>5. AttemptsAgree' /\ sibling'
  BY <1>0, <1>1, <1>2 DEF AttemptsAgree, Trying, NoRemoval
<1> QED BY <1>2, <1>4, <1>5 DEF FilesInv

\* What changes the row, and at most ends the attempt and the removal.
LEMMA RowStep ==
  ASSUME FilesInv, UNCHANGED <<download, part, sibling, doomed>>, target' \in Targets,
         row' \in RowRecords,
         fetch' = fetch \/ fetch' = Idle,
         removal' = removal \/ removal' = NoRemoval,
         \/ row'.state = row.state /\ row'.retries = row.retries
         \/ /\ row.state \in {"queued", "downloading"}
            /\ row'.state \in {"downloading", "completed"} /\ row'.retries = 0
         \/ /\ row.state \in {"error", "ready", "completed"}
            /\ row'.state = "completed" /\ row'.retries = 0
  PROVE  FilesInv'
<1>0. Typed /\ AttemptsAgree /\ sibling /\ FetchTyped /\ DownloadTyped /\ RemovalTyped
  BY DEF FilesInv, Typed
<1>1. DownloadTyped' /\ RemovalTyped'
  BY <1>0 DEF DownloadTyped, RemovalTyped, NoRemoval
<1>2. /\ FetchTyped' /\ fetch'.pc \in {fetch.pc, "off"}
      /\ removal' = removal \/ (removal'.by = "none" /\ removal'.left = {})
  BY <1>0, <1>1 DEF FetchTyped, Idle, NoRemoval, UnderWay
<1>3. Typed'
  BY <1>0, <1>1, <1>2 DEF Typed, RowTyped, RowRecords, RowStates
<1>4. AttemptsAgree'
  <2>1. CASE row'.state = row.state /\ row'.retries = row.retries
    BY <2>1, <1>0, <1>2 DEF AttemptsAgree, Trying
  <2>2. CASE /\ row.state \in {"queued", "downloading"}
             /\ row'.state \in {"downloading", "completed"} /\ row'.retries = 0
    <3>1. fetch.pc = "off"
      BY <1>0, <2>2 DEF AttemptsAgree, Trying, FetchTyped
    <3> QED BY <2>2, <3>1, <1>0, <1>2 DEF AttemptsAgree, Trying
  <2>3. CASE /\ row.state \in {"error", "ready", "completed"}
             /\ row'.state = "completed" /\ row'.retries = 0
    BY <2>3, <1>0, <1>2 DEF AttemptsAgree, Trying
  <2> QED BY <2>1, <2>2, <2>3
<1> QED BY <1>0, <1>3, <1>4 DEF FilesInv

LEMMA FilesSteps == FilesInv /\ [FilesNext]_vars => FilesInv'
<1> SUFFICES ASSUME FilesInv, [FilesNext]_vars PROVE FilesInv'
  OBVIOUS
<1>0. Typed /\ AttemptsAgree /\ RowTyped /\ FetchTyped /\ target \in Targets
      /\ row \in RowRecords
  BY DEF FilesInv, Typed, RowTyped
<1>1. CASE ProviderMoves
  <2>1. /\ row.state \in {"queued", "downloading"} /\ row.retries = 0
        /\ UNCHANGED <<download, target, fetch, part, sibling, removal, doomed>>
    BY <1>0, <1>1 DEF ProviderMoves, AttemptsAgree, around
  <2>2. row' \in RowRecords /\ row'.state \in {"downloading", "completed"}
        /\ row'.retries = row.retries
    BY <1>0, <1>1, RowWrites DEF ProviderMoves, RowStates
  <2> QED BY <1>0, <2>1, <2>2, RowStep
<1>2. CASE FetchStep
  BY <1>2, FetchSteps, CopyGoesStep
<1>3. CASE Crashes
  BY <1>0, <1>3, RowStep DEF Crashes
<1>4. CASE Retries
  <2>1. /\ row.state \in {"error", "ready", "completed"}
        /\ UNCHANGED <<download, target, fetch, part, sibling, removal, doomed>>
        /\ row' = [row EXCEPT !.state = "completed", !.retries = 0]
    BY <1>4 DEF Retries
  <2>2. row' \in RowRecords /\ row'.state = "completed" /\ row'.retries = 0
    BY <1>0, <2>1, RowWrites
  <2> QED BY <1>0, <2>1, <2>2, RowStep
<1>5. CASE CleansUp \/ DeletesTorrent \/ DeletesNZB
  BY <1>5, BegunStep
<1>6. CASE RemovesCopy \/ RemovesFiles \/ RemovesRow
  BY <1>6, CopyGoesStep, RemovesFilesStep, RemovesRowStep
<1>7. ASSUME NEW dir \in Targets, TargetMoves(dir) PROVE FilesInv'
  BY <1>0, <1>7, RowStep DEF TargetMoves
<1>8. ASSUME NEW dir \in GivenPaths, Claims(dir) PROVE FilesInv'
  <2> DEFINE moved == (row.state = "ready" \/ fetch.pc # "off")
  <2>1. dir \in Dirs /\ moved \in BOOLEAN
    BY DEF Dirs
  <2>2. row' = [row EXCEPT !.saved = dir, !.elsewhere = moved]
        /\ UNCHANGED <<download, target, fetch, part, sibling, removal, doomed>>
    BY <1>8 DEF Claims
  <2> HIDE DEF moved
  <2>3. row' \in RowRecords /\ row'.state = row.state /\ row'.retries = row.retries
    BY <1>0, <2>1, <2>2, RowWrites
  <2> QED BY <1>0, <2>2, <2>3, RowStep
<1>9. CASE Settles
  BY <1>0, <1>9, RowStep DEF Settles
<1>10. CASE UNCHANGED vars
  BY <1>0, <1>10, RowStep DEF vars, around
<1> QED BY <1>1, <1>2, <1>3, <1>4, <1>5, <1>6, <1>7, <1>8, <1>9, <1>10 DEF FilesNext


-------------------------------------------------------------------------------
(***************************************************************************)
(* What is on disk.  While an attempt is under way and nobody removes the  *)
(* row, what the attempt is done with is in the directory it settled on,   *)
(* and the row either follows that directory or has been given another by  *)
(* an *arr add since the attempt began.  What was chosen from the list     *)
(* keeps its content.  What the last attempt to come through kept stays    *)
(* where it was put, until a removal begins.                               *)
(***************************************************************************)
Placed == disk \in [Dirs -> [Names -> Int]]

Quiet == removal.by = "none" /\ row.state # "removed"

Written ==
    /\ fetch.pc \in UnderWay /\ Quiet => \A f \in fetch.kept \ fetch.todo : InPlace(fetch.dest, f)
    /\ fetch.pc = "copy" /\ Quiet => \A f \in fetch.at : f.name \in part[fetch.dest]
    /\ fetch.pc \in {"open", "copy"} => \A f, g \in fetch.at : f = g
    /\ fetch.pc \in {"mark", "delete"} => fetch.todo = {}

PathsAgree ==
    /\ fetch.pc \in {"list", "files", "open", "copy"} /\ row.state # "removed" =>
         row.elsewhere \/ row.saved = fetch.saved
    /\ fetch.pc \in {"files", "open", "copy"} /\ fetch.saved # NoPath => fetch.dest = fetch.saved
    /\ fetch.pc = "mark" /\ row.state # "removed" => row.elsewhere \/ row.saved = fetch.dest

Chosen(kind, list, out, kept) ==
    /\ \A f \in Videos(list) : (\A g \in Videos(list) : g.size <= f.size) => f \in kept \cup out
    /\ kind = "usenet" /\ Archives(list) # {} => Content(list) # {}

ChosenWell ==
    fetch.pc \in UnderWay => Chosen(download.kind, fetch.list, fetch.out, fetch.kept)

Kept ==
    got.dest # NoPath =>
      /\ got.dest \in Dirs /\ got.kept \subseteq download.post
      /\ doomed \/ \A f \in got.kept : InPlace(got.dest, f)

Delivered ==
    row.state = "ready" => got.dest # NoPath /\ (row.elsewhere \/ row.saved = got.dest)

Owed ==
    /\ ~download.there => row.state = "removed" \/ doomed \/ got.dest # NoPath
    /\ fetch.pc = "delete" => row.state = "removed" \/ got.dest # NoPath

AttemptInv == Written /\ PathsAgree /\ ChosenWell
ToldInv    == Placed /\ AttemptInv /\ Kept /\ Delivered /\ Owed

LEMMA PostFacts ==
  ASSUME DownloadTyped, NEW f \in download.post
  PROVE  /\ f.kind \in Kinds /\ f.size \in Nat /\ f.bytes \in Nat
         /\ \A g \in download.post : f.name = g.name => f = g
<1>1. PICK d \in Downloads : download.post = d.post
  BY DEF DownloadTyped
<1> QED BY <1>1

LEMMA ToldStarts == FilesInit => ToldInv
<1> SUFFICES ASSUME FilesInit PROVE ToldInv
  OBVIOUS
<1>1. /\ fetch.pc = "off" /\ row.state = "queued" /\ got.dest = NoPath
      /\ download.there
  BY DEF FilesInit, Idle, NothingGot
<1>2. Placed
  BY DEF FilesInit, Placed
<1> QED BY <1>1, <1>2 DEF ToldInv, AttemptInv, Written, PathsAgree, ChosenWell, Kept, Delivered,
                         Owed, UnderWay

(***************************************************************************)
(* What is chosen: the filters keep the largest video but for what someone *)
(* configured, and packedOnly was asked first.                             *)
(***************************************************************************)
LEMMA ChoosesWell ==
  ASSUME DownloadTyped, NEW list, list \subseteq download.post, ~Refuses(list),
         NEW skip \in BOOLEAN, NEW filter
  PROVE  Chosen(download.kind, list, {f \in list : ~Passes(filter, f)},
                FilterFiles(list, skip, filter))
<1> DEFINE kept == FilterFiles(list, skip, filter)
           out  == {f \in list : ~Passes(filter, f)}
<1>1. ASSUME NEW f \in Videos(list), \A g \in Videos(list) : g.size <= f.size
      PROVE  f \in kept \cup out
  <2>1. f \in list /\ f.size \in Nat
    BY PostFacts DEF Videos
  <2>2. ASSUME NEW g \in list, g.kind = "video" PROVE ~(g.size > f.size)
    <3>1. g \in Videos(list)
      BY <2>2 DEF Videos
    <3>2. g.size <= f.size /\ g.size \in Nat
      BY <1>1, <3>1, PostFacts
    <3> QED BY <2>1, <3>2
  <2>3. f \in DropSamples(list)
    BY <2>1, <2>2 DEF DropSamples
  <2>4. CASE Passes(filter, f)
    BY <2>1, <2>3, <2>4 DEF FilterFiles
  <2>5. CASE ~Passes(filter, f)
    BY <2>1, <2>5
  <2> QED BY <2>4, <2>5
<1>2. ASSUME download.kind = "usenet", Archives(list) # {}
      PROVE  Content(list) # {}
  <2>1. ~PackedOnly(list)
    BY <1>2 DEF Refuses
  <2>2. CASE \E f \in list : f.kind \notin {"archive", "support", "sample"}
    <3>1. PICK f \in list : f.kind \notin {"archive", "support", "sample"}
      BY <2>2
    <3>2. f.kind \in {"video", "other"}
      BY <3>1, PostFacts DEF Kinds
    <3> QED BY <3>2 DEF Content
  <2>3. CASE \E f \in list : f.kind = "sample" /\ Outweighs(f, list)
    BY <2>3 DEF Content
  <2> QED BY <1>2, <2>1, <2>2, <2>3 DEF PackedOnly
<1> QED BY <1>1, <1>2 DEF Chosen

(***************************************************************************)
(* What a step may leave as it was.                                        *)
(***************************************************************************)
\* No attempt is under way after the step.
LEMMA AttemptOver ==
  ASSUME fetch'.pc = "off"
  PROVE  AttemptInv'
BY DEF AttemptInv, Written, PathsAgree, ChosenWell, UnderWay

\* The attempt does not move, and the row keeps its path or says that it has
\* another.
LEMMA AttemptWaits ==
  ASSUME AttemptInv, fetch' = fetch, download'.kind = download.kind,
         Quiet' => Quiet /\ UNCHANGED <<disk, part>>,
         row'.state # "removed" =>
           /\ row.state # "removed"
           /\ \/ fetch.pc = "off" \/ row'.elsewhere
              \/ row'.saved = row.saved /\ row'.elsewhere = row.elsewhere
  PROVE  AttemptInv'
<1>1. Written'
  BY DEF AttemptInv, Written, InPlace
<1>2. PathsAgree'
  BY DEF AttemptInv, PathsAgree
<1>3. ChosenWell'
  BY DEF AttemptInv, ChosenWell
<1> QED BY <1>1, <1>2, <1>3 DEF AttemptInv

\* What was brought is where it was, unless a removal has begun.
LEMMA KeptStays ==
  ASSUME Kept, got' = got, download'.post = download.post, doomed => doomed',
         doomed' \/ disk' = disk
  PROVE  Kept'
BY DEF Kept, InPlace

\* No row becomes ready, and a copy goes by a removal or after the fetch.
LEMMA RecordStays ==
  ASSUME Delivered, Owed, got' = got, doomed => doomed',
         row.state = "removed" => row'.state = "removed",
         row'.state = "ready" =>
           /\ row.state = "ready"
           /\ row'.elsewhere \/ (row'.saved = row.saved /\ row'.elsewhere = row.elsewhere),
         fetch'.pc = "delete" => fetch.pc = "delete",
         ~download'.there => ~download.there \/ doomed \/ fetch.pc = "delete"
  PROVE  Delivered' /\ Owed'
BY DEF Delivered, Owed

(***************************************************************************)
(* The steps of an attempt.                                                *)
(***************************************************************************)
LEMMA ToldFails ==
  ASSUME FilesInv, ToldInv, Failed, fetch.pc \in Trying
  PROVE  ToldInv'
<1>0. RowTyped /\ FetchTyped /\ row.state \in {"completed", "removed"}
  BY DEF FilesInv, Typed, AttemptsAgree
<1>1. row'.state # "ready" /\ (row.state = "removed" => row'.state = "removed")
  BY <1>0, FailedRow
<1>2. UNCHANGED <<download, got, disk, doomed>> /\ fetch'.pc = "off"
  BY DEF Failed, Idle
<1>3. Placed' /\ Kept'
  BY <1>2, KeptStays DEF ToldInv, Placed
<1>4. Delivered' /\ Owed'
  BY <1>1, <1>2, RecordStays DEF ToldInv
<1> QED BY <1>2, <1>3, <1>4, AttemptOver DEF ToldInv

LEMMA ToldBegins ==
  ASSUME FilesInv, ToldInv, Begins
  PROVE  ToldInv'
<1>0. RowTyped /\ row.state = "completed" /\ UNCHANGED <<download, got, disk, doomed>>
  BY DEF FilesInv, Typed, Begins, around
<1>1. fetch'.pc = "list" /\ fetch'.saved = row.saved
  BY DEF Begins, Idle
<1>2. row'.state = "completed" /\ row'.saved = row.saved
  BY <1>0 DEF Begins, RowTyped, RowRecords
<1>3. Placed' /\ Kept' /\ Delivered' /\ Owed'
  BY <1>0, <1>1, <1>2, KeptStays, RecordStays DEF ToldInv, Placed
<1>4. AttemptInv'
  BY <1>1, <1>2 DEF AttemptInv, Written, PathsAgree, ChosenWell, UnderWay
<1> QED BY <1>3, <1>4 DEF ToldInv

LEMMA ToldLists ==
  ASSUME FilesInv, ToldInv, Lists
  PROVE  ToldInv'
<1>0. /\ FetchTyped /\ DownloadTyped /\ fetch.pc = "list"
      /\ row.state \in {"completed", "removed"}
  BY DEF FilesInv, Typed, Lists, AttemptsAgree, Trying
<1>1. PICK list \in SUBSET download.post, skip \in BOOLEAN, filter \in Filters :
        /\ ~Refuses(list)
        /\ fetch' = [fetch EXCEPT !.pc = "files", !.dest = Resolve(fetch.saved),
                       !.list = list, !.out = {f \in list : ~Passes(filter, f)},
                       !.kept = FilterFiles(list, skip, filter),
                       !.todo = FilterFiles(list, skip, filter)]
  BY DEF Lists
<1> DEFINE kept == FilterFiles(list, skip, filter)
           out  == {f \in list : ~Passes(filter, f)}
<1>2. Chosen(download.kind, list, out, kept)
  BY <1>0, <1>1, ChoosesWell
<1> HIDE DEF kept, out
<1>3. /\ fetch'.pc = "files" /\ fetch'.saved = fetch.saved
      /\ fetch'.dest = Resolve(fetch.saved) /\ fetch'.list = list /\ fetch'.out = out
      /\ fetch'.kept = kept /\ fetch'.todo = kept
  BY <1>0, <1>1 DEF FetchTyped, kept, out
<1>4. UNCHANGED <<download, row, got, disk, doomed>>
  BY DEF Lists
<1>5. ChosenWell'
  BY <1>2, <1>3, <1>4 DEF ChosenWell
<1>6. Written'
  BY <1>3 DEF Written
<1>7. PathsAgree'
  BY <1>0, <1>3, <1>4 DEF PathsAgree, ToldInv, AttemptInv, Resolve
<1>8. Placed' /\ Kept' /\ Delivered' /\ Owed'
  BY <1>0, <1>3, <1>4, KeptStays, RecordStays DEF ToldInv, Placed
<1> QED BY <1>5, <1>6, <1>7, <1>8 DEF ToldInv, AttemptInv

\* A step between two of the attempt's places, with one file less to do or as
\* many as before.
LEMMA ToldGoesOn ==
  ASSUME FilesInv, ToldInv, UNCHANGED <<download, row, got, removal, doomed>>, Placed', Kept',
         fetch.pc \in {"files", "open", "copy"}, fetch'.pc \in {"files", "open", "copy"},
         /\ fetch'.saved = fetch.saved /\ fetch'.dest = fetch.dest /\ fetch'.list = fetch.list
         /\ fetch'.out = fetch.out /\ fetch'.kept = fetch.kept,
         Quiet => \A f \in fetch.kept \ fetch'.todo : InPlace(fetch.dest, f)',
         fetch'.pc \in {"open", "copy"} => \A f, g \in fetch'.at : f = g,
         Quiet /\ fetch'.pc = "copy" => \A f \in fetch'.at : f.name \in part'[fetch.dest]
  PROVE  ToldInv'
<1>1. Quiet' = Quiet
  BY DEF Quiet
<1>2. Written'
  BY <1>1 DEF Written
<1>3. PathsAgree'
  BY DEF ToldInv, AttemptInv, PathsAgree
<1>4. ChosenWell'
  BY DEF ToldInv, AttemptInv, ChosenWell, UnderWay
<1>5. Delivered' /\ Owed'
  BY RecordStays DEF ToldInv
<1> QED BY <1>2, <1>3, <1>4, <1>5 DEF ToldInv, AttemptInv

LEMMA ToldSkips ==
  ASSUME FilesInv, ToldInv, NEW f \in fetch.todo, Skips(f)
  PROVE  ToldInv'
<1>0. FetchTyped /\ fetch.pc = "files"
  BY DEF FilesInv, Typed, Skips
<1>1. UNCHANGED <<download, row, got, disk, part, removal, doomed>>
      /\ fetch' = [fetch EXCEPT !.todo = @ \ {f}]
  BY DEF Skips, around
<1>2. /\ fetch'.pc = "files" /\ fetch'.todo = fetch.todo \ {f}
      /\ fetch'.saved = fetch.saved /\ fetch'.dest = fetch.dest /\ fetch'.list = fetch.list
      /\ fetch'.out = fetch.out /\ fetch'.kept = fetch.kept
  BY <1>0, <1>1 DEF FetchTyped
<1>3. ASSUME Quiet, NEW g \in fetch.kept \ fetch'.todo PROVE InPlace(fetch.dest, g)'
  <2>1. CASE g = f
    <3>1. disk[fetch.dest][g.name] = g.size
      BY <2>1 DEF Skips
    <3> QED BY <1>1, <1>2, <3>1 DEF InPlace
  <2>2. CASE g # f
    <3>1. InPlace(fetch.dest, g)
      BY <1>0, <1>2, <1>3, <2>2 DEF ToldInv, AttemptInv, Written, UnderWay
    <3> QED BY <1>1, <1>2, <3>1 DEF InPlace
  <2> QED BY <2>1, <2>2
<1>4. Placed' /\ Kept'
  BY <1>1, KeptStays DEF ToldInv, Placed
<1> QED BY <1>0, <1>1, <1>2, <1>3, <1>4, ToldGoesOn

LEMMA ToldOpens ==
  ASSUME FilesInv, ToldInv, NEW f,
         \/ f \in fetch.todo /\ Opens(f)
         \/ f \in fetch.at /\ Accepts(f)
         \/ ServerRefuses
  PROVE  ToldInv'
<1>0. FetchTyped /\ part \in [Dirs -> SUBSET Names] /\ fetch.pc \in {"files", "open"}
  BY DEF FilesInv, Typed, Opens, Accepts, ServerRefuses
<1>1. UNCHANGED <<download, row, got, disk, removal, doomed>>
  BY DEF Opens, Accepts, ServerRefuses, around
<1>2. /\ fetch'.pc \in {"open", "copy"} /\ fetch'.todo = fetch.todo
      /\ fetch'.saved = fetch.saved /\ fetch'.dest = fetch.dest /\ fetch'.list = fetch.list
      /\ fetch'.out = fetch.out /\ fetch'.kept = fetch.kept
  BY <1>0 DEF FetchTyped, Opens, Accepts, ServerRefuses
<1>3. ASSUME Quiet, NEW g \in fetch.kept \ fetch'.todo PROVE InPlace(fetch.dest, g)'
  <2>1. InPlace(fetch.dest, g)
    BY <1>0, <1>2, <1>3 DEF ToldInv, AttemptInv, Written, UnderWay
  <2> QED BY <1>1, <1>2, <2>1 DEF InPlace
<1>4. fetch'.pc = "copy" => \A g \in fetch'.at : g.name \in part'[fetch.dest]
  <2> SUFFICES ASSUME fetch'.pc = "copy", NEW g \in fetch'.at PROVE g.name \in part'[fetch.dest]
    OBVIOUS
  <2>1. fetch.pc = "open" /\ f \in fetch.at /\ Accepts(f)
    BY <1>0 DEF Opens, Accepts, ServerRefuses, FetchTyped
  <2>2. fetch'.at = fetch.at /\ fetch.dest \in Dirs
    BY <1>0, <2>1 DEF Accepts, FetchTyped, UnderWay
  <2>3. fetch.at = {f}
    BY <2>1 DEF ToldInv, AttemptInv, Written
  <2> QED BY <1>0, <2>1, <2>2, <2>3 DEF Accepts
<1>5. Placed' /\ Kept'
  BY <1>1, KeptStays DEF ToldInv, Placed
<1>6. ASSUME fetch'.pc \in {"open", "copy"}, NEW g \in fetch'.at, NEW h \in fetch'.at
      PROVE  g = h
  <2>1. CASE f \in fetch.todo /\ Opens(f)
    BY <1>0, <1>6, <2>1 DEF Opens, FetchTyped
  <2>2. CASE (f \in fetch.at /\ Accepts(f)) \/ ServerRefuses
    <3>1. fetch'.at = fetch.at /\ fetch.pc = "open"
      BY <1>0, <2>2 DEF Accepts, ServerRefuses, FetchTyped
    <3> QED BY <1>6, <3>1 DEF ToldInv, AttemptInv, Written
  <2> QED BY <2>1, <2>2
<1> QED BY <1>0, <1>1, <1>2, <1>3, <1>4, <1>5, <1>6, ToldGoesOn

\* A file that is whole by what was said of it is renamed into its place, and no
\* other file's place is touched.
LEMMA ToldCopies ==
  ASSUME FilesInv, ToldInv, NEW f \in fetch.at, Copies(f)
  PROVE  ToldInv'
<1>0. FetchTyped /\ DownloadTyped /\ fetch.pc = "copy" /\ fetch.dest \in Dirs
  BY DEF FilesInv, Typed, Copies, FetchTyped, UnderWay
<1>1. PICK n \in 0 .. f.bytes, stated \in BOOLEAN :
        /\ Complete(f, n, stated)
        /\ disk' = [disk EXCEPT ![fetch.dest][f.name] = n]
  BY DEF Copies
<1>2. /\ fetch'.pc = "files" /\ fetch'.todo = fetch.todo \ {f}
      /\ fetch'.saved = fetch.saved /\ fetch'.dest = fetch.dest /\ fetch'.list = fetch.list
      /\ fetch'.out = fetch.out /\ fetch'.kept = fetch.kept
  BY <1>0 DEF FetchTyped, Copies
<1>3. f \in fetch.todo /\ f \in download.post /\ fetch.kept \subseteq download.post
      /\ f.name \in Names
  BY <1>0, NameFacts DEF FetchTyped
<1>4. f.size \in Nat /\ f.bytes \in Nat /\ n \in Nat
  BY <1>0, <1>3, PostFacts
<1>5. disk \in [Dirs -> [Names -> Int]]
  BY DEF ToldInv, Placed
<1>6. /\ Placed'
      /\ disk'[fetch.dest][f.name] = n
      /\ \A g \in Names : g # f.name => disk'[fetch.dest][g] = disk[fetch.dest][g]
      /\ \A dir \in Dirs : dir # fetch.dest => disk'[dir] = disk[dir]
  BY <1>0, <1>1, <1>3, <1>4, <1>5 DEF Placed
<1>7. n \in {f.size, f.bytes} \/ (f.size = 0 /\ n >= 0)
  <2>1. CASE stated
    BY <1>1, <2>1 DEF Complete
  <2>2. CASE ~stated
    BY <1>1, <1>4, <2>2 DEF Complete
  <2> QED BY <2>1, <2>2
<1>8. UNCHANGED <<download, row, got, removal, doomed>>
  BY DEF Copies, around
\* Whatever was whole anywhere is whole still.
<1>9. ASSUME NEW dir \in Dirs, NEW g \in download.post,
             g # f \/ dir # fetch.dest => InPlace(dir, g)
      PROVE  disk'[dir][g.name] \in {g.size, g.bytes} \/ (g.size = 0 /\ disk'[dir][g.name] >= 0)
  <2>1. CASE g = f /\ dir = fetch.dest
    BY <1>6, <1>7, <2>1
  <2>2. CASE g # f /\ dir = fetch.dest
    <3>1. g.name \in Names /\ g.name # f.name
      BY <1>0, <1>3, <2>2, PostFacts, NameFacts
    <3> QED BY <1>6, <1>9, <2>2, <3>1 DEF InPlace
  <2>3. CASE dir # fetch.dest
    BY <1>6, <1>9, <2>3 DEF InPlace
  <2> QED BY <2>1, <2>2, <2>3
<1>10. ASSUME Quiet, NEW g \in fetch.kept \ fetch'.todo PROVE InPlace(fetch.dest, g)'
  <2>1. g # f => InPlace(fetch.dest, g)
    BY <1>0, <1>2, <1>10 DEF ToldInv, AttemptInv, Written, UnderWay
  <2>2. g \in download.post
    BY <1>3
  <2> QED BY <1>0, <1>2, <1>9, <2>1, <2>2 DEF InPlace
<1>11. Kept'
  <2> SUFFICES ASSUME got'.dest # NoPath
               PROVE  /\ got'.dest \in Dirs /\ got'.kept \subseteq download'.post
                      /\ doomed' \/ \A g \in got'.kept : InPlace(got.dest, g)'
    BY DEF Kept
  <2>1. got.dest \in Dirs /\ got.kept \subseteq download.post
        /\ (doomed \/ \A g \in got.kept : InPlace(got.dest, g))
    BY <1>8 DEF ToldInv, Kept
  <2>2. ASSUME ~doomed, NEW g \in got.kept PROVE InPlace(got.dest, g)'
    <3>1. g \in download.post /\ InPlace(got.dest, g)
      BY <2>1, <2>2
    <3> QED BY <1>8, <1>9, <2>1, <3>1 DEF InPlace
  <2> QED BY <1>8, <2>1, <2>2
<1> QED BY <1>0, <1>2, <1>6, <1>8, <1>10, <1>11, ToldGoesOn

LEMMA ToldPersists ==
  ASSUME FilesInv, ToldInv, PersistsPath
  PROVE  ToldInv'
<1>0. /\ FetchTyped /\ RowTyped /\ row.state \in {"completed", "removed"}
      /\ fetch.pc = "files" /\ fetch.todo = {} /\ fetch.dest \in Dirs
  BY DEF FilesInv, Typed, AttemptsAgree, PersistsPath, FetchTyped, UnderWay, Trying
<1>1. UNCHANGED <<download, got, disk, part, removal, doomed>>
  BY DEF PersistsPath, around
<1>2. /\ fetch'.pc = "mark" /\ fetch'.todo = {} /\ fetch'.saved = fetch.saved
      /\ fetch'.dest = fetch.dest /\ fetch'.list = fetch.list
      /\ fetch'.out = fetch.out /\ fetch'.kept = fetch.kept
  BY <1>0 DEF FetchTyped, PersistsPath
<1>3. /\ row'.state = row.state
      /\ row.state # "removed" => row'.elsewhere \/ row'.saved = fetch.dest
  <2>1. CASE fetch.saved = NoPath
    BY <1>0, <2>1 DEF PersistsPath, PathUsed, RowTyped, RowRecords
  <2>2. CASE fetch.saved # NoPath
    BY <1>0, <2>2 DEF PersistsPath, ToldInv, AttemptInv, PathsAgree
  <2> QED BY <2>1, <2>2
<1>4. Written'
  BY <1>0, <1>1, <1>2, <1>3 DEF ToldInv, AttemptInv, Written, UnderWay, InPlace, Quiet
<1>5. PathsAgree'
  BY <1>2, <1>3 DEF PathsAgree
<1>6. ChosenWell'
  BY <1>0, <1>1, <1>2 DEF ToldInv, AttemptInv, ChosenWell, UnderWay
<1>7. Placed' /\ Kept'
  BY <1>1, KeptStays DEF ToldInv, Placed
<1>8. Delivered' /\ Owed'
  BY <1>0, <1>1, <1>2, <1>3, RecordStays DEF ToldInv
<1> QED BY <1>4, <1>5, <1>6, <1>7, <1>8 DEF ToldInv, AttemptInv

\* The row becomes ready over what the attempt has put in place.
LEMMA ToldMarks ==
  ASSUME FilesInv, ToldInv, MarksReady
  PROVE  ToldInv'
<1>0. /\ FetchTyped /\ RowTyped /\ fetch.pc = "mark" /\ fetch.dest \in Dirs
      /\ row.state # "removed" /\ UNCHANGED <<download, disk, part, removal>>
      /\ doomed' = (removal.by # "none")
  BY DEF FilesInv, Typed, MarksReady, FetchTyped, UnderWay
<1>1. row'.state = "ready" /\ row'.saved = row.saved /\ row'.elsewhere = row.elsewhere
  BY <1>0 DEF MarksReady, RowTyped, RowRecords
<1>2. got'.kept = fetch.kept /\ got'.dest = fetch.dest /\ fetch.dest # NoPath
  BY <1>0 DEF MarksReady
<1>3. /\ Quiet => \A f \in fetch.kept : InPlace(fetch.dest, f)
      /\ fetch.todo = {}
  BY <1>0 DEF ToldInv, AttemptInv, Written, UnderWay
<1>4. AttemptInv'
  <2>1. CASE fetch' = Idle
    BY <2>1, AttemptOver DEF Idle
  <2>2. CASE fetch' = [fetch EXCEPT !.pc = "delete"]
    <3>1. /\ fetch'.pc = "delete" /\ fetch'.todo = {} /\ fetch'.dest = fetch.dest
          /\ fetch'.kept = fetch.kept /\ fetch'.list = fetch.list /\ fetch'.out = fetch.out
      BY <1>0, <1>3, <2>2 DEF FetchTyped
    <3>2. Quiet' => Quiet
      BY <1>0 DEF Quiet
    <3>3. Written'
      BY <1>0, <1>3, <3>1, <3>2 DEF Written, InPlace
    <3>4. ChosenWell'
      BY <1>0, <3>1 DEF ToldInv, AttemptInv, ChosenWell, UnderWay
    <3> QED BY <3>1, <3>3, <3>4 DEF AttemptInv, PathsAgree
  <2> QED BY <2>1, <2>2 DEF MarksReady
<1>5. Kept'
  <2>1. doomed' \/ Quiet
    BY <1>0 DEF Quiet
  <2>2. got'.kept \subseteq download'.post
    BY <1>0, <1>2 DEF FetchTyped
  <2> QED BY <1>0, <1>2, <1>3, <2>1, <2>2 DEF Kept, InPlace
<1>6. Delivered' /\ Owed'
  BY <1>0, <1>1, <1>2 DEF ToldInv, AttemptInv, PathsAgree, Delivered, Owed
<1>7. Placed'
  BY <1>0 DEF ToldInv, Placed
<1> QED BY <1>4, <1>5, <1>6, <1>7 DEF ToldInv

\* The provider's copy goes, after a fetch or by a removal.
LEMMA ToldCopyGoes ==
  ASSUME FilesInv, ToldInv, DeletesProviderCopy \/ RemovesCopy
  PROVE  ToldInv'
<1>0. DownloadTyped /\ AttemptsAgree
  BY DEF FilesInv, Typed
<1>1. /\ UNCHANGED <<row, got, disk, part, doomed>>
      /\ download'.post = download.post /\ download'.kind = download.kind
      /\ download'.there => download.there
  BY <1>0, DeletesTyped DEF DeletesProviderCopy, RemovesCopy, around
<1>2. AttemptInv' /\ (fetch'.pc = "delete" => fetch.pc = "delete")
  <2>1. CASE DeletesProviderCopy
    <3>1. fetch'.pc = "off"
      BY <2>1 DEF DeletesProviderCopy, Idle
    <3> QED BY <3>1, AttemptOver
  <2>2. CASE RemovesCopy
    <3>1. fetch' = fetch /\ (Quiet' => Quiet)
      BY <1>0, <1>1, <2>2 DEF RemovesCopy, Turn, Quiet, RemovalTyped, FilesInv, Typed
    <3> QED BY <1>1, <3>1, AttemptWaits DEF ToldInv
  <2> QED BY <2>1, <2>2
<1>3. ~download'.there => ~download.there \/ doomed \/ fetch.pc = "delete"
  BY <1>0 DEF DeletesProviderCopy, RemovesCopy, Turn, AttemptsAgree
<1>4. Placed' /\ Kept' /\ Delivered' /\ Owed'
  BY <1>1, <1>2, <1>3, KeptStays, RecordStays DEF ToldInv, Placed
<1> QED BY <1>2, <1>4 DEF ToldInv

LEMMA ToldFetchSteps ==
  ASSUME FilesInv, ToldInv, FetchStep
  PROVE  ToldInv'
<1>1. CASE Begins \/ Lists \/ PersistsPath \/ MarksReady \/ DeletesProviderCopy
  BY <1>1, ToldBegins, ToldLists, ToldPersists, ToldMarks, ToldCopyGoes
<1>2. CASE ListFails \/ ListRefused \/ OpenFails \/ FindsNoRow
  BY <1>2, FailureSteps, ToldFails
<1>3. ASSUME NEW f \in fetch.todo, Skips(f) \/ Opens(f) PROVE ToldInv'
  BY <1>3, ToldSkips, ToldOpens
<1>4. ASSUME NEW f \in fetch.at, Accepts(f) \/ Copies(f) \/ CopyFails(f) PROVE ToldInv'
  <2>1. CASE Accepts(f)
    BY <2>1, ToldOpens
  <2>2. CASE Copies(f)
    BY <2>2, ToldCopies
  <2>3. CASE CopyFails(f)
    BY <2>3, FailureSteps, ToldFails
  <2> QED BY <1>4, <2>1, <2>2, <2>3
<1>5. CASE ServerRefuses
  BY <1>5, ToldOpens
<1> QED BY <1>1, <1>2, <1>3, <1>4, <1>5 DEF FetchStep

(***************************************************************************)
(* What happens around it.                                                 *)
(***************************************************************************)
\* A removal begins: from here on nothing is promised of what was brought.
LEMMA ToldBegun ==
  ASSUME FilesInv, ToldInv, DeletesTorrent \/ DeletesNZB \/ CleansUp
  PROVE  ToldInv'
<1>1. /\ doomed' /\ removal'.by # "none" /\ UNCHANGED <<download, row, got, disk>>
      /\ fetch' = Idle \/ fetch' = fetch
  BY BegunStep
<1>2. AttemptInv' /\ (fetch'.pc = "delete" => fetch.pc = "delete")
  <2>1. CASE fetch' = Idle
    BY <2>1, AttemptOver DEF Idle
  <2>2. CASE fetch' = fetch
    <3>1. ~Quiet'
      BY <1>1 DEF Quiet
    <3> QED BY <1>1, <2>2, <3>1, AttemptWaits DEF ToldInv
  <2> QED BY <1>1, <2>1, <2>2
<1>3. Placed' /\ Kept' /\ Delivered' /\ Owed'
  BY <1>1, <1>2, KeptStays, RecordStays DEF ToldInv, Placed
<1> QED BY <1>2, <1>3 DEF ToldInv

LEMMA ToldRemovesFiles ==
  ASSUME FilesInv, ToldInv, RemovesFiles
  PROVE  ToldInv'
<1>0. AttemptsAgree /\ UNCHANGED <<download, row, fetch, got, doomed>>
      /\ removal.by # "none" /\ removal'.by # "none"
  BY RemovesFilesStep DEF RemovesFiles, FilesInv
<1>1. doomed /\ ~Quiet'
  BY <1>0 DEF AttemptsAgree, Quiet
<1>2. Placed'
  <2>0. Placed
    BY DEF ToldInv
  <2> DEFINE dir  == Resolve(removal.saved)
             none == [f \in Names |-> -1]
  <2>1. disk' = disk \/ disk' = [disk EXCEPT ![dir] = none]
    BY DEF RemovesFiles, RemoveLocalFiles
  <2>2. none \in [Names -> Int]
    OBVIOUS
  <2> HIDE DEF dir, none
  <2> QED BY <2>0, <2>1, <2>2 DEF Placed
<1>3. AttemptInv'
  BY <1>0, <1>1, AttemptWaits DEF ToldInv
<1>4. Kept' /\ Delivered' /\ Owed'
  BY <1>0, <1>1, KeptStays, RecordStays DEF ToldInv
<1> QED BY <1>2, <1>3, <1>4 DEF ToldInv

LEMMA ToldRemovesRow ==
  ASSUME FilesInv, ToldInv, RemovesRow
  PROVE  ToldInv'
<1>1. /\ row'.state = "removed" /\ got'.dest = NoPath
      /\ UNCHANGED <<download, fetch, disk, part>>
  BY DEF RemovesRow, NoRow, NothingGot
<1>2. ~Quiet'
  BY <1>1 DEF Quiet
<1>3. AttemptInv'
  BY <1>1, <1>2, AttemptWaits DEF ToldInv
<1>4. Placed' /\ Kept' /\ Delivered' /\ Owed'
  BY <1>1 DEF ToldInv, Placed, Kept, Delivered, Owed
<1> QED BY <1>3, <1>4 DEF ToldInv

\* An *arr add gives a row that is ready, or on its way, another path.
LEMMA ToldClaims ==
  ASSUME FilesInv, ToldInv, NEW dir \in GivenPaths, Claims(dir)
  PROVE  ToldInv'
<1>0. /\ RowTyped /\ row.state # "removed"
      /\ UNCHANGED <<download, fetch, got, disk, part, removal, doomed>>
  BY DEF FilesInv, Typed, Claims
<1> DEFINE moved == (row.state = "ready" \/ fetch.pc # "off")
<1>1. row' = [row EXCEPT !.saved = dir, !.elsewhere = moved] /\ moved \in BOOLEAN
  BY DEF Claims
<1> HIDE DEF moved
<1>2. row'.state = row.state /\ row'.elsewhere = moved
  BY <1>0, <1>1 DEF RowTyped, RowRecords
<1>3. row.state = "ready" \/ fetch.pc # "off" => row'.elsewhere
  BY <1>2, Zenon DEF moved
<1>4. Quiet' => Quiet
  BY <1>0, <1>2 DEF Quiet
<1>5. AttemptInv'
  BY <1>0, <1>2, <1>3, <1>4, AttemptWaits DEF ToldInv
<1>6. Placed' /\ Kept' /\ Delivered' /\ Owed'
  BY <1>0, <1>2, <1>3, KeptStays, RecordStays DEF ToldInv, Placed
<1> QED BY <1>5, <1>6 DEF ToldInv

\* The row moves to completed, and whatever attempt there is goes on.
LEMMA ToldRowMoves ==
  ASSUME FilesInv, ToldInv, ProviderMoves \/ Retries
  PROVE  ToldInv'
<1>0. RowTyped /\ UNCHANGED <<download, fetch, got, disk, part, removal, doomed>>
  BY DEF FilesInv, Typed, ProviderMoves, Retries, around
<1>1. /\ row.state # "removed" /\ row'.state \in {"downloading", "completed"}
      /\ row'.saved = row.saved /\ row'.elsewhere = row.elsewhere
  BY <1>0 DEF ProviderMoves, Retries, RowTyped, RowRecords
<1>2. Quiet' => Quiet
  BY <1>0, <1>1 DEF Quiet
<1>3. AttemptInv'
  BY <1>0, <1>1, <1>2, AttemptWaits DEF ToldInv
<1>4. Placed' /\ Kept' /\ Delivered' /\ Owed'
  BY <1>0, <1>1, KeptStays, RecordStays DEF ToldInv, Placed
<1> QED BY <1>3, <1>4 DEF ToldInv

LEMMA ToldSteps == FilesInv /\ ToldInv /\ [FilesNext]_vars => ToldInv'
<1> SUFFICES ASSUME FilesInv, ToldInv, [FilesNext]_vars PROVE ToldInv'
  OBVIOUS
<1>1. CASE ProviderMoves \/ Retries
  BY <1>1, ToldRowMoves
<1>2. CASE FetchStep
  BY <1>2, ToldFetchSteps
<1>3. CASE Crashes
  <2>1. fetch'.pc = "off" /\ UNCHANGED <<row, got, disk, download, doomed>>
    BY <1>3 DEF Crashes, Idle
  <2>2. Placed' /\ Kept' /\ Delivered' /\ Owed'
    BY <2>1, KeptStays, RecordStays DEF ToldInv, Placed
  <2> QED BY <2>1, <2>2, AttemptOver DEF ToldInv
<1>4. CASE CleansUp \/ DeletesTorrent \/ DeletesNZB
  BY <1>4, ToldBegun
<1>5. CASE RemovesCopy \/ RemovesFiles \/ RemovesRow
  BY <1>5, ToldCopyGoes, ToldRemovesFiles, ToldRemovesRow
<1>6. ASSUME NEW dir \in GivenPaths, Claims(dir) PROVE ToldInv'
  BY <1>6, ToldClaims
<1>7. CASE UNCHANGED <<download, row, fetch, got, disk, part, removal, doomed>>
  <2>1. Quiet' => Quiet
    BY <1>7 DEF Quiet
  <2>2. AttemptInv'
    BY <1>7, <2>1, AttemptWaits DEF ToldInv
  <2>3. Placed' /\ Kept' /\ Delivered' /\ Owed'
    BY <1>7, KeptStays, RecordStays DEF ToldInv, Placed
  <2> QED BY <2>2, <2>3 DEF ToldInv
<1> QED BY <1>1, <1>2, <1>3, <1>4, <1>5, <1>6, <1>7
        DEF FilesNext, TargetMoves, Settles, vars, around

\* 100% is said only of an attempt that has nothing left but empty files and the
\* one whose bytes are all in its .part.
LEMMA ToldTruly == FilesInv /\ ToldInv => AppsFindWhatTheyAreTold
<1> SUFFICES ASSUME FilesInv, ToldInv PROVE AppsFindWhatTheyAreTold
  OBVIOUS
<1>0. FetchTyped /\ DownloadTyped /\ removal.by \in {"none", "app", "sweep"}
  BY DEF FilesInv, Typed, RemovalTyped
<1>1. ASSUME QbtState = "pausedUP" \/ HistoryStatus = "Completed"
      PROVE  \/ row.elsewhere \/ doomed
             \/ row.saved # NoPath /\ \A f \in got.kept : InPlace(row.saved, f)
  <2>1. row.state = "ready"
    BY <1>1 DEF QbtState, HistoryStatus
  <2> QED BY <2>1 DEF ToldInv, Delivered, Kept
<1>2. ASSUME ToldWhole
      PROVE  FetchProgress = "all" /\ row.state # "removed"
  BY <1>2 DEF ToldWhole, QbtState, QbtProgress, QueueStatus, InQueue, EffectiveProgress,
              Reported
<1>3. ASSUME FetchProgress = "all"
      PROVE  fetch.pc \in UnderWay /\ Sized(Left) = {}
  BY <1>3 DEF FetchProgress, UnderWay
<1>4. ASSUME FetchProgress = "all", row.state # "removed", removal.by = "none",
             \A f \in fetch.kept : f.size = f.bytes, NEW f \in fetch.kept
      PROVE  \/ f.bytes = 0 \/ InPlace(fetch.dest, f)
             \/ f \in fetch.at /\ f.name \in part[fetch.dest]
  <2>1. fetch.pc \in UnderWay /\ Sized(Left) = {} /\ Quiet
    BY <1>3, <1>4 DEF Quiet
  <2>2. CASE f \notin fetch.todo
    BY <1>4, <2>1, <2>2 DEF ToldInv, AttemptInv, Written
  <2>3. CASE f \in Left
    <3>1. ~(f.size > 0) /\ f.size \in Nat /\ f.size = f.bytes
      BY <1>0, <1>4, <2>1, <2>3, PostFacts DEF Sized, FetchTyped
    <3> QED BY <3>1
  <2>4. CASE f \in fetch.todo /\ f \notin Left
    <3>1. fetch.pc = "copy" /\ f \in fetch.at
      BY <2>4 DEF Left
    <3> QED BY <2>1, <3>1 DEF ToldInv, AttemptInv, Written
  <2> QED BY <2>2, <2>3, <2>4
<1>5. ASSUME ToldWhole PROVE fetch.pc # "off"
  BY <1>2, <1>3, <1>5 DEF UnderWay
<1> QED BY <1>1, <1>2, <1>4, <1>5 DEF AppsFindWhatTheyAreTold

LEMMA ContentStays == FilesInv /\ ToldInv => ContentIsKept
BY DEF ToldInv, AttemptInv, ChosenWell, Chosen, ContentIsKept, UnderWay

LEMMA NothingGoes == FilesInv /\ ToldInv => NothingIsLost
BY DEF FilesInv, ToldInv, Owed, Kept, NothingIsLost

-------------------------------------------------------------------------------
\* The row, the attempt, the removal and the provider's copy keep their types, and
\* no server is asked for a file more often than there are delays (openFile,
\* processReserved, handleFailure).
THEOREM FilesTypes == FilesSpec => []FilesTypeOK
<1>1. FilesInv => FilesTypeOK
  BY TypesOK DEF FilesInv
<1> QED BY FilesStarts, FilesSteps, <1>1, PTL DEF FilesSpec

\* No removal takes what another download has in a directory it shares, and the
\* provider's copy goes only by a removal or when all that an attempt kept of it
\* is on local disk, where retries, crashes and other paths leave it
\* (RemoveLocalFiles, deleteProviderCopyAfterFetch, handleRetryDownload).
THEOREM NothingLost == FilesSpec => []NothingIsLost
<1>1. FilesInv /\ ToldInv /\ [FilesNext]_vars => FilesInv' /\ ToldInv'
  BY FilesSteps, ToldSteps
<1> QED BY FilesStarts, ToldStarts, <1>1, NothingGoes, PTL DEF FilesSpec

\* A download that the qBittorrent or the SABnzbd shim reports as done has a path
\* under which every file of it that was wanted is whole, and 100% of one that is
\* being fetched means files in place or about to be renamed there, whatever
\* crashed, ended short, was retried or set anew before, up to the removal that
\* takes it (processReserved, fetchFile, qbtProgress, toQueueSlot).
THEOREM ToldTrue == FilesSpec => []AppsFindWhatTheyAreTold
<1>1. FilesInv /\ ToldInv /\ [FilesNext]_vars => FilesInv' /\ ToldInv'
  BY FilesSteps, ToldSteps
<1> QED BY FilesStarts, ToldStarts, <1>1, ToldTruly, PTL DEF FilesSpec

\* The largest video of a list is fetched unless a configured size or pattern keeps
\* it out, and a usenet post that still is to be unpacked never becomes ready
\* (filterFiles, dropSamples, packedOnly).
THEOREM ContentKept == FilesSpec => []ContentIsKept
<1>1. FilesInv /\ ToldInv /\ [FilesNext]_vars => FilesInv' /\ ToldInv'
  BY FilesSteps, ToldSteps
<1> QED BY FilesStarts, ToldStarts, <1>1, ContentStays, PTL DEF FilesSpec
===============================================================================
