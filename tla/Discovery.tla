------------------------------ MODULE Discovery -------------------------------
(***************************************************************************)
(* How provider items get and lose their rows, for one provider and kind:  *)
(* the discovery half of the importer's tick (refreshKind, discoverManual),*)
(* adds by *arr apps and by users, deletes and re-adds, all at the same    *)
(* time over the downloads, discovery_baseline, deleted_downloads and      *)
(* pending_arr_adds tables.  Each action is one statement or one provider  *)
(* call of its handler.                                                    *)
(*                                                                         *)
(* An item is a provider_download_id, which a provider uses once.  A new   *)
(* add of content it still has may get the old item's id.  What a row says *)
(* of its item's progress is the business of modules Refresh and FetchPool;*)
(* here a row is an item and how it was added.                             *)
(***************************************************************************)
EXTENDS Naturals

CONSTANTS
  Items,          \* provider_download_ids
  ContentOf,      \* item -> what it is, an infohash or a name
  RowIds,         \* ids of rows; an id nothing refers to stands for a new one
  NoRow, NoItem,
  Requests,       \* slots for requests under way
  Ops,            \* what they may ask for
  MaxPending,     \* bound: intents recorded for one content
  MaxRestarts     \* bound: restarts of the process

Contents == {ContentOf[i] : i \in Items}

ASSUME DiscoveryAssumption ==
  /\ Items # {} /\ ContentOf \in [Items -> Contents]
  /\ NoRow \notin RowIds /\ NoItem \notin Items
  /\ Ops \subseteq {"arr", "manual", "delete", "readd"}
  /\ MaxPending \in Nat /\ MaxRestarts \in Nat

VARIABLES
  account,        \* item -> "none" yet, "present", "leaving" (deleted, but
                  \*   still listed) or "gone"
  rows,           \* row id -> item and "arr" (Managed) or "manual"
  seeded, baseline,
  tombstones,     \* items of deleted_downloads, not expired
  lasting,        \* those kept for unconfirmedDeleteGracePeriod
  intents,        \* content -> rows of pending_arr_adds
  requests,       \* slot -> request under way
  pass,           \* the discovery pass under way
  restarts,
  deleted,        \* history: items whose row was deleted, and not added since
  known           \* history: the listing discovery first saw, all Items before

graves == <<tombstones, lasting>>
tables == <<rows, seeded, baseline, graves, intents>>
vars == <<account, tables, requests, pass, restarts, deleted, known>>

Stored == DOMAIN rows
RowAt(i) == {r \in Stored : rows[r].item = i}
Listed == {i \in Items : account[i] \in {"present", "leaving"}}

Row == [item : Items, via : {"arr", "manual"}]

\* item is the item of the row a request is about, or whose content an add asks
\* for; new is what the provider calls the item it made of an add; an idle slot
\* with ok keeps the row its last request has told an *arr app of, or re-added;
\* a delete is "confirmed" or "unconfirmed" once the provider has been asked.
Request == [op : {"arr", "manual", "delete", "readd"},
            pc : {"idle", "asked", "lost", "replied", "store", "check",
                  "update", "confirmed", "unconfirmed", "row"},
            item : Items \cup {NoItem}, new : Items \cup {NoItem},
            row : RowIds \cup {NoRow},
            ok : BOOLEAN]
NoRequest == [op |-> "manual", pc |-> "idle", item |-> NoItem,
              new |-> NoItem, row |-> NoRow, ok |-> FALSE]

\* fresh is freshInstall, todo what is untracked or still to be adopted, via
\* how the item at hand will be added; gone is history, the items that were
\* in deleted when the pass read the rows.
Pass == [pc : {"idle", "list", "rows", "seed", "skip", "adopt", "insert"},
         fresh : BOOLEAN, listing : SUBSET Items, todo : SUBSET Items,
         item : Items \cup {NoItem}, via : {"arr", "manual"}, gone : SUBSET Items]
NoPass == [pc |-> "idle", fresh |-> FALSE, listing |-> {}, todo |-> {},
           item |-> NoItem, via |-> "manual", gone |-> {}]

\* What is under way is about an item, and answers name one.
Filled ==
  /\ pass.pc = "insert" => pass.item \in Items
  /\ \A q \in Requests :
       /\ requests[q].pc # "idle" => requests[q].item \in Items
       /\ requests[q].pc \in {"replied", "store", "check", "update"} =>
            requests[q].new \in Items

DiscoveryTypeOK ==
  /\ account \in [Items -> {"none", "present", "leaving", "gone"}]
  /\ Stored \subseteq RowIds /\ rows \in [Stored -> Row]
  /\ seeded \in BOOLEAN /\ baseline \subseteq Items
  /\ tombstones \subseteq Items /\ lasting \subseteq tombstones
  /\ intents \in [Contents -> 0..MaxPending]
  /\ requests \in [Requests -> Request]
  /\ pass \in Pass
  /\ restarts \in 0..MaxRestarts
  /\ deleted \subseteq Items /\ known \subseteq Items
  /\ Filled

\* An account with some history, and a database that may know nothing of it.
Init ==
  /\ account \in [Items -> {"none", "present"}]
  /\ rows = [r \in {} |-> NoRow]
  /\ seeded = FALSE /\ baseline = {}
  /\ tombstones = {} /\ lasting = {}
  /\ intents = [c \in Contents |-> 0]
  /\ requests = [q \in Requests |-> NoRequest]
  /\ pass = NoPass /\ restarts = 0
  /\ deleted = {} /\ known = Items

-------------------------------------------------------------------------------
(***************************************************************************)
(* Statements.                                                             *)
(***************************************************************************)
UnusedRowIds == RowIds \ (Stored \cup {requests[q].row : q \in Requests})
NewRowId == CHOOSE r \in UnusedRowIds : TRUE

\* InsertDownload, which fails on a second row for (provider, item).
InsertDownload(r, i, via) ==
  rows' = [x \in Stored \cup {r} |-> IF x = r THEN [item |-> i, via |-> via] ELSE rows[x]]

DropRow(r) == rows' = [x \in Stored \ {r} |-> rows[x]]

SeedDiscoveryBaseline(items) == seeded' = TRUE /\ baseline' = baseline \cup items

\* The provider removes an item; listings may go on showing it for a while.
DeletesItem(i) ==
  account' = [account EXCEPT ![i] = IF @ = "present" THEN "leaving" ELSE @]

-------------------------------------------------------------------------------
(***************************************************************************)
(* A discovery pass.                                                       *)
(***************************************************************************)
InPass(from) == pass.pc = from

\* HasAnyDownloads; with no row here there may still be one of another
\* provider or kind.
PassBegins ==
  /\ InPass("idle")
  /\ \E fresh \in (IF Stored = {} THEN BOOLEAN ELSE {FALSE}) :
       pass' = [NoPass EXCEPT !.pc = "list", !.fresh = fresh]
  /\ UNCHANGED <<account, tables, requests, restarts, deleted, known>>

\* listWithCache.
PassLists ==
  /\ InPass("list")
  /\ pass' = [pass EXCEPT !.pc = "rows", !.listing = Listed]
  /\ UNCHANGED <<account, tables, requests, restarts, deleted, known>>

PassListFails ==
  /\ InPass("list")
  /\ pass' = NoPass
  /\ UNCHANGED <<account, tables, requests, restarts, deleted, known>>

\* ListDownloadsByProvider, only after the listing has arrived.
PassReadsRows ==
  /\ InPass("rows")
  /\ pass' = [pass EXCEPT !.pc = "seed", !.gone = deleted,
                          !.todo = {i \in pass.listing : RowAt(i) = {}}]
  /\ UNCHANGED <<account, tables, requests, restarts, deleted, known>>

NowKnown == known' = IF known = Items THEN pass.listing ELSE known

AfterSeeding ==
  pass' = IF pass.todo = {} THEN NoPass
          ELSE [pass EXCEPT !.pc = "skip", !.listing = {}, !.fresh = FALSE]

\* Mutation: nothing untracked is a reason to return before the seeding.
PassSeedsUntracked ==
  /\ InPass("seed")
  /\ IF seeded \/ pass.todo = {}
     THEN AfterSeeding /\ UNCHANGED <<seeded, baseline>>
     ELSE IF pass.fresh THEN SeedDiscoveryBaseline({}) /\ AfterSeeding
                        ELSE SeedDiscoveryBaseline(pass.todo) /\ pass' = NoPass
  /\ NowKnown
  /\ UNCHANGED <<account, rows, graves, intents, requests, restarts, deleted>>

\* The first pass to get here seeds the baseline.  On a fresh install it goes
\* on to adopt what is there, otherwise that is ignored for good.
PassSeeds ==
  /\ InPass("seed")
  /\ IF seeded
     THEN AfterSeeding /\ UNCHANGED <<seeded, baseline>>
     ELSE IF pass.fresh THEN SeedDiscoveryBaseline({}) /\ AfterSeeding
                        ELSE SeedDiscoveryBaseline(pass.todo) /\ pass' = NoPass
  /\ NowKnown
  /\ UNCHANGED <<account, rows, graves, intents, requests, restarts, deleted>>

\* DiscoveryBaseline, RecentlyDeletedDownloads and the loop's continue.
PassSkips ==
  /\ InPass("skip")
  /\ pass' = [pass EXCEPT !.pc = "adopt", !.todo = @ \ (baseline \cup tombstones)]
  /\ UNCHANGED <<account, tables, requests, restarts, deleted, known>>

\* Mutation: the claimed intent is taken off without a look at the found flag.
ClaimAlways(c, via) ==
  /\ via = (IF intents[c] > 0 THEN "arr" ELSE "manual")
  /\ intents' = [intents EXCEPT ![c] = @ - 1]

\* A recorded intent makes the item a Managed one, once.
ClaimPendingArrAdd(c, via) ==
  /\ via = (IF intents[c] > 0 THEN "arr" ELSE "manual")
  /\ intents' = [intents EXCEPT ![c] = IF @ > 0 THEN @ - 1 ELSE @]

PassClaims ==
  /\ InPass("adopt")
  /\ \E i \in pass.todo, via \in {"arr", "manual"} :
       /\ ClaimPendingArrAdd(ContentOf[i], via)
       /\ pass' = [pass EXCEPT !.pc = "insert", !.item = i, !.via = via, !.todo = @ \ {i}]
  /\ UNCHANGED <<account, rows, seeded, baseline, graves>>
  /\ UNCHANGED <<requests, restarts, deleted, known>>

\* A failed insert leaves the item to the next pass.
PassInserts ==
  /\ InPass("insert")
  /\ IF RowAt(pass.item) = {}
     THEN UnusedRowIds # {} /\ InsertDownload(NewRowId, pass.item, pass.via)
     ELSE UNCHANGED rows
  /\ pass' = [pass EXCEPT !.pc = "adopt", !.item = NoItem, !.via = "manual"]
  /\ UNCHANGED <<account, seeded, baseline, graves, intents>>
  /\ UNCHANGED <<requests, restarts, deleted, known>>

PassEnds ==
  /\ InPass("adopt") /\ pass.todo = {}
  /\ pass' = NoPass
  /\ UNCHANGED <<account, tables, requests, restarts, deleted, known>>

PassGoesOn ==
  PassReadsRows \/ PassSeeds \/ PassSkips \/ PassClaims \/ PassInserts \/ PassEnds

-------------------------------------------------------------------------------
(***************************************************************************)
(* Requests.                                                               *)
(***************************************************************************)
At(q, ops, pc) == requests[q].op \in ops /\ requests[q].pc = pc
Adds == {"arr", "manual"}

Goes(q, pc) == requests' = [requests EXCEPT ![q].pc = pc]
Ends(q) == requests' = [requests EXCEPT ![q] = NoRequest]
Answers(q, op, r) ==
  requests' = [requests EXCEPT ![q] = [NoRequest EXCEPT !.op = op, !.row = r, !.ok = TRUE]]
Stays == UNCHANGED <<pass, restarts, known>>

\* POST of a magnet, a torrent or an NZB, by an *arr app or a user.
AsksToAdd(q) ==
  /\ requests[q].pc = "idle"
  /\ \E op \in Ops \cap Adds, i \in Items :
       requests' = [requests EXCEPT ![q] =
                      [NoRequest EXCEPT !.op = op, !.pc = "asked", !.item = i]]
  /\ Stays /\ UNCHANGED <<account, tables, deleted>>

\* A delete, or a re-add of a row in error, which it reads once.
AsksForRow(q) ==
  /\ requests[q].pc = "idle"
  /\ \E op \in Ops \ Adds, r \in Stored :
       requests' = [requests EXCEPT ![q] =
                      [NoRequest EXCEPT !.op = op, !.pc = "asked", !.row = r,
                                        !.item = rows[r].item]]
  /\ Stays /\ UNCHANGED <<account, tables, deleted>>

\* The provider takes an add: a new item, or the one it has of that content.
\* Its answer may not get back.
ProviderTakes(q) ==
  /\ At(q, Adds \cup {"readd"}, "asked")
  /\ \E i \in Items :
       /\ ContentOf[i] = ContentOf[requests[q].item]
       /\ account[i] \in {"none", "present"}
       /\ account' = [account EXCEPT ![i] = "present"]
       /\ deleted' = deleted \ {i}
       /\ \E pc \in {"replied", "lost"} :
            requests' = [requests EXCEPT ![q].pc = pc, ![q].new = i]
  /\ Stays /\ UNCHANGED tables

\* It refuses, or hears nothing of it.
ProviderRefuses(q) ==
  /\ At(q, Adds \cup {"readd"}, "asked")
  /\ Goes(q, "lost")
  /\ Stays /\ UNCHANGED <<account, tables, deleted>>

\* A failed add; an *arr app's is recorded, whatever made it fail.
AddFails(q) ==
  LET c == ContentOf[requests[q].item] IN
  /\ At(q, Adds \cup {"readd"}, "lost")
  /\ IF requests[q].op = "arr"
     THEN intents[c] < MaxPending /\ intents' = [intents EXCEPT ![c] = @ + 1]
     ELSE UNCHANGED intents
  /\ Ends(q)
  /\ Stays /\ UNCHANGED <<account, rows, seeded, baseline, graves, deleted>>

\* GetDownloadByProviderID of InsertOrClaimForArr and of existingOrInsert.
LooksForRow(q) ==
  /\ At(q, Adds, "replied")
  /\ \/ /\ RowAt(requests[q].new) = {}
        /\ Goes(q, "store")
     \/ \E r \in RowAt(requests[q].new) :
          requests' = [requests EXCEPT ![q].pc = "store", ![q].row = r]
  /\ Stays /\ UNCHANGED <<account, tables, deleted>>

\* No row was there, so one is inserted.
StoresNew(q) ==
  LET i == requests[q].new IN
  /\ At(q, Adds, "store") /\ requests[q].row = NoRow
  /\ IF RowAt(i) = {}
     THEN /\ UnusedRowIds # {} /\ InsertDownload(NewRowId, i, requests[q].op)
          /\ IF requests[q].op = "arr" THEN Answers(q, "arr", NewRowId) ELSE Ends(q)
     ELSE Ends(q) /\ UNCHANGED rows
  /\ Stays /\ UNCHANGED <<account, seeded, baseline, graves, intents, deleted>>

\* Mutation: the existing row is answered as it is.
ClaimedAsIs(r) == rows

\* The UPDATE of InsertOrClaimForArr.
Claimed(r) == [rows EXCEPT ![r].via = "arr"]

\* A row was there: an *arr add claims it, a user is told of it.
StoresExisting(q) ==
  LET r == requests[q].row IN
  /\ At(q, Adds, "store") /\ r # NoRow
  /\ IF requests[q].op = "arr" /\ r \in Stored
     THEN rows' = Claimed(r) /\ Answers(q, "arr", r)
     ELSE Ends(q) /\ UNCHANGED rows
  /\ Stays /\ UNCHANGED <<account, seeded, baseline, graves, intents, deleted>>

\* provider.Delete, best-effort: without a confirmation the item may be deleted
\* or not.  The provider is one that is configured; without it no pass runs.
DeletesAtProvider(q) ==
  /\ At(q, {"delete"}, "asked")
  /\ \/ Goes(q, "confirmed") /\ DeletesItem(requests[q].item)
     \/ Goes(q, "unconfirmed") /\ (DeletesItem(requests[q].item) \/ UNCHANGED account)
  /\ Stays /\ UNCHANGED <<tables, deleted>>

ProviderAsked(q) == At(q, {"delete"}, "confirmed") \/ At(q, {"delete"}, "unconfirmed")

\* Mutation: every tombstone gets the short grace period.
RecordDeletedBriefly(q) ==
  /\ ProviderAsked(q)
  /\ tombstones' = tombstones \cup {requests[q].item}
  /\ lasting' = lasting \ {requests[q].item}
  /\ Goes(q, "row")
  /\ Stays /\ UNCHANGED <<account, rows, seeded, baseline, intents, deleted>>

\* The tombstone comes before the row goes, and lasts for as long as what is
\* known of the provider's copy asks for.
RecordDeletedDownload(q) ==
  LET i == requests[q].item IN
  /\ ProviderAsked(q)
  /\ tombstones' = tombstones \cup {i}
  /\ lasting' = IF requests[q].pc = "confirmed" THEN lasting \ {i} ELSE lasting \cup {i}
  /\ Goes(q, "row")
  /\ Stays /\ UNCHANGED <<account, rows, seeded, baseline, intents, deleted>>

DeleteDownload(q) ==
  /\ At(q, {"delete"}, "row")
  /\ DropRow(requests[q].row)
  /\ deleted' = deleted \cup (IF requests[q].row \in Stored THEN {requests[q].item} ELSE {})
  /\ Ends(q)
  /\ Stays /\ UNCHANGED <<account, seeded, baseline, graves, intents>>

\* The old item of a re-add is deleted, best-effort and without a tombstone.
ReAddDeletesOld(q) ==
  /\ At(q, {"readd"}, "replied")
  /\ Goes(q, "check")
  /\ DeletesItem(requests[q].item) \/ UNCHANGED account
  /\ Stays /\ UNCHANGED <<tables, deleted>>

\* GetDownloadByProviderID in handleReAddDownload: a conflict if the new item
\* has another row.
ReAddChecks(q) ==
  /\ At(q, {"readd"}, "check")
  /\ IF RowAt(requests[q].new) \subseteq {requests[q].row}
     THEN Goes(q, "update") ELSE Ends(q)
  /\ Stays /\ UNCHANGED <<account, tables, deleted>>

ReAddDownload(q) ==
  LET r == requests[q].row IN
  /\ At(q, {"readd"}, "update")
  /\ IF r \in Stored /\ RowAt(requests[q].new) \subseteq {r}
     THEN rows' = [rows EXCEPT ![r].item = requests[q].new] /\ Answers(q, "readd", r)
     ELSE Ends(q) /\ UNCHANGED rows
  /\ Stays /\ UNCHANGED <<account, seeded, baseline, graves, intents, deleted>>

Handler(q) ==
  \/ ProviderTakes(q) \/ ProviderRefuses(q) \/ AddFails(q)
  \/ LooksForRow(q) \/ StoresNew(q) \/ StoresExisting(q)
  \/ DeletesAtProvider(q) \/ RecordDeletedDownload(q) \/ DeleteDownload(q)
  \/ ReAddDeletesOld(q) \/ ReAddChecks(q) \/ ReAddDownload(q)

-------------------------------------------------------------------------------
(***************************************************************************)
(* The account's own life, time and the process.                           *)
(***************************************************************************)
\* Something is added at the provider's own site, or disappears from a listing.
ItemAppears(i) ==
  /\ account[i] = "none"
  /\ account' = [account EXCEPT ![i] = "present"]
  /\ UNCHANGED <<tables, requests, pass, restarts, deleted, known>>

ItemGoes(i) ==
  /\ account[i] \in {"present", "leaving"}
  /\ account' = [account EXCEPT ![i] = "gone"]
  /\ UNCHANGED <<tables, requests, pass, restarts, deleted, known>>

\* The oldest intent recorded for c outlives pendingArrAddTTL.
IntentsExpire(c) ==
  /\ intents[c] > 0
  /\ intents' = [intents EXCEPT ![c] = @ - 1]
  /\ UNCHANGED <<account, rows, seeded, baseline, graves>>
  /\ UNCHANGED <<requests, pass, restarts, deleted, known>>

\* A short grace period outlasts the listings that still show what the provider
\* has deleted, the long one the provider's own retention, and both a pass.
TombstoneExpires(i) ==
  /\ i \in tombstones \ (pass.listing \cup pass.todo)
  /\ IF i \in lasting THEN i \notin Listed ELSE account[i] # "leaving"
  /\ tombstones' = tombstones \ {i} /\ lasting' = lasting \ {i}
  /\ UNCHANGED <<account, rows, seeded, baseline, intents>>
  /\ UNCHANGED <<requests, pass, restarts, deleted, known>>

\* The process is killed at any point and started again.
Restart ==
  /\ restarts < MaxRestarts
  /\ restarts' = restarts + 1
  /\ requests' = [q \in Requests |-> NoRequest]
  /\ pass' = NoPass
  /\ UNCHANGED <<account, tables, deleted, known>>

DiscoveryNext ==
  \/ PassBegins \/ PassLists \/ PassListFails \/ PassGoesOn
  \/ \E q \in Requests : AsksToAdd(q) \/ AsksForRow(q) \/ Handler(q)
  \/ \E i \in Items : ItemAppears(i) \/ ItemGoes(i) \/ TombstoneExpires(i)
  \/ \E c \in Contents : IntentsExpire(c)
  \/ Restart

DiscoverySpec == Init /\ [][DiscoveryNext]_vars

(***************************************************************************)
(* Fairness: the ticker keeps beginning passes, a pass that has begun goes *)
(* on, and the provider does not fail every listing.  Nothing is assumed   *)
(* of requests.                                                            *)
(***************************************************************************)
DiscoveryFairness == WF_vars(PassBegins \/ PassGoesOn) /\ SF_vars(PassLists)

FairDiscoverySpec == DiscoverySpec /\ DiscoveryFairness

-------------------------------------------------------------------------------
(***************************************************************************)
(* Properties.                                                             *)
(***************************************************************************)
\* No ghosts: what had been deleted, by a user or an *arr app, when a pass read
\* the rows is not adopted by that pass, however long listings go on showing it
\* (discoverManual, RecordDeletedDownload).
NoGhosts ==
  /\ InPass("adopt") => pass.todo \cap pass.gone = {}
  /\ InPass("insert") => pass.item \notin pass.gone

\* The row an *arr app was told of is Managed and stays so: discovery, users
\* and restarts may come before, between and after its statements
\* (InsertOrClaimForArr).
ArrRowsAreManaged ==
  \A q \in Requests :
    requests[q].op = "arr" /\ requests[q].ok /\ requests[q].row \in Stored
      => rows[requests[q].row].via = "arr"

\* Whatever comes to the account after discovery has seen it for the first
\* time gets a row, unless it goes again or its row has been deleted: it never
\* ends up in the baseline (discoverManual, SeedDiscoveryBaseline).
NewItemsShowUp ==
  \A i \in Items :
    (account[i] = "present" /\ i \notin known) ~>
      (RowAt(i) # {} \/ i \in tombstones \/ account[i] # "present")
===============================================================================
