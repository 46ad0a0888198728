--------------------------- MODULE DiscoveryProofs ----------------------------
(***************************************************************************)
(* Theorems about module Discovery: the types of its tables and requests,  *)
(* that what has been deleted does not come back as a ghost, and that the  *)
(* row an *arr app was told of stays Managed.                              *)
(***************************************************************************)
EXTENDS Discovery, TLAPS

USE DiscoveryAssumption DEF DiscoveryAssumption

-------------------------------------------------------------------------------
(***************************************************************************)
(* Types.                                                                  *)
(***************************************************************************)
\* A new row id is unused (InsertDownload's uuid).
LEMMA NewRowIdUnused == ASSUME UnusedRowIds # {} PROVE NewRowId \in UnusedRowIds
BY Zenon DEF NewRowId

\* An insert adds one row and leaves the others alone.
LEMMA InsertAdds ==
  ASSUME DiscoveryTypeOK, NEW r \in RowIds, NEW i \in Items,
         NEW via \in {"arr", "manual"}, InsertDownload(r, i, via)
  PROVE  /\ DOMAIN rows' = Stored \cup {r}
         /\ DOMAIN rows' \subseteq RowIds /\ rows' \in [DOMAIN rows' -> Row]
         /\ rows'[r] = [item |-> i, via |-> via]
         /\ \A x \in Stored \ {r} : rows'[x] = rows[x]
BY DEF DiscoveryTypeOK, InsertDownload, Stored, Row

\* A slot that has ended, or waits for nothing, is a request again.
LEMMA NoRequestTyped ==
  /\ NoRequest \in Request /\ NoRequest.pc = "idle"
  /\ NoPass \in Pass /\ NoPass.pc = "idle" /\ NoPass.gone = {}
  /\ \A op \in {"arr", "readd"}, r \in RowIds :
       [NoRequest EXCEPT !.op = op, !.row = r, !.ok = TRUE] \in Request
BY DEF NoRequest, Request, NoPass, Pass

\* The initial tables are typed (the empty database).
LEMMA InitTyped == ASSUME Init PROVE DiscoveryTypeOK
<1>1. rows \in [Stored -> Row] /\ Stored = {}
  BY DEF Init, Stored
<1>2. requests \in [Requests -> Request] /\ pass \in Pass
  BY NoRequestTyped DEF Init
<1>3. 0 \in 0..MaxPending /\ 0 \in 0..MaxRestarts
  OBVIOUS
<1>4. intents \in [Contents -> 0..MaxPending] /\ restarts \in 0..MaxRestarts
  BY <1>3 DEF Init
<1>5. account \in [Items -> {"none", "present", "leaving", "gone"}]
  BY DEF Init
<1>6. Filled
  BY DEF Init, Filled, NoRequest, NoPass
<1> QED
  BY <1>1, <1>2, <1>4, <1>5, <1>6 DEF Init, DiscoveryTypeOK

\* A pass alone changes nothing of the requests.
LEMMA PassKeepsRequests ==
  ASSUME DiscoveryTypeOK, UNCHANGED requests, pass' \in Pass,
         pass'.pc = "insert" => pass'.item \in Items
  PROVE  requests' \in [Requests -> Request] /\ Filled'
BY DEF DiscoveryTypeOK, Filled

\* The steps of a discovery pass keep the types.
LEMMA PassTyped ==
  ASSUME DiscoveryTypeOK,
         PassBegins \/ PassLists \/ PassListFails \/ PassGoesOn
  PROVE  DiscoveryTypeOK'
<1> USE DEF tables, graves, Stored
<1>0. /\ pass \in Pass /\ Stored \subseteq RowIds /\ rows \in [Stored -> Row]
      /\ pass.pc = "insert" => pass.item \in Items
      /\ UNCHANGED <<account, requests, restarts, deleted>>
  BY DEF DiscoveryTypeOK, Filled, PassBegins, PassLists, PassListFails, PassGoesOn,
       PassReadsRows, PassSeeds, PassSkips, PassClaims, PassInserts, PassEnds
<1>1. CASE PassBegins
  <2>1. PICK fresh \in BOOLEAN : pass' = [NoPass EXCEPT !.pc = "list", !.fresh = fresh]
    BY <1>1 DEF PassBegins
  <2>2. pass' \in Pass /\ pass'.pc # "insert"
    BY <2>1 DEF Pass, NoPass
  <2> QED BY <1>0, <1>1, <2>2, PassKeepsRequests DEF PassBegins, DiscoveryTypeOK
<1>2. CASE PassLists
  <2>1. pass' \in Pass /\ pass'.pc # "insert"
    BY <1>0, <1>2 DEF PassLists, Pass, Listed
  <2> QED BY <1>0, <1>2, <2>1, PassKeepsRequests DEF PassLists, DiscoveryTypeOK
<1>3. CASE PassListFails \/ PassEnds
  <2>1. pass' \in Pass /\ pass'.pc # "insert"
    BY <1>3, NoRequestTyped DEF PassListFails, PassEnds
  <2> QED BY <1>0, <1>3, <2>1, PassKeepsRequests DEF PassListFails, PassEnds, DiscoveryTypeOK
<1>4. CASE PassReadsRows
  <2>1. pass' \in Pass /\ pass'.pc # "insert"
    BY <1>0, <1>4 DEF PassReadsRows, Pass, DiscoveryTypeOK
  <2> QED BY <1>0, <1>4, <2>1, PassKeepsRequests DEF PassReadsRows, DiscoveryTypeOK
<1>5. CASE PassSeeds
  <2>1. pass' \in Pass /\ pass'.pc # "insert"
    <3>1. \/ pass' = NoPass
          \/ pass' = [pass EXCEPT !.pc = "skip", !.listing = {}, !.fresh = FALSE]
      BY <1>5 DEF PassSeeds, AfterSeeding
    <3>2. CASE pass' = NoPass
      BY <3>2, NoRequestTyped
    <3>3. CASE pass' = [pass EXCEPT !.pc = "skip", !.listing = {}, !.fresh = FALSE]
      BY <1>0, <3>3 DEF Pass
    <3> QED BY <3>1, <3>2, <3>3
  <2>2. seeded' \in BOOLEAN /\ baseline' \subseteq Items /\ known' \subseteq Items
    BY <1>0, <1>5 DEF PassSeeds, SeedDiscoveryBaseline, NowKnown, DiscoveryTypeOK, Pass
  <2> QED BY <1>0, <1>5, <2>1, <2>2, PassKeepsRequests DEF PassSeeds, DiscoveryTypeOK
<1>6. CASE PassSkips
  <2>1. pass' \in Pass /\ pass'.pc # "insert"
    BY <1>0, <1>6 DEF PassSkips, Pass
  <2> QED BY <1>0, <1>6, <2>1, PassKeepsRequests DEF PassSkips, DiscoveryTypeOK
<1>7. CASE PassClaims
  <2>1. PICK i \in pass.todo, via \in {"arr", "manual"} :
          /\ ClaimPendingArrAdd(ContentOf[i], via)
          /\ pass' = [pass EXCEPT !.pc = "insert", !.item = i, !.via = via, !.todo = @ \ {i}]
    BY <1>7 DEF PassClaims
  <2>2. pass' \in Pass /\ pass'.item \in Items
    BY <1>0, <2>1 DEF Pass
  <2>3. intents' \in [Contents -> 0..MaxPending]
    <3>1. \A n \in 0..MaxPending : (IF n > 0 THEN n - 1 ELSE n) \in 0..MaxPending
      OBVIOUS
    <3>2. intents' = [intents EXCEPT ![ContentOf[i]] = IF @ > 0 THEN @ - 1 ELSE @]
      BY <2>1 DEF ClaimPendingArrAdd
    <3> QED BY <3>1, <3>2 DEF DiscoveryTypeOK
  <2> QED BY <1>0, <1>7, <2>2, <2>3, PassKeepsRequests DEF PassClaims, DiscoveryTypeOK
<1>8. CASE PassInserts
  <2>1. pass' \in Pass /\ pass'.pc # "insert"
    BY <1>0, <1>8 DEF PassInserts, Pass
  <2>2. DOMAIN rows' \subseteq RowIds /\ rows' \in [DOMAIN rows' -> Row]
    <3>1. CASE RowAt(pass.item) = {}
      <4>1. UnusedRowIds # {} /\ InsertDownload(NewRowId, pass.item, pass.via)
        BY <1>8, <3>1 DEF PassInserts
      <4>2. NewRowId \in RowIds
        BY <4>1, NewRowIdUnused DEF UnusedRowIds
      <4>3. pass.item \in Items /\ pass.via \in {"arr", "manual"}
        BY <1>0, <1>8 DEF PassInserts, InPass, Pass
      <4> QED BY <4>1, <4>2, <4>3, InsertAdds
    <3>2. CASE RowAt(pass.item) # {}
      BY <1>0, <1>8, <3>2 DEF PassInserts
    <3> QED BY <3>1, <3>2
  <2> QED BY <1>0, <1>8, <2>1, <2>2, PassKeepsRequests DEF PassInserts, DiscoveryTypeOK
<1> QED BY <1>1, <1>2, <1>3, <1>4, <1>5, <1>6, <1>7, <1>8 DEF PassGoesOn

\* A request alone changes nothing of the pass: its slot and the tables it
\* writes are all there is to look at.
LEMMA HandlerTyped ==
  ASSUME DiscoveryTypeOK, NEW q \in Requests, Stays,
         NEW r \in Request, requests' = [requests EXCEPT ![q] = r],
         r.pc # "idle" => r.item \in Items,
         r.pc \in {"replied", "store", "check", "update"} => r.new \in Items,
         account' \in [Items -> {"none", "present", "leaving", "gone"}],
         DOMAIN rows' \subseteq RowIds, rows' \in [DOMAIN rows' -> Row],
         UNCHANGED <<seeded, baseline>>,
         tombstones' \subseteq Items, lasting' \subseteq tombstones',
         intents' \in [Contents -> 0..MaxPending], deleted' \subseteq Items
  PROVE  DiscoveryTypeOK'
BY DEF DiscoveryTypeOK, Filled, Stays, Stored

\* Requests begin typed.
LEMMA AsksTyped ==
  ASSUME DiscoveryTypeOK, NEW q \in Requests, AsksToAdd(q) \/ AsksForRow(q)
  PROVE  DiscoveryTypeOK'
<1> USE DEF tables, graves, Stored
<1>1. CASE AsksToAdd(q)
  <2>1. PICK op \in {"arr", "manual"}, i \in Items :
          requests' = [requests EXCEPT ![q] =
                         [NoRequest EXCEPT !.op = op, !.pc = "asked", !.item = i]]
    BY <1>1 DEF AsksToAdd, Adds
  <2> DEFINE new == [NoRequest EXCEPT !.op = op, !.pc = "asked", !.item = i]
  <2>2. new \in Request /\ new.item \in Items /\ new.pc = "asked"
    BY DEF NoRequest, Request
  <2> QED BY <1>1, <2>1, <2>2, HandlerTyped DEF AsksToAdd, DiscoveryTypeOK
<1>2. CASE AsksForRow(q)
  <2>1. PICK op \in {"delete", "readd"}, r \in Stored :
          requests' = [requests EXCEPT ![q] =
                         [NoRequest EXCEPT !.op = op, !.pc = "asked", !.row = r,
                                           !.item = rows[r].item]]
    BY <1>2 DEF AsksForRow, Adds
  <2> DEFINE new == [NoRequest EXCEPT !.op = op, !.pc = "asked", !.row = r,
                                      !.item = rows[r].item]
  <2>2. r \in RowIds /\ rows[r].item \in Items
    BY DEF DiscoveryTypeOK, Row
  <2>3. new \in Request /\ new.item \in Items /\ new.pc = "asked"
    BY <2>2 DEF NoRequest, Request
  <2> QED BY <1>2, <2>1, <2>3, HandlerTyped DEF AsksForRow, DiscoveryTypeOK
<1> QED BY <1>1, <1>2

\* A request that goes on, ends or answers is a request.
LEMMA RequestGoes ==
  ASSUME DiscoveryTypeOK, NEW q \in Requests,
         NEW pc \in {"idle", "asked", "lost", "replied", "store", "check",
                     "update", "confirmed", "unconfirmed", "row"},
         NEW i \in Items \cup {NoItem}, NEW r \in RowIds \cup {NoRow}
  PROVE  /\ [requests[q] EXCEPT !.pc = pc] \in Request
         /\ [requests[q] EXCEPT !.pc = pc, !.new = i] \in Request
         /\ [requests[q] EXCEPT !.pc = pc, !.row = r] \in Request
         /\ requests[q] \in Request
         /\ requests[q].pc # "idle" => requests[q].item \in Items
         /\ requests[q].pc \in {"replied", "store", "check", "update"} =>
              requests[q].new \in Items
<1>1. requests[q] \in Request
  BY DEF DiscoveryTypeOK
<1>2. [requests[q] EXCEPT !.pc = pc] \in Request
  BY <1>1 DEF Request
<1>3. [requests[q] EXCEPT !.pc = pc, !.new = i] \in Request
  BY <1>1 DEF Request
<1>4. [requests[q] EXCEPT !.pc = pc, !.row = r] \in Request
  BY <1>1 DEF Request
<1> QED BY <1>1, <1>2, <1>3, <1>4 DEF DiscoveryTypeOK, Filled

\* Steps that only move a request on, and those that end it.
LEMMA MovesTyped ==
  ASSUME DiscoveryTypeOK, NEW q \in Requests, Stays, UNCHANGED <<account, tables, deleted>>,
         \/ Ends(q)
         \/ Goes(q, "lost") /\ requests[q].pc # "idle"
         \/ \E pc \in {"store", "update"} :
              Goes(q, pc) /\ requests[q].pc \in {"replied", "check"}
  PROVE  DiscoveryTypeOK'
<1> USE DEF tables, graves, Stored
<1>1. CASE Ends(q)
  BY <1>1, NoRequestTyped, HandlerTyped DEF Ends, DiscoveryTypeOK
<1>2. ASSUME NEW pc \in {"lost", "store", "update"}, Goes(q, pc), requests[q].pc # "idle",
             pc # "lost" => requests[q].pc \in {"replied", "check"}
      PROVE  DiscoveryTypeOK'
  <2> DEFINE new == [requests[q] EXCEPT !.pc = pc]
  <2>1. /\ new \in Request /\ new.item \in Items
        /\ new.pc # "lost" => new.new \in Items
        /\ new.pc = pc
    <3>1. new \in Request
      BY <1>2, RequestGoes
    <3>2. requests[q] \in Request /\ requests[q].item \in Items
      BY <1>2, RequestGoes
    <3>3. pc # "lost" => requests[q].new \in Items
      BY <1>2, RequestGoes
    <3> QED BY <3>1, <3>2, <3>3 DEF Request
  <2>2. requests' = [requests EXCEPT ![q] = new]
    BY <1>2 DEF Goes
  <2> QED BY <2>1, <2>2, HandlerTyped DEF DiscoveryTypeOK
<1> QED BY <1>1, <1>2

\* The steps of adds, deletes and re-adds keep the types.
LEMMA HandlerTypes ==
  ASSUME DiscoveryTypeOK, NEW q \in Requests, Handler(q)
  PROVE  DiscoveryTypeOK'
<1> USE DEF tables, graves, Stored
<1>0. /\ Stays /\ UNCHANGED <<seeded, baseline>>
      /\ requests[q] \in Request /\ requests[q].pc # "idle" /\ requests[q].item \in Items
      /\ requests[q].pc \in {"replied", "store", "check", "update"} => requests[q].new \in Items
      /\ Stored \subseteq RowIds /\ rows \in [Stored -> Row]
  <2>1. Stays /\ UNCHANGED <<seeded, baseline>> /\ requests[q].pc # "idle"
    BY DEF Handler, At, ProviderAsked, ProviderTakes, ProviderRefuses, AddFails,
         LooksForRow, StoresNew, StoresExisting, DeletesAtProvider,
         RecordDeletedDownload, DeleteDownload, ReAddDeletesOld, ReAddChecks,
         ReAddDownload
  <2> QED BY <2>1 DEF DiscoveryTypeOK, Filled
<1>1. CASE ProviderTakes(q)
  <2>1. PICK i \in Items, pc \in {"replied", "lost"} :
          /\ account' = [account EXCEPT ![i] = "present"]
          /\ deleted' = deleted \ {i}
          /\ requests' = [requests EXCEPT ![q].pc = pc, ![q].new = i]
    BY <1>1 DEF ProviderTakes
  <2> DEFINE new == [requests[q] EXCEPT !.pc = pc, !.new = i]
  <2>2. new \in Request
    BY RequestGoes
  <2>3. new.item \in Items /\ new.new \in Items
    BY <1>0 DEF Request
  <2>4. requests' = [requests EXCEPT ![q] = new]
    BY <2>1
  <2>5. account' \in [Items -> {"none", "present", "leaving", "gone"}]
    BY <2>1 DEF DiscoveryTypeOK
  <2>6. UNCHANGED tables /\ deleted' \subseteq Items
    BY <1>1, <2>1 DEF ProviderTakes, DiscoveryTypeOK
  <2> HIDE DEF new
  <2> QED BY <1>0, <2>2, <2>3, <2>4, <2>5, <2>6, HandlerTyped DEF DiscoveryTypeOK
<1>2. CASE ProviderRefuses(q)
  BY <1>0, <1>2, MovesTyped DEF ProviderRefuses
<1>3. CASE AddFails(q)
  <2>1. intents' \in [Contents -> 0..MaxPending]
    <3>1. \A n \in 0..MaxPending : n < MaxPending => n + 1 \in 0..MaxPending
      OBVIOUS
    <3> QED BY <1>3, <3>1 DEF AddFails, DiscoveryTypeOK
  <2> QED BY <1>0, <1>3, <2>1, NoRequestTyped, HandlerTyped DEF AddFails, Ends, DiscoveryTypeOK
<1>4. CASE LooksForRow(q)
  <2>1. CASE Goes(q, "store")
    BY <1>0, <1>4, <2>1, MovesTyped DEF LooksForRow, At
  <2>2. CASE \E r \in RowAt(requests[q].new) :
               requests' = [requests EXCEPT ![q].pc = "store", ![q].row = r]
    <3>1. PICK r \in RowIds : requests' = [requests EXCEPT ![q].pc = "store", ![q].row = r]
      BY <1>0, <2>2 DEF RowAt
    <3> DEFINE new == [requests[q] EXCEPT !.pc = "store", !.row = r]
    <3>2. new \in Request
      BY RequestGoes
    <3>3. new.item \in Items /\ new.new \in Items
      BY <1>0, <1>4 DEF Request, LooksForRow, At
    <3>4. requests' = [requests EXCEPT ![q] = new]
      BY <3>1
    <3>5. UNCHANGED <<account, tables, deleted>>
      BY <1>4 DEF LooksForRow
    <3> HIDE DEF new
    <3> QED BY <1>0, <3>2, <3>3, <3>4, <3>5, HandlerTyped DEF DiscoveryTypeOK
  <2> QED BY <1>4, <2>1, <2>2 DEF LooksForRow
<1>5. CASE StoresNew(q)
  <2>1. CASE RowAt(requests[q].new) = {}
    <3>1. UnusedRowIds # {} /\ InsertDownload(NewRowId, requests[q].new, requests[q].op)
      BY <1>5, <2>1 DEF StoresNew
    <3>2. NewRowId \in RowIds
      BY <3>1, NewRowIdUnused DEF UnusedRowIds
    <3>3. requests[q].new \in Items /\ requests[q].op \in {"arr", "manual"}
      BY <1>0, <1>5 DEF StoresNew, At, Adds
    <3>4. DOMAIN rows' \subseteq RowIds /\ rows' \in [DOMAIN rows' -> Row]
      BY <3>1, <3>2, <3>3, InsertAdds
    <3>5. PICK new \in Request : requests' = [requests EXCEPT ![q] = new] /\ new.pc = "idle"
      <4>1. CASE Ends(q)
        BY <4>1, NoRequestTyped DEF Ends
      <4>2. CASE Answers(q, "arr", NewRowId)
        BY <3>2, <4>2, NoRequestTyped DEF Answers, NoRequest
      <4> QED BY <1>5, <2>1, <4>1, <4>2 DEF StoresNew
    <3> QED BY <1>0, <1>5, <3>4, <3>5, HandlerTyped DEF StoresNew, DiscoveryTypeOK
  <2>2. CASE RowAt(requests[q].new) # {}
    BY <1>0, <1>5, <2>2, MovesTyped DEF StoresNew
  <2> QED BY <2>1, <2>2
<1>6. CASE StoresExisting(q)
  <2> DEFINE r == requests[q].row
  <2>1. CASE requests[q].op = "arr" /\ r \in Stored
    <3>1. rows' = Claimed(r) /\ Answers(q, "arr", r)
      BY <1>6, <2>1 DEF StoresExisting
    <3>2. DOMAIN rows' \subseteq RowIds /\ rows' \in [DOMAIN rows' -> Row]
      BY <1>0, <2>1, <3>1 DEF Claimed, Row
    <3> DEFINE new == [NoRequest EXCEPT !.op = "arr", !.row = r, !.ok = TRUE]
    <3>3. new \in Request /\ new.pc = "idle"
      BY <1>0, <2>1, NoRequestTyped DEF NoRequest
    <3> QED BY <1>0, <1>6, <3>1, <3>2, <3>3, HandlerTyped DEF StoresExisting, Answers,
         DiscoveryTypeOK
  <2>2. CASE ~(requests[q].op = "arr" /\ r \in Stored)
    BY <1>0, <1>6, <2>2, MovesTyped DEF StoresExisting
  <2> QED BY <2>1, <2>2
<1>7. CASE DeletesAtProvider(q) \/ ReAddDeletesOld(q)
  <2>1. account' \in [Items -> {"none", "present", "leaving", "gone"}]
    BY <1>0, <1>7 DEF DeletesAtProvider, ReAddDeletesOld, DeletesItem, DiscoveryTypeOK
  <2>2. PICK pc \in {"confirmed", "unconfirmed", "check"} :
          Goes(q, pc) /\ (pc = "check" => requests[q].new \in Items)
    BY <1>0, <1>7 DEF DeletesAtProvider, ReAddDeletesOld, At
  <2> DEFINE new == [requests[q] EXCEPT !.pc = pc]
  <2>3. new \in Request
    BY RequestGoes
  <2>4. new.item \in Items /\ (new.pc = "check" => new.new \in Items) /\ new.pc = pc
    BY <1>0, <2>2 DEF Request
  <2>5. requests' = [requests EXCEPT ![q] = new]
    BY <2>2 DEF Goes
  <2>6. UNCHANGED <<tables, deleted>>
    BY <1>7 DEF DeletesAtProvider, ReAddDeletesOld
  <2> HIDE DEF new
  <2> QED BY <1>0, <2>1, <2>2, <2>3, <2>4, <2>5, <2>6, HandlerTyped DEF DiscoveryTypeOK
<1>8. CASE RecordDeletedDownload(q)
  <2> DEFINE new == [requests[q] EXCEPT !.pc = "row"]
  <2>1. new \in Request
    BY RequestGoes
  <2>2. new.item \in Items /\ new.pc = "row"
    BY <1>0 DEF Request
  <2>3. requests' = [requests EXCEPT ![q] = new]
    BY <1>8 DEF RecordDeletedDownload, Goes
  <2>4. tombstones' \subseteq Items /\ lasting' \subseteq tombstones'
    BY <1>0, <1>8 DEF RecordDeletedDownload, DiscoveryTypeOK
  <2> QED BY <1>0, <1>8, <2>1, <2>2, <2>3, <2>4, HandlerTyped DEF RecordDeletedDownload,
       DiscoveryTypeOK
<1>9. CASE DeleteDownload(q)
  <2>1. DOMAIN rows' \subseteq RowIds /\ rows' \in [DOMAIN rows' -> Row]
    BY <1>0, <1>9 DEF DeleteDownload, DropRow
  <2>2. deleted' \subseteq Items
    BY <1>0, <1>9 DEF DeleteDownload, DiscoveryTypeOK
  <2> QED BY <1>0, <1>9, <2>1, <2>2, NoRequestTyped, HandlerTyped DEF DeleteDownload,
       Ends, DiscoveryTypeOK
<1>10. CASE ReAddChecks(q)
  BY <1>0, <1>10, MovesTyped DEF ReAddChecks, At
<1>11. CASE ReAddDownload(q)
  <2> DEFINE r == requests[q].row
  <2>1. CASE r \in Stored /\ RowAt(requests[q].new) \subseteq {r}
    <3>1. rows' = [rows EXCEPT ![r].item = requests[q].new] /\ Answers(q, "readd", r)
      BY <1>11, <2>1 DEF ReAddDownload
    <3>2. requests[q].new \in Items
      BY <1>0, <1>11 DEF ReAddDownload, At
    <3>3. DOMAIN rows' \subseteq RowIds /\ rows' \in [DOMAIN rows' -> Row]
      BY <1>0, <2>1, <3>1, <3>2 DEF Row
    <3> DEFINE new == [NoRequest EXCEPT !.op = "readd", !.row = r, !.ok = TRUE]
    <3>4. new \in Request /\ new.pc = "idle"
      BY <1>0, <2>1, NoRequestTyped DEF NoRequest
    <3> QED BY <1>0, <1>11, <3>1, <3>3, <3>4, HandlerTyped DEF ReAddDownload, Answers,
         DiscoveryTypeOK
  <2>2. CASE ~(r \in Stored /\ RowAt(requests[q].new) \subseteq {r})
    BY <1>0, <1>11, <2>2, MovesTyped DEF ReAddDownload
  <2> QED BY <2>1, <2>2
<1> QED BY <1>1, <1>2, <1>3, <1>4, <1>5, <1>6, <1>7, <1>8, <1>9, <1>10, <1>11 DEF Handler

\* The account, the intents' expiry and restarts keep the types.
LEMMA RestTyped ==
  ASSUME DiscoveryTypeOK,
         \/ \E i \in Items : ItemAppears(i) \/ ItemGoes(i) \/ TombstoneExpires(i)
         \/ \E c \in Contents : IntentsExpire(c)
         \/ Restart
  PROVE  DiscoveryTypeOK'
<1> USE DEF tables, graves, Stored, DiscoveryTypeOK
<1>1. ASSUME NEW i \in Items, ItemAppears(i) \/ ItemGoes(i) \/ TombstoneExpires(i)
      PROVE  DiscoveryTypeOK'
  BY <1>1 DEF ItemAppears, ItemGoes, TombstoneExpires, Filled
<1>2. ASSUME NEW c \in Contents, IntentsExpire(c) PROVE DiscoveryTypeOK'
  <2>1. 0 \in 0..MaxPending
    OBVIOUS
  <2> QED BY <1>2, <2>1 DEF IntentsExpire, Filled
<1>3. CASE Restart
  <2>1. restarts' \in 0..MaxRestarts
    BY <1>3 DEF Restart
  <2>2. requests' \in [Requests -> Request] /\ pass' \in Pass /\ Filled'
    BY <1>3, NoRequestTyped DEF Restart, Filled
  <2> QED BY <1>3, <2>1, <2>2 DEF Restart
<1> QED BY <1>1, <1>2, <1>3

LEMMA TypeStep == DiscoveryTypeOK /\ [DiscoveryNext]_vars => DiscoveryTypeOK'
<1>1. ASSUME DiscoveryTypeOK, DiscoveryNext PROVE DiscoveryTypeOK'
  BY <1>1, PassTyped, AsksTyped, HandlerTypes, RestTyped DEF DiscoveryNext
<1>2. ASSUME DiscoveryTypeOK, UNCHANGED vars PROVE DiscoveryTypeOK'
  BY <1>2 DEF vars, tables, graves, DiscoveryTypeOK, Filled, Stored
<1> QED BY <1>1, <1>2

\* The tables, the requests and the pass keep their types through every order
\* of discovery, adds, deletes, re-adds and restarts.
THEOREM DiscoveryTypes == DiscoverySpec => []DiscoveryTypeOK
<1>1. Init => DiscoveryTypeOK
  BY InitTyped
<1> QED BY <1>1, TypeStep, PTL DEF DiscoverySpec

-------------------------------------------------------------------------------
(***************************************************************************)
(* Ghosts.  A tombstone is written before its row goes, a pass reads the   *)
(* tombstones after the rows, and a tombstone expires only when no listing *)
(* shows its item any more; with the short grace period that takes a       *)
(* provider that has confirmed the delete.  So a pass finds a tombstone    *)
(* for every listed item whose row was gone when it read the rows.         *)
(***************************************************************************)
Going(i) == account[i] \in {"leaving", "gone"}
Vanished(i) == account[i] = "gone" /\ i \notin pass.listing \cup pass.todo
Buried(i) == i \in tombstones \/ Vanished(i)

\* The provider's answer to an add or a re-add is known.
Answered(q) == requests[q].pc \in {"replied", "store", "check", "update"}

\* Whatever a table, a request or the pass names has been in the account.
SeenInv ==
  /\ \A i \in tombstones \cup pass.listing \cup pass.todo : account[i] # "none"
  /\ InPass("insert") => account[pass.item] # "none"
  /\ \A r \in Stored : account[rows[r].item] # "none"
  /\ \A q \in Requests :
       /\ requests[q].op = "delete" /\ requests[q].pc # "idle" =>
            account[requests[q].item] # "none"
       /\ Answered(q) =>
            account[requests[q].new] # "none"

GhostInv ==
  /\ \A i \in deleted \cup pass.gone : Buried(i)
  /\ \A q \in Requests : At(q, {"delete"}, "row") => Buried(requests[q].item)
  /\ \A q \in Requests : At(q, {"delete"}, "confirmed") => Going(requests[q].item)
  /\ \A i \in tombstones \ lasting : Going(i)
  /\ InPass("insert") => pass.todo \cap pass.gone = {}
  /\ NoGhosts

\* What a request names goes on having been in the account.
LEMMA SeenRequest ==
  ASSUME DiscoveryTypeOK, SeenInv, NEW q \in Requests,
         \A i \in Items : account[i] # "none" => account'[i] # "none"
  PROVE  /\ requests[q].op = "delete" /\ requests[q].pc # "idle" =>
              account'[requests[q].item] # "none"
         /\ Answered(q) => account'[requests[q].new] # "none"
<1>1. ASSUME requests[q].op = "delete", requests[q].pc # "idle"
      PROVE  account'[requests[q].item] # "none"
  <2>1. requests[q].item \in Items
    BY <1>1 DEF DiscoveryTypeOK, Filled
  <2>2. account[requests[q].item] # "none"
    BY Zenon, <1>1 DEF SeenInv
  <2> QED BY Zenon, <2>1, <2>2
<1>2. ASSUME Answered(q)
      PROVE  account'[requests[q].new] # "none"
  <2>1. requests[q].new \in Items
    BY <1>2 DEF DiscoveryTypeOK, Filled, Answered
  <2>2. account[requests[q].new] # "none"
    BY Zenon, <1>2 DEF SeenInv
  <2> QED BY Zenon, <2>1, <2>2
<1> QED BY Zenon, <1>1, <1>2

LEMMA GhostInit == Init => SeenInv /\ GhostInv
<1> SUFFICES ASSUME Init PROVE SeenInv /\ GhostInv
  OBVIOUS
<1>1. pass.gone = {} /\ pass.todo = {} /\ pass.listing = {} /\ pass.pc = "idle"
  BY DEF Init, NoPass
<1>2. \A q \in Requests : requests[q].pc = "idle"
  BY DEF Init, NoRequest
<1>3. Stored = {} /\ tombstones = {} /\ deleted = {}
  BY DEF Init, Stored
<1> QED BY <1>1, <1>2, <1>3 DEF SeenInv, Answered, GhostInv, NoGhosts, InPass, At

\* A step of a request touches neither the pass nor another request.
LEMMA HandlerShape ==
  ASSUME DiscoveryTypeOK, NEW q \in Requests,
         AsksToAdd(q) \/ AsksForRow(q) \/ Handler(q)
  PROVE  /\ requests \in [Requests -> Request]
         /\ UNCHANGED pass
         /\ \A p \in Requests \ {q} : requests'[p] = requests[p]
<1>1. requests \in [Requests -> Request]
  BY DEF DiscoveryTypeOK
<1>2. UNCHANGED pass
  BY DEF Handler, Stays, AsksToAdd, AsksForRow, ProviderTakes, ProviderRefuses,
       AddFails, LooksForRow, StoresNew, StoresExisting, DeletesAtProvider,
       RecordDeletedDownload, DeleteDownload, ReAddDeletesOld, ReAddChecks,
       ReAddDownload
<1>3. \E r : requests' = [requests EXCEPT ![q] = r]
  <2>1. CASE AsksToAdd(q) \/ AsksForRow(q)
    BY <2>1 DEF AsksToAdd, AsksForRow
  <2>2. CASE Handler(q)
    BY <2>2 DEF Handler, Goes, Ends, Answers, ProviderTakes, ProviderRefuses, AddFails,
         LooksForRow, StoresNew, StoresExisting, DeletesAtProvider,
         RecordDeletedDownload, DeleteDownload, ReAddDeletesOld, ReAddChecks,
         ReAddDownload
  <2> QED BY <2>1, <2>2
<1> QED BY <1>1, <1>2, <1>3

\* An item that has been in the account never becomes a new one, and one that
\* is on its way out stays so.
LEMMA AccountMoves ==
  ASSUME DiscoveryTypeOK, DiscoveryNext, NEW i \in Items
  PROVE  /\ account[i] # "none" => account'[i] # "none"
         /\ Going(i) => Going(i)'
         /\ account[i] = "gone" => account'[i] = "gone"
<1> DEFINE Moves == /\ account[i] # "none" => account'[i] # "none"
                    /\ Going(i) => Going(i)'
                    /\ account[i] = "gone" => account'[i] = "gone"
<1>0. account \in [Items -> {"none", "present", "leaving", "gone"}]
  BY DEF DiscoveryTypeOK
<1>1. UNCHANGED account => Moves
  BY DEF Going
<1>2. ASSUME NEW j, DeletesItem(j) PROVE Moves
  BY <1>0, <1>2 DEF DeletesItem, Going
<1>3. ASSUME NEW q \in Requests, ProviderTakes(q) PROVE Moves
  BY <1>0, <1>3 DEF ProviderTakes, Going
<1>4. ASSUME NEW j \in Items, ItemAppears(j) \/ ItemGoes(j) PROVE Moves
  BY <1>0, <1>4 DEF ItemAppears, ItemGoes, Going
<1> HIDE DEF Moves
<1>5. ASSUME NEW q \in Requests, Handler(q) PROVE Moves
  <2>1. CASE DeletesAtProvider(q) \/ ReAddDeletesOld(q)
    BY <1>1, <1>2, <2>1 DEF DeletesAtProvider, ReAddDeletesOld
  <2>2. CASE ~DeletesAtProvider(q) /\ ~ReAddDeletesOld(q) /\ ~ProviderTakes(q)
    BY <1>1, <1>5, <2>2
       DEF Handler, ProviderRefuses, AddFails, LooksForRow, StoresNew, StoresExisting,
            RecordDeletedDownload, DeleteDownload, ReAddChecks, ReAddDownload
  <2> QED BY <1>3, <2>1, <2>2
<1>6. ASSUME PassBegins \/ PassLists \/ PassListFails \/ PassGoesOn
      PROVE  UNCHANGED account
  BY <1>6
     DEF PassBegins, PassLists, PassListFails, PassGoesOn, PassReadsRows, PassSeeds,
          PassSkips, PassClaims, PassInserts, PassEnds
<1>7. ASSUME NEW q \in Requests, AsksToAdd(q) \/ AsksForRow(q) PROVE UNCHANGED account
  BY <1>7 DEF AsksToAdd, AsksForRow
<1>8. ASSUME NEW j \in Items, TombstoneExpires(j) PROVE UNCHANGED account
  BY <1>8 DEF TombstoneExpires
<1>9. ASSUME NEW c \in Contents, IntentsExpire(c) PROVE UNCHANGED account
  BY <1>9 DEF IntentsExpire
<1>10. Restart => UNCHANGED account
  BY DEF Restart
<1>11. Moves
  BY Zenon, <1>1, <1>4, <1>5, <1>6, <1>7, <1>8, <1>9, <1>10 DEF DiscoveryNext
<1> QED BY <1>11 DEF Moves

\* What is there to be named is taken from a listing, from a row, or from the
\* provider's own answer.
LEMMA SeenPass ==
  ASSUME DiscoveryTypeOK, SeenInv,
         PassBegins \/ PassLists \/ PassListFails \/ PassGoesOn
  PROVE  SeenInv'
<1>0. /\ pass \in Pass
      /\ UNCHANGED <<account, tombstones, requests>>
  BY DEF DiscoveryTypeOK, tables, graves, PassBegins, PassLists, PassListFails,
       PassGoesOn, PassReadsRows, PassSeeds, PassSkips, PassClaims, PassInserts,
       PassEnds
<1>1. ASSUME /\ \A i \in pass'.listing \cup pass'.todo : account[i] # "none"
             /\ pass'.pc # "insert" /\ UNCHANGED rows
      PROVE  SeenInv'
  BY <1>0, <1>1 DEF SeenInv, InPass, Stored, Answered
<1>2. CASE PassBegins \/ PassListFails \/ PassEnds
  <2>1. pass'.listing = {} /\ pass'.todo = {} /\ pass'.pc # "insert" /\ UNCHANGED rows
    <3>1. CASE PassBegins
      BY <3>1 DEF PassBegins, NoPass, tables
    <3>2. CASE PassListFails \/ PassEnds
      BY <3>2 DEF PassListFails, PassEnds, NoPass, tables
    <3> QED BY <1>2, <3>1, <3>2
  <2> QED BY <1>1, <2>1
<1>3. CASE PassLists
  <2>1. pass'.listing = Listed /\ pass'.todo = pass.todo /\ pass'.pc = "rows" /\ UNCHANGED rows
    BY <1>0, <1>3 DEF PassLists, Pass, tables
  <2> QED BY <1>1, <2>1 DEF SeenInv, Listed
<1>4. CASE PassReadsRows \/ PassSkips
  <2>1. /\ pass'.listing = pass.listing /\ pass'.todo \subseteq pass.listing \cup pass.todo
        /\ pass'.pc # "insert" /\ UNCHANGED rows
    <3>1. CASE PassReadsRows
      BY <1>0, <3>1 DEF PassReadsRows, Pass, tables
    <3>2. CASE PassSkips
      BY <1>0, <3>2 DEF PassSkips, Pass, tables
    <3> QED BY <1>4, <3>1, <3>2
  <2> QED BY <1>1, <2>1 DEF SeenInv
<1>5. CASE PassSeeds
  <2>1. /\ pass'.listing = {} /\ pass'.todo \in {{}, pass.todo}
        /\ pass'.pc # "insert" /\ UNCHANGED rows
    <3>1. \/ pass' = NoPass
          \/ pass' = [pass EXCEPT !.pc = "skip", !.listing = {}, !.fresh = FALSE]
      BY <1>5 DEF PassSeeds, AfterSeeding
    <3>2. CASE pass' = NoPass
      BY <1>5, <3>2 DEF NoPass, PassSeeds
    <3>3. CASE pass' = [pass EXCEPT !.pc = "skip", !.listing = {}, !.fresh = FALSE]
      BY <1>0, <1>5, <3>3 DEF Pass, PassSeeds
    <3> QED BY <3>1, <3>2, <3>3
  <2> QED BY <1>1, <2>1 DEF SeenInv
<1>6. CASE PassClaims
  <2>1. PICK i \in pass.todo : /\ pass'.pc = "insert" /\ pass'.listing = pass.listing
                               /\ pass'.item = i /\ pass'.todo = pass.todo \ {i}
    BY <1>0, <1>6 DEF PassClaims, Pass
  <2> QED BY <1>0, <1>6, <2>1 DEF SeenInv, InPass, PassClaims, Stored, Answered
<1>7. CASE PassInserts
  <2>1. /\ pass'.pc = "adopt" /\ pass'.listing = pass.listing /\ pass'.todo = pass.todo
    BY <1>0, <1>7 DEF PassInserts, Pass
  <2>2. \A r \in DOMAIN rows' : account[rows'[r].item] # "none"
    <3>1. CASE InsertDownload(NewRowId, pass.item, pass.via)
      BY <1>7, <3>1 DEF SeenInv, PassInserts, InsertDownload, Stored
    <3>2. CASE UNCHANGED rows
      BY <3>2 DEF SeenInv, Stored
    <3> QED BY <1>7, <3>1, <3>2 DEF PassInserts
  <2> QED BY <1>0, <2>1, <2>2 DEF SeenInv, InPass, Stored, Answered
<1> QED BY <1>2, <1>3, <1>4, <1>5, <1>6, <1>7 DEF PassGoesOn

LEMMA SeenHandlers ==
  ASSUME DiscoveryTypeOK, SeenInv, DiscoveryNext, NEW q \in Requests,
         AsksToAdd(q) \/ AsksForRow(q) \/ Handler(q)
  PROVE  SeenInv'
<1>0. /\ requests[q] \in Request /\ UNCHANGED pass
      /\ requests[q].pc # "idle" => requests[q].item \in Items
      /\ Answered(q) => requests[q].new \in Items
      /\ \A p \in Requests \ {q} : requests'[p] = requests[p]
      /\ requests \in [Requests -> Request]
  BY HandlerShape DEF DiscoveryTypeOK, Filled, Answered
<1>1. \A i \in Items : account[i] # "none" => account'[i] # "none"
  BY AccountMoves
<1>2. \A i \in tombstones' : account[i] # "none"
  <2>1. CASE RecordDeletedDownload(q)
    <3>1. requests[q].op = "delete" /\ requests[q].pc # "idle"
      BY <2>1 DEF RecordDeletedDownload, ProviderAsked, At
    <3> QED BY <2>1, <3>1 DEF RecordDeletedDownload, SeenInv
  <2>2. CASE UNCHANGED tombstones
    BY <2>2 DEF SeenInv
  <2> QED
    BY <2>1, <2>2
       DEF Handler, tables, graves, AsksToAdd, AsksForRow, ProviderTakes,
            ProviderRefuses, AddFails, LooksForRow, StoresNew, StoresExisting,
            DeletesAtProvider, DeleteDownload, ReAddDeletesOld, ReAddChecks,
            ReAddDownload
<1>3. \A r \in DOMAIN rows' : rows'[r].item \in Items /\ account[rows'[r].item] # "none"
  <2>0. \A r \in Stored : rows[r].item \in Items /\ account[rows[r].item] # "none"
    BY DEF SeenInv, DiscoveryTypeOK, Row
  <2>1. CASE UNCHANGED rows
    BY <2>0, <2>1 DEF Stored
  <2>2. CASE StoresNew(q)
    <3>1. CASE InsertDownload(NewRowId, requests[q].new, requests[q].op)
      BY <1>0, <2>0, <2>2, <3>1 DEF StoresNew, At, InsertDownload, SeenInv, Answered
    <3> QED BY <2>1, <2>2, <3>1 DEF StoresNew
  <2>3. CASE StoresExisting(q)
    <3>1. CASE rows' = Claimed(requests[q].row)
      BY <2>0, <3>1 DEF Claimed, Stored, DiscoveryTypeOK, Row
    <3> QED BY <2>1, <2>3, <3>1 DEF StoresExisting
  <2>4. CASE DeleteDownload(q)
    BY <2>0, <2>4 DEF DeleteDownload, DropRow
  <2>5. CASE ReAddDownload(q)
    <3>1. CASE rows' = [rows EXCEPT ![requests[q].row].item = requests[q].new]
      BY <1>0, <2>0, <2>5, <3>1 DEF ReAddDownload, At, SeenInv, Answered, Stored,
           DiscoveryTypeOK, Row
    <3> QED BY <2>1, <2>5, <3>1 DEF ReAddDownload
  <2> QED
    BY <2>1, <2>2, <2>3, <2>4, <2>5
       DEF Handler, tables, AsksToAdd, AsksForRow, ProviderTakes, ProviderRefuses,
            AddFails, LooksForRow, DeletesAtProvider, RecordDeletedDownload,
            ReAddDeletesOld, ReAddChecks
<1> DEFINE Named == /\ (requests[q].op = "delete" /\ requests[q].pc # "idle" =>
                           account[requests[q].item] # "none")'
                    /\ (Answered(q) => account[requests[q].new] # "none")'
<1>4. Named
  <2>1. CASE AsksToAdd(q)
    <3>1. requests'[q].op \in Adds /\ requests'[q].pc = "asked"
      BY <1>0, <2>1 DEF AsksToAdd, NoRequest
    <3> QED BY <3>1 DEF Adds, Answered
  <2>2. CASE AsksForRow(q)
    <3>1. PICK r \in Stored : /\ requests'[q].item = rows[r].item
                              /\ requests'[q].pc = "asked"
      BY <1>0, <2>2 DEF AsksForRow, NoRequest
    <3> QED BY <1>1, <3>1 DEF SeenInv, Answered, DiscoveryTypeOK, Row
  <2>3. CASE Ends(q) \/ \E op, r : Answers(q, op, r)
    <3>1. requests'[q].pc = "idle"
      <4>1. CASE Ends(q)
        BY <1>0, <4>1 DEF Ends, NoRequest
      <4>2. ASSUME NEW op, NEW r, Answers(q, op, r) PROVE requests'[q].pc = "idle"
        BY <1>0, <4>2 DEF Answers, NoRequest
      <4> QED BY <2>3, <4>1, <4>2
    <3> QED BY <3>1 DEF Answered
  <2>4. CASE ProviderTakes(q)
    <3>1. PICK i \in Items, pc \in {"replied", "lost"} :
            /\ account' = [account EXCEPT ![i] = "present"]
            /\ requests' = [requests EXCEPT ![q].pc = pc, ![q].new = i]
            /\ requests[q].op # "delete"
      BY <2>4 DEF ProviderTakes, At, Adds
    <3>2. requests'[q].new = i /\ requests'[q].op # "delete"
      BY <1>0, <3>1 DEF Request
    <3> QED BY <3>1, <3>2 DEF DiscoveryTypeOK
  <2>5. ASSUME NEW pc, Goes(q, pc), requests[q].pc # "idle",
               pc \in {"replied", "store", "check", "update"} =>
                 Answered(q)
        PROVE  Named
    <3>1. requests'[q] = [requests[q] EXCEPT !.pc = pc]
      BY <1>0, <2>5 DEF Goes
    <3>2. /\ requests'[q].pc = pc /\ requests'[q].op = requests[q].op
          /\ requests'[q].item = requests[q].item /\ requests'[q].new = requests[q].new
      BY <1>0, <3>1 DEF Request
    <3>3. requests'[q].op = "delete" => account'[requests[q].item] # "none"
      BY <1>0, <1>1, <2>5, <3>2 DEF SeenInv
    <3>4. Answered(q)' => Answered(q)
      BY <2>5, <3>2 DEF Answered
    <3>5. Answered(q) => account'[requests[q].new] # "none"
      BY <1>0, <1>1 DEF SeenInv
    <3> QED BY <3>2, <3>3, <3>4, <3>5
  <2>6. CASE LooksForRow(q) /\ ~Goes(q, "store")
    <3>1. PICK r : requests' = [requests EXCEPT ![q].pc = "store", ![q].row = r]
      BY <2>6 DEF LooksForRow
    <3>2. /\ requests'[q].op = requests[q].op /\ requests'[q].new = requests[q].new
          /\ requests[q].op # "delete" /\ requests[q].pc = "replied"
      BY <1>0, <2>6, <3>1 DEF Request, LooksForRow, At, Adds
    <3>3. Answered(q)
      BY <3>2 DEF Answered
    <3>4. account'[requests[q].new] # "none"
      BY <1>0, <1>1, <3>3 DEF SeenInv
    <3> QED BY <3>2, <3>4
  <2>7. CASE Handler(q)
    <3>1. requests[q].pc # "idle"
      BY <2>7 DEF Handler, At, ProviderAsked, ProviderTakes, ProviderRefuses, AddFails,
           LooksForRow, StoresNew, StoresExisting, DeletesAtProvider,
           RecordDeletedDownload, DeleteDownload, ReAddDeletesOld, ReAddChecks,
           ReAddDownload
    <3>2. CASE LooksForRow(q) \/ ReAddDeletesOld(q) \/ ReAddChecks(q)
      BY <2>3, <2>5, <2>6, <3>1, <3>2 DEF LooksForRow, ReAddDeletesOld, ReAddChecks,
           At, Answered
    <3>3. CASE \/ ProviderRefuses(q) \/ AddFails(q) \/ StoresNew(q) \/ StoresExisting(q)
               \/ DeletesAtProvider(q) \/ RecordDeletedDownload(q) \/ DeleteDownload(q)
               \/ ReAddDownload(q)
      BY <2>3, <2>5, <3>1, <3>3
         DEF ProviderRefuses, AddFails, StoresNew, StoresExisting, DeletesAtProvider,
              RecordDeletedDownload, DeleteDownload, ReAddDownload
    <3> QED BY <2>4, <2>7, <3>2, <3>3 DEF Handler
  <2> QED BY <2>1, <2>2, <2>7
<1> HIDE DEF Named
<1>5. /\ pass.listing \cup pass.todo \cup tombstones' \subseteq Items
      /\ InPass("insert") => pass.item \in Items
      /\ \A p \in Requests : /\ requests[p].pc # "idle" => requests[p].item \in Items
                            /\ Answered(p) =>
                                 requests[p].new \in Items
  <2>1. tombstones' \subseteq tombstones \cup {requests[q].item}
    BY DEF Handler, tables, graves, AsksToAdd, AsksForRow, ProviderTakes,
         ProviderRefuses, AddFails, LooksForRow, StoresNew, StoresExisting,
         DeletesAtProvider, RecordDeletedDownload, DeleteDownload, ReAddDeletesOld,
         ReAddChecks, ReAddDownload
  <2>2. tombstones' = tombstones \/ requests[q].pc # "idle"
    BY DEF Handler, tables, graves, At, ProviderAsked, AsksToAdd, AsksForRow,
         ProviderTakes, ProviderRefuses, AddFails, LooksForRow, StoresNew,
         StoresExisting, DeletesAtProvider, RecordDeletedDownload, DeleteDownload,
         ReAddDeletesOld, ReAddChecks, ReAddDownload
  <2> QED BY <1>0, <2>1, <2>2 DEF DiscoveryTypeOK, Filled, InPass, Pass, Answered
<1>6. ASSUME NEW p \in Requests, p # q
      PROVE  /\ (requests[p].op = "delete" /\ requests[p].pc # "idle" =>
                    account[requests[p].item] # "none")'
             /\ (Answered(p) => account[requests[p].new] # "none")'
  <2>1. requests'[p] = requests[p] /\ (Answered(p)' => Answered(p))
    BY <1>0, <1>6 DEF Answered
  <2>2. requests[p].op = "delete" /\ requests[p].pc # "idle" =>
          account'[requests[p].item] # "none"
    BY <1>1, <1>5, SeenRequest
  <2>3. Answered(p) => account'[requests[p].new] # "none"
    BY <1>1, <1>5, SeenRequest
  <2> QED BY <2>1, <2>2, <2>3
<1>7. /\ \A i \in tombstones' \cup pass.listing \cup pass.todo : account'[i] # "none"
      /\ InPass("insert") => account'[pass.item] # "none"
  BY <1>1, <1>2, <1>5 DEF SeenInv
<1>8. \A r \in DOMAIN rows' : account'[rows'[r].item] # "none"
  BY <1>1, <1>3
<1> QED BY <1>0, <1>4, <1>6, <1>7, <1>8 DEF Named, SeenInv, InPass, Stored

LEMMA SeenStep == DiscoveryTypeOK /\ SeenInv /\ [DiscoveryNext]_vars => SeenInv'
<1> SUFFICES ASSUME DiscoveryTypeOK, SeenInv, [DiscoveryNext]_vars PROVE SeenInv'
  OBVIOUS
<1>1. CASE UNCHANGED vars
  BY <1>1 DEF vars, tables, graves, SeenInv, InPass, Stored, Answered
<1>2. ASSUME DiscoveryNext, NEW i \in Items, ItemAppears(i) \/ ItemGoes(i) \/ TombstoneExpires(i)
      PROVE  SeenInv'
  <2>1. \A j \in Items : account[j] # "none" => account'[j] # "none"
    BY <1>2, AccountMoves
  <2>2. UNCHANGED <<pass, requests, rows>> /\ tombstones' \subseteq tombstones
    BY <1>2 DEF ItemAppears, ItemGoes, TombstoneExpires, tables, graves
  <2>3. /\ pass.listing \cup pass.todo \cup tombstones \subseteq Items
        /\ InPass("insert") => pass.item \in Items
        /\ \A r \in Stored : rows[r].item \in Items
        /\ \A p \in Requests : /\ requests[p].pc # "idle" => requests[p].item \in Items
                              /\ Answered(p) =>
                                   requests[p].new \in Items
    BY DEF DiscoveryTypeOK, Filled, InPass, Pass, Row, Answered
  <2>4. /\ \A j \in tombstones' \cup pass.listing \cup pass.todo : account'[j] # "none"
        /\ InPass("insert") => account'[pass.item] # "none"
        /\ \A r \in Stored : account'[rows[r].item] # "none"
    BY <2>1, <2>2, <2>3 DEF SeenInv
  <2>5. \A p \in Requests :
          /\ requests[p].op = "delete" /\ requests[p].pc # "idle" =>
               account'[requests[p].item] # "none"
          /\ Answered(p) =>
               account'[requests[p].new] # "none"
    BY <2>1, <2>3, SeenRequest
  <2> QED BY <2>2, <2>4, <2>5 DEF SeenInv, InPass, Stored, Answered
<1>3. CASE \E c \in Contents : IntentsExpire(c)
  BY <1>3 DEF IntentsExpire, graves, SeenInv, InPass, Stored, Answered
<1>4. CASE Restart
  <2>1. /\ pass'.listing = {} /\ pass'.todo = {} /\ pass'.pc = "idle"
        /\ \A q \in Requests : requests'[q].pc = "idle"
        /\ UNCHANGED <<account, rows, tombstones>>
    BY <1>4 DEF Restart, NoPass, NoRequest, tables, graves
  <2> QED BY <2>1 DEF SeenInv, InPass, Stored, Answered
<1> QED BY <1>1, <1>2, <1>3, <1>4, SeenPass, SeenHandlers DEF DiscoveryNext

\* The pass compares what it is going to adopt with the tombstones.
LEMMA GhostPass ==
  ASSUME DiscoveryTypeOK, GhostInv,
         PassBegins \/ PassLists \/ PassListFails \/ PassGoesOn
  PROVE  GhostInv'
<1>0. /\ pass \in Pass
      /\ UNCHANGED <<account, tombstones, lasting, requests, deleted>>
  BY DEF DiscoveryTypeOK, tables, graves, PassBegins, PassLists, PassListFails,
       PassGoesOn, PassReadsRows, PassSeeds, PassSkips, PassClaims, PassInserts,
       PassEnds
<1>1. ASSUME pass'.listing \cup pass'.todo \subseteq pass.listing \cup pass.todo \cup Listed,
             pass'.gone \subseteq pass.gone \cup deleted,
             pass'.pc = "insert" => pass'.todo \cap pass'.gone = {},
             NoGhosts'
      PROVE  GhostInv'
  <2>1. \A i : Buried(i) => Buried(i)'
    BY <1>0, <1>1 DEF Buried, Vanished, Listed
  <2>2. \A i : Going(i) => Going(i)'
    BY <1>0 DEF Going
  <2> QED BY <1>0, <1>1, <2>1, <2>2 DEF GhostInv, At, InPass
<1>2. ASSUME pass'.pc \notin {"adopt", "insert"} PROVE NoGhosts'
  BY <1>2 DEF NoGhosts, InPass
<1>3. CASE PassBegins \/ PassListFails \/ PassEnds
  <2>1. /\ pass'.listing = {} /\ pass'.todo = {} /\ pass'.gone = {}
        /\ pass'.pc \notin {"adopt", "insert"}
    <3>1. CASE PassBegins
      BY <3>1 DEF PassBegins, NoPass
    <3>2. CASE PassListFails \/ PassEnds
      BY <3>2 DEF PassListFails, PassEnds, NoPass
    <3> QED BY <1>3, <3>1, <3>2
  <2> QED BY <1>1, <1>2, <2>1
<1>4. CASE PassLists \/ PassReadsRows
  <2>1. /\ pass'.listing \in {Listed, pass.listing}
        /\ pass'.todo \subseteq pass.listing \cup pass.todo
        /\ pass'.gone \in {pass.gone, deleted} /\ pass'.pc \notin {"adopt", "insert"}
    <3>1. CASE PassLists
      BY <1>0, <3>1 DEF PassLists, Pass
    <3>2. CASE PassReadsRows
      BY <1>0, <3>2 DEF PassReadsRows, Pass
    <3> QED BY <1>4, <3>1, <3>2
  <2> QED BY <1>1, <1>2, <2>1
<1>5. CASE PassSeeds
  <2>1. /\ pass'.listing = {} /\ pass'.todo \subseteq pass.todo
        /\ pass'.gone \subseteq pass.gone /\ pass'.pc \notin {"adopt", "insert"}
    <3>1. \/ pass' = NoPass
          \/ pass' = [pass EXCEPT !.pc = "skip", !.listing = {}, !.fresh = FALSE]
      BY <1>5 DEF PassSeeds, AfterSeeding
    <3>2. CASE pass' = NoPass
      BY <3>2 DEF NoPass
    <3>3. CASE pass' = [pass EXCEPT !.pc = "skip", !.listing = {}, !.fresh = FALSE]
      BY <1>0, <3>3 DEF Pass
    <3> QED BY <3>1, <3>2, <3>3
  <2> QED BY <1>1, <1>2, <2>1
<1>6. CASE PassSkips
  <2>1. /\ pass'.pc = "adopt" /\ pass'.gone = pass.gone /\ pass'.listing = pass.listing
        /\ pass'.todo = pass.todo \ (baseline \cup tombstones)
    BY <1>0, <1>6 DEF PassSkips, Pass
  <2>2. \A i \in pass.gone \cap pass.todo : i \in tombstones
    BY DEF GhostInv, Buried, Vanished
  <2> QED BY <1>1, <2>1, <2>2 DEF NoGhosts, InPass
<1>7. CASE PassClaims
  <2>1. PICK i \in pass.todo :
          /\ pass'.pc = "insert" /\ pass'.gone = pass.gone /\ pass'.listing = pass.listing
          /\ pass'.item = i /\ pass'.todo = pass.todo \ {i}
    BY <1>0, <1>7 DEF PassClaims, Pass
  <2> QED BY <1>1, <1>7, <2>1 DEF GhostInv, NoGhosts, InPass, PassClaims
<1>8. CASE PassInserts
  <2>1. /\ pass'.pc = "adopt" /\ pass'.gone = pass.gone /\ pass'.listing = pass.listing
        /\ pass'.todo = pass.todo
    BY <1>0, <1>8 DEF PassInserts, Pass
  <2> QED BY <1>1, <1>8, <2>1 DEF GhostInv, NoGhosts, InPass, PassInserts
<1> QED BY <1>3, <1>4, <1>5, <1>6, <1>7, <1>8 DEF PassGoesOn

\* What is buried stays so under every step of a request, and only a delete
\* with a tombstone takes a row away.
LEMMA GhostHandlers ==
  ASSUME DiscoveryTypeOK, SeenInv, GhostInv, DiscoveryNext, NEW q \in Requests,
         AsksToAdd(q) \/ AsksForRow(q) \/ Handler(q)
  PROVE  GhostInv'
<1>0. /\ requests \in [Requests -> Request] /\ UNCHANGED pass
      /\ \A p \in Requests \ {q} : requests'[p] = requests[p]
      /\ tombstones \subseteq Items /\ deleted \subseteq Items /\ pass.gone \subseteq Items
      /\ \A p \in Requests : requests[p].pc # "idle" => requests[p].item \in Items
  BY HandlerShape DEF DiscoveryTypeOK, Filled, Pass
<1>1. tombstones \subseteq tombstones'
  BY DEF Handler, tables, graves, AsksToAdd, AsksForRow, ProviderTakes,
       ProviderRefuses, AddFails, LooksForRow, StoresNew, StoresExisting,
       DeletesAtProvider, RecordDeletedDownload, DeleteDownload, ReAddDeletesOld,
       ReAddChecks, ReAddDownload
<1>2. \A i \in Items : (Buried(i) => Buried(i)') /\ (Going(i) => Going(i)')
  BY <1>0, <1>1, AccountMoves DEF Buried, Vanished
<1> USE DEF Buried, Vanished, Going
<1>3. ASSUME UNCHANGED <<tombstones, lasting>>, deleted' \subseteq deleted,
             requests'[q].pc # "row",
             (At(q, {"delete"}, "confirmed") => Going(requests[q].item))'
      PROVE  GhostInv'
  <2>1. \A i \in deleted' \cup pass'.gone : Buried(i)'
    BY <1>0, <1>2, <1>3 DEF GhostInv
  <2>2. \A p \in Requests : (At(p, {"delete"}, "row") => Buried(requests[p].item))'
    BY <1>0, <1>2, <1>3 DEF GhostInv, At
  <2>3. \A p \in Requests : (At(p, {"delete"}, "confirmed") => Going(requests[p].item))'
    BY <1>0, <1>2, <1>3 DEF GhostInv, At
  <2>4. \A i \in tombstones' \ lasting' : Going(i)'
    BY <1>0, <1>2, <1>3 DEF GhostInv
  <2> QED BY <1>0, <2>1, <2>2, <2>3, <2>4 DEF GhostInv, NoGhosts, InPass
<1>4. CASE RecordDeletedDownload(q)
  <2>0. PICK i \in Items : i = requests[q].item
    BY <1>0, <1>4 DEF RecordDeletedDownload, ProviderAsked, At
  <2>1. /\ tombstones' = tombstones \cup {i} /\ UNCHANGED deleted
        /\ lasting' = IF requests[q].pc = "confirmed" THEN lasting \ {i} ELSE lasting \cup {i}
        /\ requests[q].op = "delete" /\ requests[q].pc # "idle"
    BY <1>4, <2>0 DEF RecordDeletedDownload, ProviderAsked, At
  <2>2. requests'[q].item = i /\ requests'[q].pc = "row"
    BY <1>0, <1>4, <2>0 DEF RecordDeletedDownload, Goes, Request
  <2>3. requests[q].pc = "confirmed" => Going(i)'
    BY <1>0, <1>2, <2>0, <2>1 DEF GhostInv, At
  <2>4. \A j \in deleted' \cup pass'.gone : Buried(j)'
    BY <1>0, <1>2, <2>1 DEF GhostInv
  <2>5. \A p \in Requests : (At(p, {"delete"}, "row") => Buried(requests[p].item))'
    BY <1>0, <1>2, <2>1, <2>2 DEF GhostInv, At, Buried
  <2>6. \A p \in Requests : (At(p, {"delete"}, "confirmed") => Going(requests[p].item))'
    BY <1>0, <1>2, <2>2 DEF GhostInv, At
  <2>7. \A j \in tombstones' \ lasting' : Going(j)'
    BY <1>0, <1>2, <2>1, <2>3 DEF GhostInv
  <2> QED BY <1>0, <2>4, <2>5, <2>6, <2>7 DEF GhostInv, NoGhosts, InPass
<1>5. CASE DeleteDownload(q)
  <2>1. /\ deleted' \subseteq deleted \cup {requests[q].item}
        /\ UNCHANGED <<tombstones, lasting>>
    BY <1>5 DEF DeleteDownload, graves
  <2>2. \A i \in Items : i = requests[q].item => Buried(i)'
    BY <1>0, <1>2, <1>5 DEF DeleteDownload, GhostInv, At
  <2>3. requests'[q].pc = "idle"
    BY <1>0, <1>5 DEF DeleteDownload, Ends, NoRequest
  <2>4. \A j \in deleted' \cup pass'.gone : Buried(j)'
    <3>1. requests[q].item \in Items
      BY <1>0, <1>5 DEF DeleteDownload, At
    <3>2. \A j \in deleted \cup pass.gone : Buried(j)'
      BY <1>0, <1>2 DEF GhostInv
    <3>3. deleted' \cup pass'.gone \subseteq deleted \cup pass.gone \cup {requests[q].item}
      BY <1>0, <2>1
    <3> HIDE DEF Buried
    <3> QED BY <2>2, <3>1, <3>2, <3>3
  <2>5. \A p \in Requests : (At(p, {"delete"}, "row") => Buried(requests[p].item))'
    BY <1>0, <1>2, <2>3 DEF GhostInv, At
  <2>6. \A p \in Requests : (At(p, {"delete"}, "confirmed") => Going(requests[p].item))'
    BY <1>0, <1>2, <2>3 DEF GhostInv, At
  <2>7. \A j \in tombstones' \ lasting' : Going(j)'
    BY <1>0, <1>2, <2>1 DEF GhostInv
  <2> QED BY <1>0, <2>4, <2>5, <2>6, <2>7 DEF GhostInv, NoGhosts, InPass
<1>6. CASE DeletesAtProvider(q)
  <2>1. UNCHANGED <<tombstones, lasting, deleted>>
    BY <1>6 DEF DeletesAtProvider, tables, graves
  <2>2. CASE Goes(q, "confirmed") /\ DeletesItem(requests[q].item)
    <3>1. requests'[q].pc = "confirmed" /\ requests'[q].item = requests[q].item
      BY <1>0, <2>2 DEF Goes, Request
    <3>2. requests[q].item \in Items /\ account[requests[q].item] # "none"
      BY <1>0, <1>6 DEF DeletesAtProvider, At, SeenInv
    <3>3. account'[requests[q].item] \in {"leaving", "gone"}
      BY <2>2, <3>2 DEF DeletesItem, Going, DiscoveryTypeOK
    <3> QED BY <1>3, <2>1, <3>1, <3>3
  <2>3. CASE Goes(q, "unconfirmed")
    <3>1. requests'[q].pc = "unconfirmed"
      BY <1>0, <2>3 DEF Goes
    <3> QED BY <1>3, <2>1, <3>1 DEF At
  <2> QED BY <1>6, <2>2, <2>3 DEF DeletesAtProvider
<1>7. CASE ~RecordDeletedDownload(q) /\ ~DeleteDownload(q) /\ ~DeletesAtProvider(q)
  <2>1. deleted' \subseteq deleted /\ UNCHANGED <<tombstones, lasting>>
    BY <1>7 DEF Handler, tables, graves, AsksToAdd, AsksForRow, ProviderTakes,
         ProviderRefuses, AddFails, LooksForRow, StoresNew, StoresExisting,
         ReAddDeletesOld, ReAddChecks, ReAddDownload
  <2>2. requests'[q].pc \notin {"row", "confirmed"}
    <3>1. CASE AsksToAdd(q) \/ AsksForRow(q)
      <4>1. requests'[q].pc = "asked"
        BY <1>0, <3>1 DEF AsksToAdd, AsksForRow, NoRequest
      <4> QED BY <4>1
    <3>2. CASE Handler(q)
      <4>1. CASE Ends(q)
        BY <1>0, <4>1 DEF Ends, NoRequest
      <4>2. ASSUME NEW op, NEW r, Answers(q, op, r) PROVE requests'[q].pc = "idle"
        BY <1>0, <4>2 DEF Answers, NoRequest
      <4>3. CASE \E pc \in {"lost", "store", "check", "update"} : Goes(q, pc)
        BY <1>0, <4>3 DEF Goes, Request
      <4>4. CASE ProviderTakes(q) \/ LooksForRow(q)
        BY <1>0, <4>4 DEF ProviderTakes, LooksForRow, Goes, Request
      <4> QED
        BY <1>7, <3>2, <4>1, <4>2, <4>3, <4>4
           DEF Handler, ProviderRefuses, AddFails, StoresNew, StoresExisting,
                ReAddDeletesOld, ReAddChecks, ReAddDownload
    <3> QED BY <3>1, <3>2
  <2> QED BY <1>3, <2>1, <2>2 DEF At
<1> QED BY <1>4, <1>5, <1>6, <1>7

\* A tombstone goes when its item is gone and no pass still lists it.
LEMMA GhostExpiry ==
  ASSUME DiscoveryTypeOK, SeenInv, GhostInv, NEW i \in Items, TombstoneExpires(i)
  PROVE  GhostInv'
<1>0. /\ tombstones' = tombstones \ {i} /\ lasting' = lasting \ {i}
      /\ UNCHANGED <<account, requests, pass, deleted>>
  BY DEF TombstoneExpires
<1>1. Vanished(i)
  <2>1. /\ i \in tombstones /\ i \notin pass.listing \cup pass.todo
        /\ account[i] \in {"none", "present", "leaving", "gone"} /\ account[i] # "none"
    BY DEF TombstoneExpires, SeenInv, DiscoveryTypeOK
  <2>2. i \in lasting => account[i] \notin {"present", "leaving"}
    BY DEF TombstoneExpires, Listed
  <2>3. i \notin lasting => account[i] = "gone"
    BY <2>1 DEF TombstoneExpires, GhostInv, Going
  <2> QED BY <2>1, <2>2, <2>3 DEF Vanished
<1>2. \A j : (Buried(j) => Buried(j)') /\ (Going(j) => Going(j)')
  BY <1>0, <1>1 DEF Buried, Vanished, Going
<1>3. \A j \in tombstones' \ lasting' : Going(j)'
  BY <1>0, <1>2 DEF GhostInv
<1> QED BY <1>0, <1>2, <1>3 DEF GhostInv, NoGhosts, InPass, At

LEMMA GhostStep ==
  DiscoveryTypeOK /\ SeenInv /\ GhostInv /\ [DiscoveryNext]_vars => GhostInv'
<1> SUFFICES ASSUME DiscoveryTypeOK, SeenInv, GhostInv, [DiscoveryNext]_vars PROVE GhostInv'
  OBVIOUS
<1>1. CASE UNCHANGED vars \/ \E c \in Contents : IntentsExpire(c)
  <2>1. UNCHANGED <<account, tombstones, lasting, requests, pass, deleted>>
    BY <1>1 DEF vars, tables, graves, IntentsExpire
  <2>2. \A j : (Buried(j) => Buried(j)') /\ (Going(j) => Going(j)')
    BY <2>1 DEF Buried, Vanished, Going
  <2> QED BY <2>1, <2>2 DEF GhostInv, NoGhosts, InPass, At
<1>2. ASSUME DiscoveryNext, NEW i \in Items, ItemAppears(i) \/ ItemGoes(i) PROVE GhostInv'
  <2>1. UNCHANGED <<tombstones, lasting, requests, pass, deleted>>
    BY <1>2 DEF ItemAppears, ItemGoes, tables, graves
  <2>2. \A j \in Items : (Buried(j) => Buried(j)') /\ (Going(j) => Going(j)')
    BY <1>2, <2>1, AccountMoves DEF Buried, Vanished
  <2>3. /\ tombstones \subseteq Items /\ deleted \subseteq Items /\ pass.gone \subseteq Items
        /\ \A p \in Requests : requests[p].pc # "idle" => requests[p].item \in Items
    BY DEF DiscoveryTypeOK, Filled, Pass
  <2>4. /\ \A j \in deleted \cup pass.gone : Buried(j)'
        /\ \A j \in tombstones \ lasting : Going(j)'
    BY <2>2, <2>3 DEF GhostInv
  <2>5. \A p \in Requests :
          /\ At(p, {"delete"}, "row") => Buried(requests[p].item)'
          /\ At(p, {"delete"}, "confirmed") => Going(requests[p].item)'
    BY <2>1, <2>2, <2>3 DEF GhostInv, At, Buried, Vanished, Going
  <2> QED BY <2>1, <2>4, <2>5 DEF GhostInv, NoGhosts, InPass, At, Buried, Vanished, Going
<1>3. CASE Restart
  <2>1. /\ pass'.pc = "idle" /\ pass'.gone = {} /\ pass'.listing = {} /\ pass'.todo = {}
        /\ UNCHANGED <<account, tombstones, lasting, deleted>>
        /\ \A q \in Requests : requests'[q].pc = "idle"
    BY <1>3 DEF Restart, tables, graves, NoPass, NoRequest
  <2>2. \A j : (Buried(j) => Buried(j)') /\ (Going(j) => Going(j)')
    BY <2>1 DEF Buried, Vanished, Going
  <2> QED BY <2>1, <2>2 DEF GhostInv, NoGhosts, InPass, At
<1> QED BY <1>1, <1>2, <1>3, GhostPass, GhostHandlers, GhostExpiry DEF DiscoveryNext

\* No pass adopts what had been deleted when it read the rows, whatever the
\* listings still show (discoverManual, RecordDeletedDownload).
THEOREM GhostsStayAway == DiscoverySpec => []NoGhosts
<1>1. GhostInv => NoGhosts
  BY DEF GhostInv
<1> QED BY <1>1, GhostInit, SeenStep, GhostStep, DiscoveryTypes, PTL DEF DiscoverySpec

-------------------------------------------------------------------------------
(***************************************************************************)
(* Managed rows.  A row id is given out once nothing refers to it, only    *)
(* claims rewrite how a row was added, and only ended requests answer.     *)
(***************************************************************************)
ManagedInv ==
  /\ ArrRowsAreManaged
  /\ \A q \in Requests : requests[q].pc # "idle" => ~requests[q].ok

\* A row that stays keeps being Managed, and a new one is nobody's yet.
KeepsManaged ==
  \A x \in DOMAIN rows' :
    \/ x \in Stored /\ (rows[x].via = "arr" => rows'[x].via = "arr")
    \/ x \notin {requests[q].row : q \in Requests}

LEMMA InsertKeepsManaged ==
  ASSUME DiscoveryTypeOK, NEW i \in Items, NEW via \in {"arr", "manual"},
         UnusedRowIds # {}, InsertDownload(NewRowId, i, via)
  PROVE  KeepsManaged /\ NewRowId \in DOMAIN rows' /\ rows'[NewRowId].via = via
<1>1. NewRowId \in UnusedRowIds
  BY NewRowIdUnused
<1>2. NewRowId \in RowIds
  BY <1>1 DEF UnusedRowIds
<1>3. /\ DOMAIN rows' = Stored \cup {NewRowId}
      /\ rows'[NewRowId] = [item |-> i, via |-> via]
      /\ \A x \in Stored \ {NewRowId} : rows'[x] = rows[x]
  BY <1>2 DEF InsertDownload, Stored
<1> QED BY <1>1, <1>3 DEF KeepsManaged, UnusedRowIds

\* What each step does to the rows.
LEMMA RowsKeepManaged ==
  ASSUME DiscoveryTypeOK, DiscoveryNext
  PROVE  KeepsManaged
<1> USE DEF Stored
<1>1. CASE UNCHANGED rows
  BY <1>1 DEF KeepsManaged
<1>2. CASE PassInserts
  <2>1. pass.item \in Items /\ pass.via \in {"arr", "manual"}
    BY <1>2 DEF PassInserts, InPass, DiscoveryTypeOK, Filled, Pass
  <2> QED BY <1>1, <1>2, <2>1, InsertKeepsManaged DEF PassInserts
<1>3. ASSUME NEW q \in Requests, StoresNew(q) PROVE KeepsManaged
  <2>1. requests[q].new \in Items /\ requests[q].op \in {"arr", "manual"}
    BY <1>3 DEF StoresNew, At, Adds, DiscoveryTypeOK, Filled
  <2> QED BY <1>1, <1>3, <2>1, InsertKeepsManaged DEF StoresNew
<1>4. ASSUME NEW q \in Requests, StoresExisting(q) PROVE KeepsManaged
  <2>1. CASE rows' = Claimed(requests[q].row)
    BY <2>1 DEF Claimed, KeepsManaged, DiscoveryTypeOK, Row
  <2> QED BY <1>1, <1>4, <2>1 DEF StoresExisting
<1>5. ASSUME NEW q \in Requests, DeleteDownload(q) PROVE KeepsManaged
  BY <1>5 DEF DeleteDownload, DropRow, KeepsManaged
<1>6. ASSUME NEW q \in Requests, ReAddDownload(q) PROVE KeepsManaged
  <2>1. CASE rows' = [rows EXCEPT ![requests[q].row].item = requests[q].new]
    BY <2>1 DEF KeepsManaged, DiscoveryTypeOK, Row
  <2> QED BY <1>1, <1>6, <2>1 DEF ReAddDownload
<1> QED
  BY <1>1, <1>2, <1>3, <1>4, <1>5, <1>6
     DEF DiscoveryNext, Handler, tables, graves, PassBegins, PassLists, PassListFails,
          PassGoesOn, PassReadsRows, PassSeeds, PassSkips, PassClaims, PassEnds,
          AsksToAdd, AsksForRow, ProviderTakes, ProviderRefuses, AddFails, LooksForRow,
          DeletesAtProvider, RecordDeletedDownload, ReAddDeletesOld, ReAddChecks,
          ItemAppears, ItemGoes, TombstoneExpires, IntentsExpire, Restart

\* What each step does to a slot: it answers an *arr app with a Managed row,
\* or has not answered yet.
LEMMA SlotsManaged ==
  ASSUME DiscoveryTypeOK, ManagedInv, DiscoveryNext, NEW q \in Requests,
         requests'[q] # requests[q]
  PROVE  /\ requests'[q].pc # "idle" => ~requests'[q].ok
         /\ requests'[q].op = "arr" /\ requests'[q].ok =>
              /\ requests'[q].row \in DOMAIN rows'
              /\ rows'[requests'[q].row].via = "arr"
<1> DEFINE Unanswered == requests'[q].ok = FALSE
<1>0. requests \in [Requests -> Request]
  BY DEF DiscoveryTypeOK
<1>1. CASE AsksToAdd(q) \/ AsksForRow(q)
  <2>1. Unanswered
    BY <1>0, <1>1 DEF AsksToAdd, AsksForRow, NoRequest
  <2> QED BY <2>1
<1>2. CASE Handler(q)
  <2>1. requests[q].pc # "idle" /\ requests[q].ok = FALSE
    BY <1>0, <1>2 DEF ManagedInv, Request, Handler, At, ProviderAsked, ProviderTakes,
         ProviderRefuses, AddFails, LooksForRow, StoresNew, StoresExisting,
         DeletesAtProvider, RecordDeletedDownload, DeleteDownload, ReAddDeletesOld,
         ReAddChecks, ReAddDownload
  <2>2. CASE Ends(q)
    <3>1. Unanswered
      BY <1>0, <2>2 DEF Ends, NoRequest
    <3> QED BY <3>1
  <2>3. CASE \E pc \in {"lost", "store", "confirmed", "unconfirmed", "check",
                        "update", "row"} : Goes(q, pc)
    <3>1. Unanswered
      BY <1>0, <2>1, <2>3 DEF Goes, Request
    <3> QED BY <3>1
  <2>4. CASE ProviderTakes(q) \/ LooksForRow(q)
    <3>1. Unanswered
      BY <1>0, <2>1, <2>4 DEF ProviderTakes, LooksForRow, Goes, Request
    <3> QED BY <3>1
  <2>5. CASE StoresNew(q) /\ Answers(q, "arr", NewRowId)
    <3>1. requests'[q].row = NewRowId /\ requests'[q].pc = "idle"
      BY <1>0, <2>5 DEF Answers, NoRequest
    <3>2. requests[q].new \in Items /\ requests[q].op \in {"arr", "manual"}
      BY <2>5 DEF StoresNew, At, Adds, DiscoveryTypeOK, Filled
    <3>3. CASE Ends(q)
      BY <2>2, <3>3
    <3>4. CASE ~Ends(q)
      <4>1. /\ UnusedRowIds # {} /\ requests[q].op = "arr"
            /\ InsertDownload(NewRowId, requests[q].new, "arr")
        BY <2>5, <3>4 DEF StoresNew
      <4> QED BY <3>1, <3>2, <4>1, InsertKeepsManaged
    <3> QED BY <3>3, <3>4
  <2>6. CASE StoresExisting(q) /\ ~Ends(q)
    <3> DEFINE r == requests[q].row
    <3>1. r \in Stored /\ rows' = Claimed(r) /\ Answers(q, "arr", r)
      BY <2>6 DEF StoresExisting
    <3>2. requests'[q].row = r /\ requests'[q].pc = "idle"
      BY <1>0, <3>1 DEF Answers, NoRequest
    <3>3. r \in DOMAIN rows' /\ rows'[r].via = "arr"
      BY <3>1 DEF Claimed, DiscoveryTypeOK, Row, Stored
    <3> QED BY <3>2, <3>3
  <2>7. CASE Answers(q, "readd", requests[q].row)
    <3>1. requests'[q].op = "readd" /\ requests'[q].pc = "idle"
      BY <1>0, <2>7 DEF Answers, NoRequest
    <3> QED BY <3>1
  <2> QED
    BY <1>2, <2>2, <2>3, <2>4, <2>5, <2>6, <2>7
       DEF Handler, ProviderRefuses, AddFails, StoresNew, DeletesAtProvider,
            RecordDeletedDownload, DeleteDownload, ReAddDeletesOld, ReAddChecks,
            ReAddDownload
<1>3. CASE Restart
  <2>1. Unanswered
    BY <1>3 DEF Restart, NoRequest
  <2> QED BY <2>1
<1>4. ASSUME NEW p \in Requests, p # q, AsksToAdd(p) \/ AsksForRow(p) \/ Handler(p)
      PROVE  FALSE
  <2>1. \E r : requests' = [requests EXCEPT ![p] = r]
    <3>1. CASE AsksToAdd(p) \/ AsksForRow(p)
      BY <3>1 DEF AsksToAdd, AsksForRow
    <3>2. CASE Handler(p)
      BY <3>2 DEF Handler, Goes, Ends, Answers, ProviderTakes, ProviderRefuses,
           AddFails, LooksForRow, StoresNew, StoresExisting, DeletesAtProvider,
           RecordDeletedDownload, DeleteDownload, ReAddDeletesOld, ReAddChecks,
           ReAddDownload
    <3> QED BY <1>4, <3>1, <3>2
  <2> QED BY <1>0, <1>4, <2>1
<1> QED
  BY <1>1, <1>2, <1>3, <1>4
     DEF DiscoveryNext, PassBegins, PassLists, PassListFails, PassGoesOn,
          PassReadsRows, PassSeeds, PassSkips, PassClaims, PassInserts, PassEnds,
          ItemAppears, ItemGoes, TombstoneExpires, IntentsExpire

LEMMA ManagedStep == DiscoveryTypeOK /\ ManagedInv /\ [DiscoveryNext]_vars => ManagedInv'
<1> SUFFICES ASSUME DiscoveryTypeOK, ManagedInv, [DiscoveryNext]_vars PROVE ManagedInv'
  OBVIOUS
<1>1. CASE DiscoveryNext
  <2>1. ASSUME NEW q \in Requests, requests'[q] = requests[q],
               requests[q].op = "arr", requests[q].ok, requests[q].row \in DOMAIN rows'
        PROVE  rows'[requests[q].row].via = "arr"
    BY <1>1, <2>1, RowsKeepManaged DEF KeepsManaged, ManagedInv, ArrRowsAreManaged
  <2>2. ASSUME NEW q \in Requests
        PROVE  /\ requests'[q].pc # "idle" => ~requests'[q].ok
               /\ requests'[q].op = "arr" /\ requests'[q].ok /\ requests'[q].row \in DOMAIN rows'
                    => rows'[requests'[q].row].via = "arr"
    BY <1>1, <2>1, SlotsManaged DEF ManagedInv
  <2> QED BY <2>2 DEF ManagedInv, ArrRowsAreManaged, Stored
<1>2. CASE UNCHANGED vars
  BY <1>2 DEF vars, tables, graves, ManagedInv, ArrRowsAreManaged, Stored
<1> QED BY <1>1, <1>2

\* The row an *arr app was told of stays Managed as long as it exists
\* (InsertOrClaimForArr).
THEOREM ArrRowsStayManaged == DiscoverySpec => []ArrRowsAreManaged
<1>1. Init => ManagedInv
  BY DEF Init, NoRequest, ManagedInv, ArrRowsAreManaged
<1>2. ManagedInv => ArrRowsAreManaged
  BY DEF ManagedInv
<1> QED BY <1>1, <1>2, ManagedStep, DiscoveryTypes, PTL DEF DiscoverySpec
===============================================================================
