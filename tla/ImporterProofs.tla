----------------------------- MODULE ImporterProofs ----------------------------
(***************************************************************************)
(* Theorems about the refresh, for any life of a download, any number of   *)
(* rows and both pollers at once, and about the importer as a whole: what  *)
(* is proved of the fetch pool holds beside refresh and watchdog too, and  *)
(* what is proved of the refresh beside dispatch, fetches, sweeps,         *)
(* requests and restarts.                                                  *)
(***************************************************************************)
EXTENDS LateAnswers, FetchPoolProofs

LEMMA LifeTypes ==
  /\ LastRecord \in Nat \ {0}
  /\ \A v \in 1 .. LastRecord :
       /\ Life[v] \in {"queued", "downloading", "completed", "error"}
       /\ LocalStateFromProvider(Life[v]) \in States
<1>1. Life \in Seq({"queued", "downloading", "completed", "error"}) /\ LastRecord > 0
  BY RefreshAssumption DEF RefreshAssumption
<1>2. LastRecord \in Nat \ {0}
  BY <1>1 DEF LastRecord
<1>3. ASSUME NEW v \in 1 .. LastRecord
      PROVE  Life[v] \in {"queued", "downloading", "completed", "error"}
  BY <1>1, <1>2 DEF LastRecord
<1> QED BY <1>2, <1>3 DEF LocalStateFromProvider, States

(***************************************************************************)
(* A row under work was heard of: RefreshRow never looks up record 0.      *)
(***************************************************************************)
Heard(p, id) == heard[p][id] # 0

BulkHeard ==
  /\ stage["bulk"] = "answered" => \A id \in Downloads : Heard("bulk", id)
  /\ stage["bulk"] \in {"refresh", "update"} =>
       /\ \A d \in todo["bulk"] : Heard("bulk", d.id)
       /\ \A d, e \in todo["bulk"] : d.id = e.id => d = e
  /\ stage["bulk"] \in {"idle", "asked", "answered"} => todo["bulk"] = {}

FastHeard ==
  FastPolls /\ stage["fast"] = "refresh" =>
    \A d \in todo["fast"] : Oldest(d, todo["fast"]) => Heard("fast", d.id)

RefreshInv == RefreshTypeOK /\ BulkHeard /\ FastHeard

LEMMA PollerFacts ==
  /\ "bulk" \in Pollers
  /\ \A p \in Pollers : p = "bulk" \/ (p = "fast" /\ FastPolls)
  /\ FastPolls => "fast" \in Pollers
BY DEF Pollers

LEMMA RefreshStarts == RefreshInit => RefreshInv
<1> SUFFICES ASSUME RefreshInit PROVE RefreshInv
  OBVIOUS
<1>1. NewRow \in Row
  BY DEF NewRow, Row, States
<1>2. RefreshTypeOK
  BY <1>1, LifeTypes, PollerFacts DEF RefreshInit, RefreshTypeOK, Each, Silence
<1>3. BulkHeard /\ FastHeard
  BY PollerFacts DEF RefreshInit, BulkHeard, FastHeard, Each
<1> QED BY <1>2, <1>3 DEF RefreshInv

-------------------------------------------------------------------------------
(***************************************************************************)
(* Statements and queries.                                                 *)
(***************************************************************************)
LEMMA StatusType ==
  ASSUME rows \in [Downloads -> Row], NEW id \in Downloads,
         NEW state \in States, NEW report \in Nat, UpdateDownloadStatus(id, state, report)
  PROVE  rows' \in [Downloads -> Row]
<1>1. [rows[id] EXCEPT !.state = state, !.report = report, !.aged = FALSE] \in Row
  BY DEF Row
<1> QED BY <1>1, WriteType DEF UpdateDownloadStatus

LEMMA SnapshotTypes ==
  ASSUME rows \in [Downloads -> Row], NEW ids, ids \subseteq ListDownloadsByProvider
  PROVE  SnapshotsOf(ids) \in SUBSET Snapshot
<1>1. ASSUME NEW id \in ids PROVE SnapshotOf(id) \in Snapshot
  <2>1. id \in Downloads /\ rows[id].state # "gone" /\ rows[id] \in Row
    BY DEF ListDownloadsByProvider, Stored
  <2>2. rows[id].state \in States /\ rows[id].retries \in Nat /\ rows[id].report \in Nat
    BY <2>1 DEF Row
  <2> QED BY <2>1, <2>2 DEF SnapshotOf, Snapshot
<1> QED BY <1>1 DEF SnapshotsOf

LEMMA Queries ==
  /\ ListActiveManagedDownloads \subseteq ListDownloadsByProvider
  /\ ListStuckDownloads \subseteq ListDownloadsByProvider
BY DEF ListActiveManagedDownloads, ListStuckDownloads, ListDownloadsByProvider, Stored

LEMMA MovesType ==
  ASSUME NEW p \in Pollers, NEW next, Moves(p, next),
         stage \in [Pollers -> {"idle", "asked", "answered", "refresh",
                                "update", "stuck"}],
         next \in {"idle", "asked", "answered", "refresh", "update", "stuck"}
  PROVE  /\ stage' \in [Pollers -> {"idle", "asked", "answered", "refresh",
                                    "update", "stuck"}]
         /\ stage'[p] = next
         /\ \A q \in Pollers : q # p => stage'[q] = stage[q]
BY DEF Moves

-------------------------------------------------------------------------------
(***************************************************************************)
(* The steps of both pollers.                                              *)
(***************************************************************************)
\* A request changes nothing the invariant relates but the stage.
LEMMA AsksStep ==
  ASSUME RefreshInv, NEW p \in Pollers, Asks(p),
         p = "bulk" => todo["bulk"] = {},
         UNCHANGED <<rows, provider, record, todo, heard, pending>>
  PROVE  RefreshInv'
<1>0. RefreshTypeOK /\ BulkHeard /\ FastHeard
  BY DEF RefreshInv
<1>1. stage' \in [Pollers -> {"idle", "asked", "answered", "refresh", "update", "stuck"}]
      /\ stage'[p] = "asked" /\ \A q \in Pollers : q # p => stage'[q] = stage[q]
  BY <1>0, MovesType DEF Asks, RefreshTypeOK
<1>2. latest' \in Pollers /\ overtaken' \in [Pollers -> SUBSET Downloads]
  BY <1>0 DEF Asks, RefreshTypeOK
<1>3. RefreshTypeOK'
  BY <1>0, <1>1, <1>2 DEF RefreshTypeOK
<1>4. BulkHeard' /\ FastHeard'
  BY <1>0, <1>1, PollerFacts DEF BulkHeard, FastHeard, Heard, Oldest
<1> QED BY <1>3, <1>4 DEF RefreshInv

\* A poller moves on with a smaller or a new list, and hears at most silence.
LEMMA ListStep ==
  ASSUME RefreshInv, NEW p \in Pollers,
         NEW next \in {"idle", "refresh", "stuck"}, Moves(p, next),
         NEW list \in SUBSET Snapshot, todo' = [todo EXCEPT ![p] = list],
         \/ heard' = heard
         \/ heard' = [heard EXCEPT ![p] = Silence] /\ next # "refresh",
         p = "fast" => next # "refresh",
         p = "bulk" /\ next = "refresh" =>
           /\ \A d \in list : Heard("bulk", d.id)
           /\ \A d, e \in list : d.id = e.id => d = e,
         p = "bulk" /\ next = "idle" => list = {},
         UNCHANGED <<rows, provider, record, pending, latest, overtaken>>
  PROVE  RefreshInv'
<1>0. RefreshTypeOK /\ BulkHeard /\ FastHeard
  BY DEF RefreshInv
<1>1. stage' \in [Pollers -> {"idle", "asked", "answered", "refresh", "update", "stuck"}]
      /\ stage'[p] = next /\ \A q \in Pollers : q # p => stage'[q] = stage[q]
  BY <1>0, MovesType DEF RefreshTypeOK
<1>2. todo' \in [Pollers -> SUBSET Snapshot] /\ todo'[p] = list
      /\ \A q \in Pollers : q # p => todo'[q] = todo[q]
  BY <1>0 DEF RefreshTypeOK
<1>3. heard' \in [Pollers -> [Downloads -> 0 .. LastRecord]]
      /\ (next = "refresh" => heard' = heard)
      /\ \A q \in Pollers : q # p => heard'[q] = heard[q]
  <2>1. heard \in [Pollers -> [Downloads -> 0 .. LastRecord]]
    BY <1>0 DEF RefreshTypeOK
  <2>2. Silence \in [Downloads -> 0 .. LastRecord]
    BY LifeTypes DEF Silence
  <2>3. CASE heard' = heard
    BY <2>1, <2>3
  <2>4. CASE heard' = [heard EXCEPT ![p] = Silence] /\ next # "refresh"
    BY <2>1, <2>2, <2>4
  <2> QED BY <2>3, <2>4
<1>4. RefreshTypeOK'
  BY <1>0, <1>1, <1>2, <1>3 DEF RefreshTypeOK
<1>5. BulkHeard'
  <2>1. CASE p = "bulk"
    BY <2>1, <1>1, <1>2, <1>3 DEF BulkHeard, Heard
  <2>2. CASE p # "bulk"
    BY <2>2, <1>0, <1>1, <1>2, <1>3, PollerFacts DEF BulkHeard, Heard
  <2> QED BY <2>1, <2>2
<1>6. FastHeard'
  <2>1. CASE p = "fast"
    BY <2>1, <1>1 DEF FastHeard
  <2>2. CASE p # "fast"
    BY <2>2, <1>0, <1>1, <1>2, <1>3, PollerFacts DEF FastHeard, Heard, Oldest
  <2> QED BY <2>1, <2>2
<1> QED BY <1>4, <1>5, <1>6 DEF RefreshInv

LEMMA AnswersStep ==
  ASSUME RefreshInv, NEW p \in Pollers, Answers(p)
  PROVE  RefreshInv'
<1>0. RefreshTypeOK /\ BulkHeard /\ FastHeard
  BY DEF RefreshInv
<1> DEFINE next == IF p = "bulk" THEN "answered" ELSE "refresh"
<1>1. stage' \in [Pollers -> {"idle", "asked", "answered", "refresh", "update", "stuck"}]
      /\ stage'[p] = next /\ \A q \in Pollers : q # p => stage'[q] = stage[q]
  BY <1>0, MovesType DEF Answers, RefreshTypeOK
<1>2. PICK answer \in [AskedAbout(p) -> 1 .. LastRecord] :
        heard' = [heard EXCEPT ![p] =
          [id \in Downloads |-> IF id \in AskedAbout(p) THEN answer[id] ELSE 0]]
  BY DEF Answers
<1>3. \A id \in AskedAbout(p) : answer[id] \in 1 .. LastRecord
  OBVIOUS
<1>4. heard' \in [Pollers -> [Downloads -> 0 .. LastRecord]]
      /\ (\A id \in Downloads \cap AskedAbout(p) : heard'[p][id] # 0)
      /\ \A q \in Pollers : q # p => heard'[q] = heard[q]
  BY <1>0, <1>2, <1>3, LifeTypes DEF RefreshTypeOK
<1>5. UNCHANGED <<rows, provider, record, todo, pending, latest, overtaken>>
  BY DEF Answers
<1>6. RefreshTypeOK'
  BY <1>0, <1>1, <1>4, <1>5 DEF RefreshTypeOK
<1>7. BulkHeard'
  <2>1. CASE p = "bulk"
    <3>1. todo["bulk"] = {}
      BY <2>1, <1>0 DEF BulkHeard, Answers
    <3>2. AskedAbout("bulk") = Downloads
      BY DEF AskedAbout
    <3> QED BY <2>1, <3>1, <3>2, <1>1, <1>4, <1>5 DEF BulkHeard, Heard
  <2>2. CASE p # "bulk"
    BY <2>2, <1>0, <1>1, <1>4, <1>5, PollerFacts DEF BulkHeard, Heard
  <2> QED BY <2>1, <2>2
<1>8. FastHeard'
  <2>1. CASE p = "fast"
    <3>1. ASSUME NEW d \in todo["fast"], Oldest(d, todo["fast"])
          PROVE  d.id \in Downloads \cap AskedAbout("fast")
      <4>1. d.id \in AskedAbout("fast")
        BY <3>1 DEF AskedAbout
      <4>2. d \in Snapshot
        BY <2>1, <1>0 DEF RefreshTypeOK
      <4> QED BY <4>1, <4>2 DEF Snapshot
    <3> QED BY <2>1, <3>1, <1>4, <1>5 DEF FastHeard, Heard, Oldest
  <2>2. CASE p # "fast"
    BY <2>2, <1>0, <1>1, <1>4, <1>5, PollerFacts DEF FastHeard, Heard, Oldest
  <2> QED BY <2>1, <2>2
<1> QED BY <1>6, <1>7, <1>8 DEF RefreshInv

\* RefreshRow: the row it takes was heard of, so what it decides on is a record.
LEMMA RefreshRowStep ==
  ASSUME RefreshInv, NEW p \in Pollers, NEW d \in todo[p], RefreshRow(p, d)
  PROVE  RefreshInv'
<1>0. RefreshTypeOK /\ BulkHeard /\ FastHeard
  BY DEF RefreshInv
<1> DEFINE v == heard[p][d.id]
           state == LocalStateFromProvider(Life[v])
<1>1. d \in Snapshot /\ d.id \in Downloads
  BY <1>0 DEF RefreshTypeOK, Snapshot
<1>2. v \in 0 .. LastRecord
  BY <1>0, <1>1 DEF RefreshTypeOK
<1>3. v # 0
  <2>1. CASE p = "bulk"
    BY <2>1, <1>0 DEF RefreshRow, Comes, Newest, BulkHeard, Heard
  <2>2. CASE p = "fast"
    BY <2>2, <1>0, PollerFacts DEF RefreshRow, Comes, FastHeard, Heard
  <2> QED BY <2>1, <2>2, PollerFacts
<1>4. v \in 1 .. LastRecord
  BY <1>2, <1>3, LifeTypes
<1>5. state \in States /\ v \in Nat
  BY <1>4, LifeTypes
<1>6. [id |-> d.id, state |-> state, report |-> v] \in Update
  BY <1>1, <1>5 DEF Update
<1> HIDE DEF state
<1>7. /\ todo' = [todo EXCEPT ![p] = @ \ {d}]
      /\ heard' = [heard EXCEPT ![p][d.id] = 0]
      /\ UNCHANGED <<rows, provider, latest>>
      /\ Remember(p, d.id, v) \/ UNCHANGED <<record, overtaken>>
      /\ \/ /\ pending' = [pending EXCEPT ![p] = {[id |-> d.id, state |-> state, report |-> v]}]
            /\ Moves(p, "update")
         \/ pending' = pending /\ Moves(p, AfterRow(p))
  BY DEF RefreshRow, state
<1>8. record' \in [Downloads -> 0 .. LastRecord] /\ overtaken' \in [Pollers -> SUBSET Downloads]
  <2>1. CASE Remember(p, d.id, v)
    BY <2>1, <1>0, <1>1, <1>2 DEF Remember, RefreshTypeOK
  <2>2. CASE UNCHANGED <<record, overtaken>>
    BY <2>2, <1>0 DEF RefreshTypeOK
  <2> QED BY <1>7, <2>1, <2>2
<1>9. pending' \in [Pollers -> SUBSET Update]
  BY <1>0, <1>6, <1>7 DEF RefreshTypeOK
<1>10. PICK next \in {"update", AfterRow(p)} : Moves(p, next)
  BY <1>7
<1>11. stage' \in [Pollers -> {"idle", "asked", "answered", "refresh", "update", "stuck"}]
       /\ stage'[p] = next /\ \A q \in Pollers : q # p => stage'[q] = stage[q]
  BY <1>0, <1>10, MovesType DEF AfterRow, RefreshTypeOK
<1>12. todo' \in [Pollers -> SUBSET Snapshot] /\ todo'[p] \subseteq todo[p]
       /\ \A q \in Pollers : q # p => todo'[q] = todo[q]
  BY <1>0, <1>7 DEF RefreshTypeOK
<1>13. /\ heard' \in [Pollers -> [Downloads -> 0 .. LastRecord]]
       /\ \A id \in Downloads : id # d.id => heard'[p][id] = heard[p][id]
       /\ \A q \in Pollers : q # p => heard'[q] = heard[q]
  BY <1>0, <1>1, <1>7, LifeTypes DEF RefreshTypeOK
<1>14. RefreshTypeOK'
  BY <1>0, <1>7, <1>8, <1>9, <1>11, <1>12, <1>13 DEF RefreshTypeOK
<1>15. BulkHeard'
  <2>1. CASE p = "bulk"
    <3>1. stage["bulk"] = "refresh" /\ next \in {"refresh", "update"}
      BY <2>1, <1>10 DEF RefreshRow, AfterRow
    <3>2. \A e \in todo'["bulk"] : e \in todo["bulk"] /\ e # d /\ e.id \in Downloads
      BY <2>1, <1>0, <1>7, <1>12 DEF RefreshTypeOK, Snapshot
    <3>3. \A e \in todo'["bulk"] : heard'["bulk"][e.id] = heard["bulk"][e.id]
      BY <2>1, <3>1, <3>2, <1>0, <1>13 DEF BulkHeard
    <3> QED BY <2>1, <3>1, <3>2, <3>3, <1>0, <1>11 DEF BulkHeard, Heard
  <2>2. CASE p # "bulk"
    BY <2>2, <1>0, <1>7, <1>11, <1>12, <1>13, PollerFacts DEF BulkHeard, Heard
  <2> QED BY <2>1, <2>2
<1>16. FastHeard'
  <2>1. CASE p = "fast"
    BY <2>1, <1>10, <1>11 DEF FastHeard, AfterRow
  <2>2. CASE p # "fast"
    BY <2>2, <1>0, <1>7, <1>11, <1>12, <1>13, PollerFacts DEF FastHeard, Heard, Oldest
  <2> QED BY <2>1, <2>2
<1> QED BY <1>14, <1>15, <1>16 DEF RefreshInv

LEMMA UpdateRowStep ==
  ASSUME RefreshInv, NEW p \in Pollers, NEW u \in pending[p], UpdateRow(p, u)
  PROVE  RefreshInv'
<1>0. RefreshTypeOK /\ BulkHeard /\ FastHeard
  BY DEF RefreshInv
<1>1. u \in Update
  BY <1>0 DEF RefreshTypeOK
<1>2. rows' \in [Downloads -> Row]
  BY <1>0, <1>1, StatusType DEF UpdateRow, RefreshTypeOK, Update
<1>3. pending' \in [Pollers -> SUBSET Update]
  BY <1>0 DEF UpdateRow, RefreshTypeOK
<1>4. stage' \in [Pollers -> {"idle", "asked", "answered", "refresh", "update", "stuck"}]
      /\ stage'[p] = AfterRow(p) /\ \A q \in Pollers : q # p => stage'[q] = stage[q]
  BY <1>0, MovesType DEF UpdateRow, AfterRow, RefreshTypeOK
<1>5. UNCHANGED <<provider, record, todo, heard, latest, overtaken>>
  BY DEF UpdateRow
<1>6. RefreshTypeOK'
  BY <1>0, <1>2, <1>3, <1>4, <1>5 DEF RefreshTypeOK
<1>7. BulkHeard'
  <2>1. CASE p = "bulk"
    BY <2>1, <1>0, <1>4, <1>5 DEF BulkHeard, Heard, AfterRow, UpdateRow
  <2>2. CASE p # "bulk"
    BY <2>2, <1>0, <1>4, <1>5, PollerFacts DEF BulkHeard, Heard
  <2> QED BY <2>1, <2>2
<1>8. FastHeard'
  <2>1. CASE p = "fast"
    BY <2>1, <1>4 DEF FastHeard, AfterRow
  <2>2. CASE p # "fast"
    BY <2>2, <1>0, <1>4, <1>5, PollerFacts DEF FastHeard, Heard, Oldest
  <2> QED BY <2>1, <2>2
<1> QED BY <1>6, <1>7, <1>8 DEF RefreshInv

LEMMA PollStep ==
  ASSUME RefreshInv, NEW p \in Pollers, Poll(p)
  PROVE  RefreshInv'
BY AnswersStep, RefreshRowStep, UpdateRowStep DEF Poll

LEMMA FailsStep ==
  ASSUME RefreshInv, NEW p \in Pollers, Fails(p)
  PROVE  RefreshInv'
<1>0. RefreshTypeOK /\ BulkHeard
  BY DEF RefreshInv
<1>1. CASE p = "bulk"
  <2>1. todo["bulk"] = {} /\ todo["bulk"] \in SUBSET Snapshot
    BY <1>0, <1>1 DEF BulkHeard, Fails, RefreshTypeOK
  <2>2. todo' = [todo EXCEPT ![p] = {}]
    BY <1>0, <1>1, <2>1 DEF Fails, RefreshTypeOK
  <2>3. Moves(p, "refresh") /\ UNCHANGED <<rows, provider, record, heard, pending, latest, overtaken>>
    BY <1>1 DEF Fails
  <2>4. {} \in SUBSET Snapshot /\ p # "fast"
    BY <1>1
  <2> QED BY <1>1, <2>2, <2>3, <2>4, ListStep
<1>2. CASE p # "bulk"
  <2>1. PICK rateLimited \in BOOLEAN :
          todo' = [todo EXCEPT ![p] =
            IF rateLimited THEN {} ELSE {d \in @ : ~Oldest(d, @)}]
    BY <1>2 DEF Fails
  <2> DEFINE list == IF rateLimited THEN {} ELSE {d \in todo[p] : ~Oldest(d, todo[p])}
  <2>2. list \in SUBSET Snapshot
    BY <1>0 DEF RefreshTypeOK
  <2>3. todo' = [todo EXCEPT ![p] = list]
    BY <2>1, <1>0 DEF RefreshTypeOK
  <2> HIDE DEF list
  <2>4. Moves(p, "idle") /\ UNCHANGED <<rows, provider, record, heard, pending, latest, overtaken>>
    BY <1>2 DEF Fails
  <2> QED BY <1>2, <2>2, <2>3, <2>4, ListStep
<1> QED BY <1>1, <1>2

LEMMA MarkStuckStep ==
  ASSUME RefreshInv, NEW d \in todo["bulk"], MarkStuck(d)
  PROVE  RefreshInv'
<1>0. RefreshTypeOK /\ BulkHeard /\ FastHeard /\ "bulk" \in Pollers
  BY PollerFacts DEF RefreshInv
<1>1. d \in Snapshot
  BY <1>0 DEF RefreshTypeOK
<1>2. rows' \in [Downloads -> Row]
  BY <1>0, <1>1, StatusType DEF MarkStuck, RefreshTypeOK, Snapshot, States
<1>3. todo' \in [Pollers -> SUBSET Snapshot] /\ todo'["bulk"] \subseteq todo["bulk"]
      /\ \A q \in Pollers : q # "bulk" => todo'[q] = todo[q]
  BY <1>0 DEF MarkStuck, RefreshTypeOK
<1>4. stage["bulk"] = "stuck"
      /\ UNCHANGED <<provider, record, stage, heard, pending, latest, overtaken>>
  BY DEF MarkStuck
<1>5. RefreshTypeOK'
  BY <1>0, <1>2, <1>3, <1>4 DEF RefreshTypeOK
<1>6. BulkHeard'
  BY <1>4 DEF BulkHeard
<1>7. FastHeard'
  BY <1>0, <1>3, <1>4, PollerFacts DEF FastHeard, Heard, Oldest
<1> QED BY <1>5, <1>6, <1>7 DEF RefreshInv

\* What changes rows or the provider's records only.
LEMMA OutsideStep ==
  ASSUME RefreshInv, rows' \in [Downloads -> Row],
         provider' \in [Downloads -> 1 .. LastRecord], UNCHANGED <<record, polls>>
  PROVE  RefreshInv'
BY DEF RefreshInv, RefreshTypeOK, BulkHeard, FastHeard, Heard, Oldest, polls

LEMMA FetchSettlesType ==
  ASSUME RefreshTypeOK, NEW id \in Downloads, FetchSettles(id)
  PROVE  rows' \in [Downloads -> Row]
<1>0. rows \in [Downloads -> Row] /\ rows[id] \in Row
  BY DEF RefreshTypeOK
<1>1. CASE UpdateDownloadStatus(id, "ready_for_import", rows[id].report)
  BY <1>0, <1>1, StatusType DEF Row, States
<1>2. CASE Write(id, [rows[id] EXCEPT !.state = "error", !.retries = 1, !.aged = FALSE])
  <2>1. [rows[id] EXCEPT !.state = "error", !.retries = 1, !.aged = FALSE] \in Row
    BY <1>0 DEF Row, States
  <2> QED BY <1>0, <1>2, <2>1, WriteType
<1> QED BY <1>1, <1>2 DEF FetchSettles

LEMMA GrowsOldType ==
  ASSUME RefreshTypeOK, NEW id \in Downloads, GrowsOld(id)
  PROVE  rows' \in [Downloads -> Row]
<1>0. rows \in [Downloads -> Row] /\ rows[id] \in Row
  BY DEF RefreshTypeOK
<1>1. [rows[id] EXCEPT !.aged = TRUE] \in Row
  BY <1>0 DEF Row
<1>2. rows' = [rows EXCEPT ![id] = [rows[id] EXCEPT !.aged = TRUE]]
  BY <1>0 DEF GrowsOld
<1> QED BY <1>0, <1>1, <1>2

-------------------------------------------------------------------------------
LEMMA RefreshSteps == RefreshInv /\ [RefreshNext]_refreshVars => RefreshInv'
<1> SUFFICES ASSUME RefreshInv, [RefreshNext]_refreshVars PROVE RefreshInv'
  OBVIOUS
<1>0. RefreshTypeOK /\ BulkHeard /\ FastHeard /\ "bulk" \in Pollers
  BY PollerFacts DEF RefreshInv
<1>1. CASE BulkAsks
  BY <1>0, <1>1, AsksStep DEF BulkAsks, BulkHeard
<1>2. CASE BulkEnds
  <2>1. todo["bulk"] = {} /\ todo' = [todo EXCEPT !["bulk"] = {}]
    BY <1>0, <1>2 DEF BulkEnds, RefreshTypeOK
  <2> QED BY <1>0, <1>2, <2>1, ListStep DEF BulkEnds
<1>3. CASE BulkListsRows
  <2>1. SnapshotsOf(ListDownloadsByProvider) \in SUBSET Snapshot
    BY <1>0, SnapshotTypes DEF RefreshTypeOK
  <2>2. \A d \in SnapshotsOf(ListDownloadsByProvider) : d.id \in Downloads
    BY <2>1 DEF Snapshot
  <2>3. \A d \in SnapshotsOf(ListDownloadsByProvider) : Heard("bulk", d.id)
    BY <1>0, <1>3, <2>2 DEF BulkListsRows, BulkHeard
  <2>4. \A d, e \in SnapshotsOf(ListDownloadsByProvider) : d.id = e.id => d = e
    BY DEF SnapshotsOf, SnapshotOf
  <2> QED BY <1>0, <1>3, <2>1, <2>3, <2>4, ListStep DEF BulkListsRows
<1>4. CASE CheckStuckDownloads
  <2> DEFINE list == IF Watchdog THEN SnapshotsOf(ListStuckDownloads) ELSE {}
  <2>1. list \in SUBSET Snapshot
    BY <1>0, SnapshotTypes, Queries DEF RefreshTypeOK
  <2>2. todo' = [todo EXCEPT !["bulk"] = list]
    BY <1>4 DEF CheckStuckDownloads
  <2> HIDE DEF list
  <2>3. heard' = [heard EXCEPT !["bulk"] = Silence] /\ Moves("bulk", "stuck")
        /\ UNCHANGED <<rows, provider, record, pending, latest, overtaken>>
    BY <1>4 DEF CheckStuckDownloads
  <2> QED BY <1>0, <2>1, <2>2, <2>3, ListStep
<1>5. CASE \E d \in todo["bulk"] : MarkStuck(d)
  BY <1>5, MarkStuckStep
<1>6. CASE Poll("bulk")
  BY <1>0, <1>6, PollStep
<1>7. CASE FastPoll
  <2>0. "fast" \in Pollers /\ FastPolls
    BY <1>7, PollerFacts DEF FastPoll
  <2>1. CASE FastLists
    <3>1. SnapshotsOf(ListActiveManagedDownloads) \in SUBSET Snapshot
      BY <1>0, SnapshotTypes, Queries DEF RefreshTypeOK
    <3>2. Moves("fast", "idle")
      BY <1>0, <2>0, <2>1 DEF FastLists, Moves, RefreshTypeOK
    <3> QED BY <2>0, <2>1, <3>1, <3>2, ListStep DEF FastLists
  <2>2. CASE FastAsks
    BY <2>0, <2>2, AsksStep DEF FastAsks
  <2>3. CASE Poll("fast")
    BY <2>0, <2>3, PollStep
  <2> QED BY <1>7, <2>1, <2>2, <2>3 DEF FastPoll
<1>8. CASE \E p \in Pollers : Fails(p)
  BY <1>8, FailsStep
<1>9. ASSUME NEW id \in Downloads, ProviderAdvances(id)
      PROVE  RefreshInv'
  <2>1. provider' \in [Downloads -> 1 .. LastRecord]
    BY <1>0, <1>9, LifeTypes DEF ProviderAdvances, RefreshTypeOK
  <2> QED BY <1>0, <1>9, <2>1, OutsideStep DEF ProviderAdvances, RefreshTypeOK
<1>10. ASSUME NEW id \in Downloads, GetsStuck(id)
       PROVE  RefreshInv'
  BY <1>0, <1>10, GrowsOldType, OutsideStep DEF GetsStuck, RefreshTypeOK
<1>11. ASSUME NEW id \in Downloads, FetchSettles(id)
       PROVE  RefreshInv'
  BY <1>0, <1>11, FetchSettlesType, OutsideStep DEF FetchSettles, RefreshTypeOK
<1>12. CASE UNCHANGED refreshVars
  BY <1>0, <1>12, OutsideStep DEF refreshVars, refreshOwn, RefreshTypeOK
<1> QED BY <1>1, <1>2, <1>3, <1>4, <1>5, <1>6, <1>7, <1>8, <1>9, <1>10, <1>11, <1>12
        DEF RefreshNext, RefreshStep, BulkPass

\* Rows, requests, answers and what is remembered of them keep their types,
\* and no row is ever decided on without a record (Config.RefreshFromProvider,
\* refreshKind, refreshActiveKind).
THEOREM RefreshTypes == RefreshSpec => []RefreshTypeOK
<1>1. RefreshInv => RefreshTypeOK
  BY DEF RefreshInv
<1> QED BY RefreshStarts, RefreshSteps, <1>1, PTL DEF RefreshSpec

-------------------------------------------------------------------------------
(***************************************************************************)
(* The importer as a whole.  A step is one of the pool, of the refresh, or *)
(* of the tick and of a new process, which are steps of both.              *)
(***************************************************************************)
PoolAlone ==
  /\ PoolStep \/ UNCHANGED vars
  /\ record' \in [Downloads -> 0 .. LastRecord]
  /\ overtaken' \in [Pollers -> SUBSET Downloads]
  /\ UNCHANGED <<provider, stage, todo, heard, pending, latest>>

RefreshAlone == (BulkAsks \/ RefreshStep) /\ UNCHANGED poolVars

LEMMA Sides ==
  ASSUME RefreshTypeOK, [ImporterNext]_importerVars
  PROVE  PoolAlone \/ RefreshAlone \/ TickDispatches \/ RestartAll
<1>1. CASE PoolSide(PoolStep)
  <2>1. record' \in [Downloads -> 0 .. LastRecord] /\ overtaken' \in [Pollers -> SUBSET Downloads]
    BY <1>1, LifeTypes DEF PoolSide, RefreshTypeOK
  <2> QED BY <1>1, <2>1 DEF PoolSide, PoolAlone
<1>2. CASE RefreshSide(TickBegins \/ RefreshStep)
  BY <1>2 DEF RefreshSide, TickBegins, RefreshAlone
<1>3. CASE UNCHANGED importerVars
  BY <1>3 DEF importerVars, refreshOwn, polls, vars, PoolAlone, RefreshTypeOK
<1> QED BY <1>1, <1>2, <1>3 DEF ImporterNext

\* No answer brings a state of its own: an UPDATE that is due says of a row what
\* one of the provider's records says.
FromRecords ==
  \A p \in Pollers : \A u \in pending[p] :
    u.report \in 1 .. LastRecord /\ u.state = LocalStateFromProvider(Life[u.report])

ImporterInv == PoolTypeOK /\ RefreshInv /\ FromRecords

LEMMA FromRecordsStep ==
  ASSUME RefreshInv, FromRecords, [RefreshNext]_refreshVars
  PROVE  FromRecords'
<1>0. RefreshTypeOK /\ BulkHeard /\ FastHeard
  BY DEF RefreshInv
<1>1. ASSUME NEW p \in Pollers, NEW d \in todo[p], RefreshRow(p, d) PROVE FromRecords'
  <2> DEFINE v == heard[p][d.id]
             state == LocalStateFromProvider(Life[v])
             u == [id |-> d.id, state |-> state, report |-> v]
  <2>1. d.id \in Downloads
    BY <1>0 DEF RefreshTypeOK, Snapshot
  <2>2. v \in 0 .. LastRecord
    BY <1>0, <2>1 DEF RefreshTypeOK
  <2>3. v # 0
    <3>1. CASE p = "bulk"
      BY <1>0, <1>1, <3>1 DEF RefreshRow, Comes, Newest, BulkHeard, Heard
    <3>2. CASE p = "fast"
      BY <1>0, <1>1, <3>2, PollerFacts DEF RefreshRow, Comes, FastHeard, Heard
    <3> QED BY <3>1, <3>2, PollerFacts
  <2>4. v \in 1 .. LastRecord
    BY <2>2, <2>3, LifeTypes
  <2>5. pending' = pending \/ pending' = [pending EXCEPT ![p] = {u}]
    BY <1>1 DEF RefreshRow
  <2>6. u.report = v /\ u.state = LocalStateFromProvider(Life[v])
    OBVIOUS
  <2> HIDE DEF v, u
  <2>7. \A q \in Pollers : \A x \in pending'[q] : x \in pending[q] \/ x = u
    BY <1>0, <2>5 DEF RefreshTypeOK
  <2> QED BY <2>4, <2>6, <2>7 DEF FromRecords
<1>2. ASSUME NEW p \in Pollers, NEW u \in pending[p], UpdateRow(p, u) PROVE FromRecords'
  <2>1. \A q \in Pollers : pending'[q] \subseteq pending[q]
    BY <1>0, <1>2 DEF UpdateRow, RefreshTypeOK
  <2> QED BY <2>1 DEF FromRecords
<1>3. CASE UNCHANGED pending
  BY <1>3 DEF FromRecords
<1>4. ASSUME NEW p \in Pollers, Poll(p) PROVE FromRecords'
  BY <1>1, <1>2, <1>3, <1>4 DEF Poll, Answers
<1> QED BY <1>3, <1>4, PollerFacts
        DEF RefreshNext, RefreshStep, BulkPass, FastPoll, BulkAsks, BulkEnds, BulkListsRows,
            CheckStuckDownloads, MarkStuck, FastLists, FastAsks, Fails,
            ProviderAdvances, GetsStuck, FetchSettles, polls, refreshVars, refreshOwn

LEMMA ImporterStarts == ImporterInit => ImporterInv
<1>1. ImporterInit => PoolTypeOK /\ RefreshInv
  BY TypeInit, RefreshStarts DEF ImporterInit
<1>2. ImporterInit => FromRecords
  BY DEF ImporterInit, RefreshInit, Each, FromRecords
<1> QED BY <1>1, <1>2 DEF ImporterInv

LEMMA ImporterStep == ImporterInv /\ [ImporterNext]_importerVars => ImporterInv'
<1> SUFFICES ASSUME ImporterInv, [ImporterNext]_importerVars PROVE ImporterInv'
  OBVIOUS
<1>0. PoolTypeOK /\ RefreshInv /\ RefreshTypeOK /\ FromRecords
  BY DEF ImporterInv, RefreshInv
<1>1. CASE PoolAlone
  <2>1. PoolTypeOK'
    BY <1>0, <1>1, TypeStep DEF PoolAlone, PoolNext
  <2>2. rows' \in [Downloads -> Row]
    BY <2>1 DEF PoolTypeOK
  <2>3. RefreshInv'
    BY <1>0, <1>1, <2>2
       DEF PoolAlone, RefreshInv, RefreshTypeOK, BulkHeard, FastHeard, Heard, Oldest
  <2>4. FromRecords'
    BY <1>0, <1>1 DEF PoolAlone, FromRecords
  <2> QED BY <2>1, <2>3, <2>4 DEF ImporterInv
<1>2. CASE RefreshAlone
  <2>1. RefreshInv' /\ FromRecords'
    BY <1>0, <1>2, RefreshSteps, FromRecordsStep DEF RefreshAlone, RefreshNext
  <2>2. PoolTypeOK'
    BY <1>0, <1>2, <2>1
       DEF RefreshAlone, RefreshInv, RefreshTypeOK, PoolTypeOK, poolVars, handlers, bounds
  <2> QED BY <2>1, <2>2 DEF ImporterInv
<1>3. CASE TickDispatches
  BY <1>0, <1>3, TypeStep, RefreshSteps, FromRecordsStep
     DEF TickDispatches, PoolNext, RefreshNext, ImporterInv
<1>4. CASE RestartAll
  <2>1. PoolTypeOK'
    BY <1>0, <1>4, TypeStep DEF RestartAll, PoolNext
  <2>2. RefreshTypeOK'
    BY <1>0, <1>4, LifeTypes, PollerFacts DEF RestartAll, Restart, ForgetPolls, Each, Silence, RefreshTypeOK
  <2>3. BulkHeard' /\ FastHeard' /\ FromRecords'
    BY <1>4, PollerFacts DEF RestartAll, ForgetPolls, Each, BulkHeard, FastHeard, FromRecords
  <2> QED BY <2>1, <2>2, <2>3 DEF ImporterInv, RefreshInv
<1> QED BY <1>0, <1>1, <1>2, <1>3, <1>4, Sides

\* Beside the pool, the refresh and the watchdog, rows, requests and answers keep
\* their types, whatever order they take steps in and whenever the process is
\* killed (Importer.Run, tick).
THEOREM ImporterTypes == ImporterSpec => [](PoolTypeOK /\ RefreshTypeOK)
<1>1. ImporterInv => PoolTypeOK /\ RefreshTypeOK
  BY DEF ImporterInv, RefreshInv
<1> QED BY ImporterStarts, ImporterStep, <1>1, PTL DEF ImporterSpec

-------------------------------------------------------------------------------
(***************************************************************************)
(* What is proved of the pool.  The refresh writes rows, but it has none   *)
(* of the pool's memory and it readies no row.                             *)
(***************************************************************************)
LEMMA RefreshReadiesNone ==
  ASSUME ImporterInv, RefreshAlone
  PROVE  NoneReadied
<1>0. RefreshTypeOK /\ FromRecords /\ rows \in [Downloads -> Row]
  BY DEF ImporterInv, RefreshInv, RefreshTypeOK
<1>1. CASE UNCHANGED rows
  BY <1>1 DEF NoneReadied, Stored
<1>2. ASSUME NEW p \in Pollers, NEW u \in pending[p], UpdateRow(p, u) PROVE NoneReadied
  <2>1. u.id \in Downloads
    BY <1>0 DEF RefreshTypeOK, Update
  <2>2. u.state # "ready_for_import"
    BY <1>0, LifeTypes DEF FromRecords, LocalStateFromProvider
  <2> QED BY <1>0, <1>2, <2>1, <2>2, StatementsReadyNone DEF UpdateRow
<1>3. ASSUME NEW d \in todo["bulk"], MarkStuck(d) PROVE NoneReadied
  <2>1. d.id \in Downloads
    BY <1>0, PollerFacts DEF RefreshTypeOK, Snapshot
  <2> QED BY <1>0, <1>3, <2>1, StatementsReadyNone DEF MarkStuck
<1>4. ASSUME NEW id \in Downloads, GetsStuck(id) PROVE NoneReadied
  BY <1>0, <1>4, StatementsReadyNone DEF GetsStuck
<1>5. ASSUME NEW p \in Pollers, Poll(p) PROVE NoneReadied
  BY <1>1, <1>2, <1>5 DEF Poll, Answers, RefreshRow
<1> QED BY <1>1, <1>3, <1>4, <1>5, PollerFacts
        DEF RefreshAlone, RefreshStep, BulkPass, FastPoll, BulkAsks, BulkListsRows,
            CheckStuckDownloads, FastLists, FastAsks, Fails, ProviderAdvances

LEMMA PoolView ==
  ASSUME ImporterInv, [ImporterNext]_importerVars
  PROVE  [PoolNext]_vars \/ (NoneReadied /\ UNCHANGED poolVars)
<1>1. PoolAlone \/ RefreshAlone \/ TickDispatches \/ RestartAll
  BY Sides DEF ImporterInv, RefreshInv
<1>2. RefreshAlone => NoneReadied /\ UNCHANGED poolVars
  BY RefreshReadiesNone DEF RefreshAlone
<1> QED BY <1>1, <1>2 DEF PoolAlone, TickDispatches, RestartAll, PoolNext

PoolInv == FiniteWithinLimit /\ OneFetchPerDownload /\ CancelInv

\* Everything the pool promises holds while rows are refreshed under it: the limit
\* is kept, no download is fetched twice at a time, a delete waits for the fetch
\* it has cancelled, and the pool implements its slots (Importer.Run,
\* refreshActiveDownloads).
THEOREM ImporterFetches ==
  ImporterSpec => /\ [](PoolWithinLimit /\ OneFetchPerDownload /\ CancelWaits)
                  /\ ImplementsSlots
<1>1. ImporterInit => PoolInv /\ Slots!Init
  <2> SUFFICES ASSUME PoolInit PROVE PoolInv /\ Slots!Init
    BY DEF ImporterInit
  <2>1. FiniteWithinLimit
    BY FS_EmptySet, PoolAssumption DEF PoolInit, FiniteWithinLimit, PoolWithinLimit
  <2>2. OneFetchPerDownload /\ CancelInv /\ Slots!Init
    BY DEF PoolInit, OneFetchPerDownload, CancelInv, CancelledHold, CancelWaits, Holding,
       Dispatchers, Slots!Init
  <2> QED BY <2>1, <2>2 DEF PoolInv
<1>2. ASSUME ImporterInv, PoolInv, [ImporterNext]_importerVars
      PROVE  PoolInv' /\ [Slots!Next]_active
  <2>0. PoolTypeOK
    BY <1>2 DEF ImporterInv
  <2>1. CASE [PoolNext]_vars
    BY <1>2, <2>0, <2>1, WithinLimitStep, OneFetchStep, CancelStep, SlotsStep DEF PoolInv
  <2>2. CASE UNCHANGED poolVars
    BY <1>2, <2>2 DEF PoolInv, FiniteWithinLimit, PoolWithinLimit, OneFetchPerDownload, CancelInv,
       CancelledHold, CancelWaits, Holding, poolVars, handlers, bounds
  <2> QED BY <1>2, <2>1, <2>2, PoolView
<1>3. PoolInv => PoolWithinLimit /\ OneFetchPerDownload /\ CancelWaits
  BY DEF PoolInv, FiniteWithinLimit, CancelInv
<1> QED BY <1>1, <1>2, <1>3, ImporterStarts, ImporterStep, PTL
        DEF ImporterSpec, ImplementsSlots, Slots!Spec

\* ... and an *arr app finds files where a row is ready, whatever the provider
\* says meanwhile, as long as the process stays up.
THEOREM ImporterReady ==
  ASSUME MaxRestarts = 0
  PROVE  ImporterSpec => []ReadyHasFiles
<1>1. ImporterInit => FilesInv
  BY DEF ImporterInit, PoolInit, FilesInv, ReadyHasFiles, NewRow, Dispatchers
<1>2. ASSUME ImporterInv, FilesInv, [ImporterNext]_importerVars PROVE FilesInv'
  <2>0. PoolTypeOK
    BY <1>2 DEF ImporterInv
  <2>1. CASE [PoolNext]_vars
    BY <1>2, <2>0, <2>1, FilesStep
  <2>2. CASE NoneReadied /\ UNCHANGED poolVars
    BY <1>2, <2>0, <2>2, FilesKept DEF poolVars, handlers
  <2> QED BY <1>2, <2>1, <2>2, PoolView
<1>3. FilesInv => ReadyHasFiles
  BY DEF FilesInv
<1> QED BY <1>1, <1>2, <1>3, ImporterStarts, ImporterStep, PTL DEF ImporterSpec

-------------------------------------------------------------------------------
(***************************************************************************)
(* What answers undo.  A poller's snapshot of a row agrees with the row as *)
(* long as nobody has written to it, and an UPDATE it has decided on       *)
(* undoes nothing under the same condition.                                *)
(***************************************************************************)
Backwards == {"queued", "downloading"}

Agrees(d) == rows[d.id].state = d.state /\ rows[d.id].retries = d.retries

Harmless(u) ==
  /\ ~Settled(rows[u.id])
  /\ rows[u.id].state = "provider_completed" => u.state \notin Backwards

Reads(p) ==
  /\ \A d \in todo[p] : d.id \notin touched[p] => Agrees(d)
  /\ \A d, e \in todo[p] : d.id = e.id => d = e

Decides(p) ==
  /\ pending[p] # {} => stage[p] = "update"
  /\ \A u \in pending[p] : /\ u.id \notin touched[p] => Harmless(u)
                           /\ \A d \in todo[p] : d.id # u.id
  /\ \A u, w \in pending[p] : u = w

\* The watchdog goes through rows that were on their way when it listed them.
StuckList ==
  stage["bulk"] = "stuck" => \A d \in todo["bulk"] : d.state \in Backwards

Races == StuckList /\ \A p \in Pollers : Reads(p) /\ Decides(p)

RaceInv == ImporterInv /\ Races

\* What one step must not do to the rows a poller lets go of.
UndoesNothing(p) ==
  \A id \in Held(p) \ (Held(p)' \cup touched[p]) :
    /\ Settled(rows[id]) => rows'[id] = rows[id]
    /\ rows[id].state = "provider_completed" => rows'[id].state \notin Backwards

\* A poller that reads and decides nothing new.
Rests(p) ==
  /\ todo'[p] \subseteq todo[p] /\ pending'[p] \subseteq pending[p]
  /\ pending'[p] = {} \/ stage'[p] = stage[p]

LEMMA RestsKeeps ==
  ASSUME Observes, NEW p \in Pollers, Reads(p), Decides(p), Rests(p)
  PROVE  Reads(p)' /\ Decides(p)'
<1>1. ASSUME NEW id, id \in Held(p) \cap Held(p)', id \notin touched'[p]
      PROVE  /\ id \notin touched[p]
             /\ rows'[id].state = rows[id].state /\ rows'[id].retries = rows[id].retries
  BY <1>1 DEF Observes, Written
<1>2. \A d \in todo'[p] : d.id \in Held(p) \cap Held(p)'
  BY DEF Rests, Held
<1>3. \A u \in pending'[p] : u.id \in Held(p) \cap Held(p)'
  BY DEF Rests, Held
<1>4. Reads(p)'
  BY <1>1, <1>2 DEF Reads, Rests, Agrees
<1>5. \A u \in pending'[p] : u.id \notin touched'[p] => Harmless(u)'
  <2> SUFFICES ASSUME NEW u \in pending'[p], u.id \notin touched'[p] PROVE Harmless(u)'
    OBVIOUS
  <2>1. u \in pending[p]
    BY DEF Rests
  <2>2. /\ u.id \notin touched[p]
        /\ rows'[u.id].state = rows[u.id].state /\ rows'[u.id].retries = rows[u.id].retries
    BY <1>1, <1>3
  <2>3. Harmless(u)
    BY <2>1, <2>2 DEF Decides
  <2> QED BY <2>2, <2>3 DEF Harmless, Settled
<1>6. Decides(p)'
  BY <1>5 DEF Decides, Rests
<1> QED BY <1>4, <1>6

LEMMA ListedAfresh ==
  ASSUME NEW p \in Pollers, UNCHANGED rows, NEW ids, todo'[p] = SnapshotsOf(ids), pending'[p] = {}
  PROVE  Reads(p)' /\ Decides(p)'
<1>1. \A d \in todo'[p] : \E id \in ids : d = SnapshotOf(id)
  BY DEF SnapshotsOf
<1>2. \A id \in ids : /\ SnapshotOf(id).id = id /\ SnapshotOf(id).state = rows[id].state
                      /\ SnapshotOf(id).retries = rows[id].retries
  BY DEF SnapshotOf
<1>3. Reads(p)'
  BY <1>1, <1>2 DEF Reads, Agrees
<1> QED BY <1>3 DEF Decides

\* RefreshFromProvider decides on the snapshot; as long as the row agrees with
\* it, the decision undoes nothing.
LEMMA DecidesOnSnapshot ==
  ASSUME RefreshTypeOK, Observes, NEW p \in Pollers, Reads(p), Decides(p),
         NEW d \in todo[p], RefreshRow(p, d)
  PROVE  Reads(p)' /\ Decides(p)'
<1>1. pending[p] = {}
  BY DEF Decides, RefreshRow
<1>2. todo'[p] = todo[p] \ {d} /\ rows' = rows
  BY DEF RefreshRow, RefreshTypeOK
<1> DEFINE v == heard[p][d.id]
           state == LocalStateFromProvider(Life[v])
<1>3. PICK u : u = [id |-> d.id, state |-> state, report |-> v]
  OBVIOUS
<1>4. u.id = d.id /\ u.state = state
  BY <1>3
<1>5. \/ pending' = pending
      \/ /\ pending' = [pending EXCEPT ![p] = {u}]
         /\ Moves(p, "update")
         /\ ~SettledLocally(d, state)
  BY <1>3 DEF RefreshRow
<1>6. ~SettledLocally(d, state) =>
        /\ ~(d.state = "ready_for_import" \/ (d.state = "error" /\ d.retries > 0))
        /\ d.state = "provider_completed" => state \notin Backwards
  BY DEF SettledLocally, Backwards
<1> HIDE DEF state
<1>7. CASE pending' = pending
  BY <1>1, <1>2, <1>7, RestsKeeps DEF Rests
<1>8. CASE pending' # pending
  <2>1. pending'[p] = {u} /\ stage'[p] = "update" /\ ~SettledLocally(d, state)
    BY <1>8, <1>5, MovesType DEF RefreshTypeOK
  <2>2. d.id \in Held(p) \cap Held(p)'
    BY <1>4, <2>1 DEF Held
  <2>3. ASSUME u.id \notin touched'[p] PROVE Harmless(u)'
    <3>1. d.id \notin touched[p]
      BY <1>4, <2>2, <2>3 DEF Observes
    <3>2. Agrees(d)
      BY <3>1 DEF Reads
    <3> QED BY <1>2, <1>4, <1>6, <2>1, <3>2 DEF Agrees, Harmless, Settled
  <2>4. \A e \in todo'[p] : e.id # u.id
    BY <1>2, <1>4 DEF Reads
  <2>5. Decides(p)'
    BY <2>1, <2>3, <2>4 DEF Decides
  <2>6. \A e \in todo'[p] : e.id \in Held(p) \cap Held(p)'
    BY <1>2 DEF Held
  <2>7. Reads(p)'
    BY <1>2, <2>6 DEF Reads, Agrees, Observes
  <2> QED BY <2>5, <2>7
<1> QED BY <1>7, <1>8

LEMMA StatusWrites ==
  ASSUME rows \in [Downloads -> Row], NEW i \in Downloads, NEW state, NEW report,
         UpdateDownloadStatus(i, state, report)
  PROVE  /\ \A id \in Downloads \ {i} : rows'[id] = rows[id]
         /\ rows'[i].state = state \/ rows'[i] = rows[i]
<1> DEFINE row == [rows[i] EXCEPT !.state = state, !.report = report, !.aged = FALSE]
<1>1. row.state = state
  BY DEF Row
<1>2. rows' = [rows EXCEPT ![i] = row] \/ rows' = rows
  BY DEF UpdateDownloadStatus, Write
<1> HIDE DEF row
<1> QED BY <1>1, <1>2

\* Pollers that rest keep everything, and a step that lets go of no row or
\* writes none undoes nothing.
LEMMA RestingStep ==
  ASSUME Observes, Races, \A p \in Pollers : Rests(p),
         StuckList', UNCHANGED rows \/ UNCHANGED <<todo, pending>>
  PROVE  Races' /\ \A p \in Pollers : UndoesNothing(p)
<1>1. \A p \in Pollers : Reads(p)' /\ Decides(p)'
  BY RestsKeeps DEF Races
<1>2. \A p \in Pollers : UndoesNothing(p)
  BY DEF UndoesNothing, Held, Settled, Backwards
<1> QED BY <1>1, <1>2 DEF Races

\* One poller lists or decides, the others rest.
LEMMA OnePollerStep ==
  ASSUME Observes, Races, UNCHANGED rows, NEW p \in Pollers, Reads(p)', Decides(p)',
         \A q \in Pollers \ {p} : Rests(q), StuckList'
  PROVE  Races' /\ \A q \in Pollers : UndoesNothing(q)
<1>1. \A q \in Pollers \ {p} : Reads(q)' /\ Decides(q)'
  BY RestsKeeps DEF Races
<1>2. \A q \in Pollers : UndoesNothing(q)
  BY DEF UndoesNothing, Settled, Backwards
<1> QED BY <1>1, <1>2 DEF Races

\* A poller's own list or stage changes, nothing is due.
LEMMA MovesRest ==
  ASSUME RefreshTypeOK, Races, NEW p \in Pollers, NEW next, Moves(p, next), stage[p] # "update",
         next \in {"idle", "asked", "answered", "refresh", "update", "stuck"},
         UNCHANGED pending, \A q \in Pollers \ {p} : todo'[q] = todo[q]
  PROVE  /\ \A q \in Pollers \ {p} : Rests(q)
         /\ pending'[p] = {} /\ stage'[p] = next
         /\ \A q \in Pollers \ {p} : stage'[q] = stage[q]
         /\ todo'[p] \subseteq todo[p] => Rests(p)
BY MovesType DEF Races, Decides, Rests, RefreshTypeOK

LEMMA MarkStuckRaces ==
  ASSUME RefreshTypeOK, Observes, Races, NEW d \in todo["bulk"], MarkStuck(d)
  PROVE  Races' /\ \A p \in Pollers : UndoesNothing(p)
<1>0. "bulk" \in Pollers /\ d.id \in Downloads
  BY PollerFacts DEF RefreshTypeOK, Snapshot
<1>1. /\ todo'["bulk"] = todo["bulk"] \ {d}
      /\ \A q \in Pollers \ {"bulk"} : todo'[q] = todo[q]
      /\ pending' = pending /\ stage' = stage
  BY <1>0 DEF MarkStuck, RefreshTypeOK
<1>2. \A p \in Pollers : Reads(p)' /\ Decides(p)'
  BY <1>1, RestsKeeps DEF Races, Rests
<1>3. StuckList'
  BY <1>1 DEF Races, StuckList
<1>4. \A id \in Downloads \ {d.id} : rows'[id] = rows[id]
  BY <1>0, StatusWrites DEF MarkStuck, RefreshTypeOK
<1>5. \A p \in Pollers : Held(p) \subseteq Downloads
  BY DEF Held, RefreshTypeOK, Snapshot, Update
<1>6. d.id \notin touched["bulk"] => ~Settled(rows[d.id]) /\ rows[d.id].state # "provider_completed"
  BY <1>0 DEF Races, Reads, Agrees, StuckList, MarkStuck, Settled, Backwards
<1>7. \A p \in Pollers : p = "bulk" \/ Held(p)' = Held(p)
  BY <1>1 DEF Held
<1>8. UndoesNothing("bulk")
  BY <1>4, <1>5, <1>6, <1>0 DEF UndoesNothing, Backwards
<1> QED BY <1>2, <1>3, <1>7, <1>8 DEF Races, UndoesNothing

LEMMA UpdateRowRaces ==
  ASSUME RefreshTypeOK, Observes, Races, NEW p \in Pollers, NEW u \in pending[p], UpdateRow(p, u)
  PROVE  Races' /\ \A q \in Pollers : UndoesNothing(q)
<1>0. u.id \in Downloads
  BY DEF RefreshTypeOK, Update
<1>1. /\ pending'[p] = {} /\ todo' = todo /\ stage'[p] = AfterRow(p)
      /\ \A q \in Pollers \ {p} : pending'[q] = pending[q] /\ stage'[q] = stage[q]
  BY MovesType DEF UpdateRow, RefreshTypeOK, AfterRow
<1>2. \A q \in Pollers : Reads(q)' /\ Decides(q)'
  BY <1>1, RestsKeeps DEF Races, Rests
<1>3. StuckList'
  BY <1>1, PollerFacts DEF Races, StuckList, AfterRow
<1>4. /\ \A id \in Downloads \ {u.id} : rows'[id] = rows[id]
      /\ rows'[u.id].state = u.state \/ rows'[u.id] = rows[u.id]
  BY <1>0, StatusWrites DEF UpdateRow, RefreshTypeOK
<1>5. Held(p) \subseteq Downloads
  BY DEF Held, RefreshTypeOK, Snapshot, Update
<1>6. u.id \notin touched[p] => Harmless(u)
  BY DEF Races, Decides
<1>7. \A q \in Pollers : q = p \/ Held(q)' = Held(q)
  BY <1>1 DEF Held
<1>8. UndoesNothing(p)
  BY <1>0, <1>4, <1>5, <1>6 DEF UndoesNothing, Harmless, Backwards
<1> QED BY <1>2, <1>3, <1>7, <1>8 DEF Races, UndoesNothing

LEMMA RefreshRaces ==
  ASSUME RefreshInv, Observes, Races, BulkAsks \/ BulkEnds \/ RefreshStep
  PROVE  Races' /\ \A p \in Pollers : UndoesNothing(p)
<1>0. RefreshTypeOK /\ StuckList /\ "bulk" \in Pollers
  BY PollerFacts DEF RefreshInv, Races
<1>1. ASSUME NEW p \in Pollers, NEW next, Moves(p, next), stage[p] # "update",
             next \in {"idle", "asked", "answered", "refresh"},
             UNCHANGED <<rows, pending>>, \A q \in Pollers \ {p} : todo'[q] = todo[q],
             todo'[p] \subseteq todo[p]
      PROVE  Races' /\ \A q \in Pollers : UndoesNothing(q)
  <2>1. /\ \A q \in Pollers : Rests(q)
        /\ stage'[p] = next /\ \A q \in Pollers \ {p} : stage'[q] = stage[q]
    BY <1>0, <1>1, MovesRest
  <2>2. StuckList'
    BY <1>0, <1>1, <2>1 DEF StuckList
  <2> QED BY <1>1, <2>1, <2>2, RestingStep
<1>2. ASSUME NEW p \in Pollers, NEW ids, ids \subseteq ListDownloadsByProvider,
             NEW next, Moves(p, next), stage[p] # "update",
             next \in {"idle", "refresh", "stuck"}, UNCHANGED <<rows, pending>>,
             todo' = [todo EXCEPT ![p] = SnapshotsOf(ids)],
             next = "stuck" => ids \subseteq ListStuckDownloads
      PROVE  Races' /\ \A q \in Pollers : UndoesNothing(q)
  <2>1. /\ \A q \in Pollers \ {p} : Rests(q)
        /\ pending'[p] = {} /\ stage'[p] = next
        /\ \A q \in Pollers \ {p} : stage'[q] = stage[q]
    BY <1>0, <1>2, MovesRest DEF RefreshTypeOK
  <2>2. todo'[p] = SnapshotsOf(ids) /\ \A q \in Pollers \ {p} : todo'[q] = todo[q]
    BY <1>0, <1>2 DEF RefreshTypeOK
  <2>3. Reads(p)' /\ Decides(p)'
    BY <1>2, <2>1, <2>2, ListedAfresh
  <2>4. \A id \in ListStuckDownloads : SnapshotOf(id).state \in Backwards
    BY DEF ListStuckDownloads, ListActiveManagedDownloads, SnapshotOf, Backwards
  <2>5. StuckList'
    BY <1>0, <1>2, <2>1, <2>2, <2>4 DEF StuckList, SnapshotsOf
  <2> QED BY <1>2, <2>1, <2>3, <2>5, OnePollerStep
<1>3. CASE BulkAsks
  BY <1>0, <1>1, <1>3 DEF BulkAsks, Asks
<1>4. CASE BulkEnds
  BY <1>0, <1>1, <1>4 DEF BulkEnds
<1>5. CASE BulkListsRows
  BY <1>0, <1>2, <1>5 DEF BulkListsRows
<1>6. CASE CheckStuckDownloads
  <2> DEFINE ids == IF Watchdog THEN ListStuckDownloads ELSE {}
  <2>1. SnapshotsOf(ids) = IF Watchdog THEN SnapshotsOf(ListStuckDownloads) ELSE {}
    BY DEF SnapshotsOf
  <2>2. ids \subseteq ListDownloadsByProvider /\ ids \subseteq ListStuckDownloads
    BY Queries
  <2> HIDE DEF ids
  <2> QED BY <1>0, <1>2, <1>6, <2>1, <2>2 DEF CheckStuckDownloads
<1>7. ASSUME NEW d \in todo["bulk"], MarkStuck(d)
      PROVE  Races' /\ \A q \in Pollers : UndoesNothing(q)
  BY <1>0, <1>7, MarkStuckRaces
<1>8. ASSUME NEW p \in Pollers, Answers(p)
      PROVE  Races' /\ \A q \in Pollers : UndoesNothing(q)
  BY <1>0, <1>1, <1>8 DEF Answers
<1>9. ASSUME NEW p \in Pollers, NEW d \in todo[p], RefreshRow(p, d)
      PROVE  Races' /\ \A q \in Pollers : UndoesNothing(q)
  <2>1. Reads(p)' /\ Decides(p)' /\ rows' = rows
    BY <1>0, <1>9, DecidesOnSnapshot DEF Races, RefreshRow
  <2>2. PICK next \in {"update", AfterRow(p)} : Moves(p, next)
    BY <1>9 DEF RefreshRow
  <2>3. stage'[p] = next /\ \A q \in Pollers \ {p} : stage'[q] = stage[q]
    BY <1>0, <2>2, MovesType DEF AfterRow, RefreshTypeOK
  <2>4. \A q \in Pollers \ {p} : todo'[q] = todo[q] /\ pending'[q] = pending[q]
    BY <1>0, <1>9 DEF RefreshRow, RefreshTypeOK
  <2>5. \A q \in Pollers \ {p} : Rests(q)
    BY <2>3, <2>4 DEF Rests
  <2>6. StuckList'
    BY <1>0, <2>2, <2>3, <2>4 DEF StuckList, AfterRow
  <2> QED BY <2>1, <2>5, <2>6, OnePollerStep
<1>10. ASSUME NEW p \in Pollers, NEW u \in pending[p], UpdateRow(p, u)
       PROVE  Races' /\ \A q \in Pollers : UndoesNothing(q)
  BY <1>0, <1>10, UpdateRowRaces
<1>11. ASSUME NEW p \in Pollers, Poll(p)
       PROVE  Races' /\ \A q \in Pollers : UndoesNothing(q)
  BY <1>8, <1>9, <1>10, <1>11 DEF Poll
<1>12. CASE FastPoll
  <2>0. "fast" \in Pollers
    BY <1>12, PollerFacts DEF FastPoll
  <2>1. CASE FastLists
    <3>1. Moves("fast", "idle")
      BY <1>0, <2>0, <2>1 DEF FastLists, Moves, RefreshTypeOK
    <3> QED BY <1>2, <2>0, <2>1, <3>1, Queries DEF FastLists
  <2>2. CASE FastAsks
    BY <1>1, <2>0, <2>2 DEF FastAsks, Asks
  <2>3. CASE Poll("fast")
    BY <1>11, <2>0, <2>3
  <2> QED BY <1>12, <2>1, <2>2, <2>3 DEF FastPoll
<1>13. ASSUME NEW p \in Pollers, Fails(p)
       PROVE  Races' /\ \A q \in Pollers : UndoesNothing(q)
  <2>1. /\ stage[p] = "asked" /\ UNCHANGED <<rows, pending>>
        /\ Moves(p, "refresh") \/ Moves(p, "idle")
    BY <1>13 DEF Fails
  <2>2. todo'[p] \subseteq todo[p] /\ \A q \in Pollers \ {p} : todo'[q] = todo[q]
    BY <1>0, <1>13 DEF Fails, RefreshTypeOK
  <2> QED BY <1>1, <2>1, <2>2
<1>14. ASSUME NEW id \in Downloads, ProviderAdvances(id) \/ GetsStuck(id)
       PROVE  Races' /\ \A q \in Pollers : UndoesNothing(q)
  <2>1. UNCHANGED <<stage, todo, pending>>
    BY <1>14 DEF ProviderAdvances, GetsStuck, polls
  <2>2. StuckList' /\ \A p \in Pollers : Rests(p)
    BY <1>0, <2>1 DEF StuckList, Rests
  <2> QED BY <2>1, <2>2, RestingStep
<1> QED BY <1>0, <1>3, <1>4, <1>5, <1>6, <1>7, <1>11, <1>12, <1>13, <1>14 DEF RefreshStep, BulkPass

LEMMA LateStarts == LateInit => RaceInv
<1> SUFFICES ASSUME LateInit PROVE RaceInv
  OBVIOUS
<1>1. ImporterInv
  BY ImporterStarts DEF LateInit
<1>2. \A p \in Pollers : todo[p] = {} /\ pending[p] = {}
  BY DEF LateInit, ImporterInit, RefreshInit, Each
<1> QED BY <1>1, <1>2, PollerFacts DEF RaceInv, Races, StuckList, Reads, Decides

LEMMA LateStep ==
  ASSUME RaceInv, [LateNext]_lateVars
  PROVE  RaceInv' /\ (LateNext => \A p \in Pollers : UndoesNothing(p))
<1>0. ImporterInv /\ RefreshInv /\ RefreshTypeOK /\ Races
  BY DEF RaceInv, ImporterInv, RefreshInv
<1>1. ImporterInv'
  BY <1>0, ImporterStep DEF LateNext, lateVars
<1>2. CASE LateNext
  <2>0. Observes /\ ImporterNext
    BY <1>2 DEF LateNext
  <2>1. CASE UNCHANGED <<stage, todo, pending>>
    <3>1. StuckList' /\ \A p \in Pollers : Rests(p)
      BY <1>0, <2>1 DEF Races, StuckList, Rests
    <3> QED BY <1>0, <1>1, <2>0, <2>1, <3>1, RestingStep DEF RaceInv
  <2>2. CASE RefreshAlone \/ TickDispatches
    BY <1>0, <1>1, <2>0, <2>2, RefreshRaces DEF RefreshAlone, TickDispatches, RaceInv
  <2>3. CASE RestartAll
    <3>1. rows' = rows /\ \A p \in Pollers : todo'[p] = {} /\ pending'[p] = {}
      BY <2>3 DEF RestartAll, Restart, ForgetPolls, Each
    <3>2. StuckList' /\ \A p \in Pollers : Rests(p)
      BY <3>1, PollerFacts DEF StuckList, Rests
    <3> QED BY <1>0, <1>1, <2>0, <3>1, <3>2, RestingStep DEF RaceInv
  <2>4. PoolAlone => UNCHANGED <<stage, todo, pending>>
    BY DEF PoolAlone
  <2> QED BY <1>0, <2>0, <2>1, <2>2, <2>3, <2>4, Sides
<1>3. CASE UNCHANGED lateVars
  <2>1. UNCHANGED <<rows, stage, todo, pending, touched>>
    BY <1>3 DEF lateVars, importerVars, refreshOwn, polls
  <2>2. Races'
    BY <1>0, <2>1 DEF Races, StuckList, Reads, Decides, Agrees, Harmless, Settled
  <2>3. LateNext => \A p \in Pollers : UndoesNothing(p)
    BY <2>1 DEF UndoesNothing, Held
  <2> QED BY <1>1, <2>2, <2>3 DEF RaceInv
<1> QED BY <1>2, <1>3

\* With both pollers, stale answers, the watchdog, fetches, sweeps, requests and
\* restarts, for any life of a download: what has been settled is undone only by
\* a poller that read the row before somebody wrote to it (RefreshFromProvider,
\* checkStuckDownloads).
THEOREM OnlyRacesUndoRows == LateSpec => OnlyRacesUndo
<1>1. RaceInv /\ [LateNext]_lateVars =>
        [\A p \in Pollers : \A id \in Held(p) \ (Held(p)' \cup touched[p]) :
           /\ Settled(rows[id]) => rows'[id] = rows[id]
           /\ rows[id].state = "provider_completed" =>
                rows'[id].state \notin {"queued", "downloading"}]_lateVars
  BY LateStep DEF UndoesNothing, Backwards
<1> QED BY LateStarts, LateStep, <1>1, PTL DEF LateSpec, OnlyRacesUndo

===============================================================================
