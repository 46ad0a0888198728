----------------------------- MODULE ListingProofs -----------------------------
(***************************************************************************)
(* That rows are given up only after enough listings, and not before the   *)
(* grace period of an anomaly, for any account, any bounds and any         *)
(* interleaving of failures, rate limits, silences and restarts.           *)
(***************************************************************************)
EXTENDS Listing, FiniteSetTheorems, TLAPS

ProcessFields == {"streak", "vanish", "hits", "cooling"}

Clocks == [since : 0 .. Grace + 1, seen : 0 .. Grace + 1]

RowRecords == [state : {"live", "error", "gaveUp"}, missing : 0 .. Threshold - 1]

\* What the guards look at has its type; hits and cooling do not matter here.
Typed ==
    /\ row \in [Rows -> RowRecords]
    /\ DOMAIN process = ProcessFields
    /\ process.streak \in 0 .. Streak
    /\ process.vanish \in {NoAnomaly} \cup Clocks
    /\ DOMAIN past = {"unseen", "odd"}
    /\ past.unseen \in [Rows -> 0 .. Threshold]
    /\ past.odd \in -1 .. Grace + 1

\* A row's count is backed by listings seen since the last failure, or those
\* there have been since are not yet enough for the provider to be trusted.
Counted(missing, streak, unseen) ==
    missing <= unseen \/ Least(streak, Threshold) <= unseen

CountsAreBacked ==
    \A r \in Rows : Counted(row[r].missing, process.streak, past.unseen[r])

\* The clock of an anomaly is not ahead of the observer's, unless the next
\* listing starts it over or is not yet trusted.
Timed(vanish, streak, odd) ==
    \/ vanish = NoAnomaly
    \/ vanish.seen > Grace
    \/ streak + 1 < Streak
    \/ odd # -1 /\ vanish.since <= odd

ClocksAgree == Timed(process.vanish, process.streak, past.odd)

ListingInv == Typed /\ CountsAreBacked /\ ClocksAgree

-------------------------------------------------------------------------------
(***************************************************************************)
(* Ages, and what an interval does to the process's memory.                *)
(***************************************************************************)
LEMMA Ages ==
  ASSUME NEW age \in 0 .. Grace + 1
  PROVE  /\ Older(age) \in 0 .. Grace + 1
         /\ age > Grace => Older(age) > Grace
         /\ \A b \in 0 .. Grace + 1 : age <= b => Older(age) <= Older(b)
BY ListingAssumption DEF ListingAssumption, Older, Least

OlderVanish(v) ==
  IF v = NoAnomaly THEN v ELSE [since |-> Older(v.since), seen |-> Older(v.seen)]

LEMMA AgedFacts ==
  ASSUME DOMAIN process = ProcessFields
  PROVE  /\ DOMAIN Aged = ProcessFields
         /\ Aged.streak = process.streak
         /\ Aged.vanish = OlderVanish(process.vanish)
BY DEF Aged, ProcessFields, OlderVanish

LEMMA LimitedFacts ==
  ASSUME NEW p, DOMAIN p = ProcessFields
  PROVE  /\ DOMAIN Limited(p) = ProcessFields
         /\ Limited(p).streak = p.streak
         /\ Limited(p).vanish = p.vanish
BY DEF Limited, ProcessFields

LEMMA NotAClock == NoAnomaly \notin Clocks
BY DEF NoAnomaly, Clocks

LEMMA OlderVanishType ==
  ASSUME NEW v \in {NoAnomaly} \cup Clocks
  PROVE  /\ OlderVanish(v) \in {NoAnomaly} \cup Clocks
         /\ OlderVanish(v) = NoAnomaly <=> v = NoAnomaly
         /\ v # NoAnomaly => /\ OlderVanish(v).since = Older(v.since)
                             /\ OlderVanish(v).seen = Older(v.seen)
<1>1. CASE v = NoAnomaly
  BY <1>1 DEF OlderVanish
<1>2. CASE v # NoAnomaly
  <2>1. v.since \in 0 .. Grace + 1 /\ v.seen \in 0 .. Grace + 1
    BY <1>2 DEF Clocks
  <2>2. Older(v.since) \in 0 .. Grace + 1 /\ Older(v.seen) \in 0 .. Grace + 1
    BY <2>1, Ages
  <2>3. OlderVanish(v) = [since |-> Older(v.since), seen |-> Older(v.seen)]
    BY <1>2 DEF OlderVanish
  <2>4. OlderVanish(v) \in Clocks
    BY <2>2, <2>3 DEF Clocks
  <2> QED BY <1>2, <2>3, <2>4, NotAClock
<1> QED BY <1>1, <1>2

\* More than half is the same as more than are there.
LEMMA OddIsSuspect ==
  ASSUME NEW shown
  PROVE  LooksOdd(shown) <=> MassVanish(shown)
<1>1. IsFiniteSet(Tracked)
  BY ListingAssumption, FS_Subset DEF ListingAssumption, Tracked
<1>2. /\ Cardinality(Tracked \ shown) = Cardinality(Tracked) - Cardinality(Tracked \cap shown)
      /\ IsFiniteSet(Tracked \cap shown)
  BY <1>1, FS_Difference, FS_Intersection
<1>3. Cardinality(Tracked) \in Nat /\ Cardinality(Tracked \cap shown) \in Nat
  BY <1>1, <1>2, FS_CardinalityType
<1> QED BY <1>2, <1>3 DEF LooksOdd, MassVanish

-------------------------------------------------------------------------------
(***************************************************************************)
(* A listing.                                                              *)
(***************************************************************************)
JudgedRow(r, shown, old, judges) ==
  IF r \in old THEN row[r]
  ELSE IF r \in shown THEN Found(r) ELSE IF judges THEN Missing(r) ELSE row[r]

\* What a listing makes of the rows and of what the observer saw of them.
JudgedBy(shown, old, judges) ==
  /\ judges => /\ process'.streak = Streak
               /\ ~Distrusts(MassVanish(shown), process'.vanish)
  /\ row' = [r \in Rows |-> JudgedRow(r, shown, old, judges)]

UnseenAfter(shown, old) ==
  [r \in Rows |-> IF r \in shown \ old THEN 0 ELSE Least(past.unseen[r] + 1, Threshold)]

\* What Judges does, on values.
LEMMA Judged ==
  ASSUME Typed, NEW shown, NEW old, old \subseteq shown, Judges(shown, old)
  PROVE  /\ DOMAIN process' = ProcessFields
         /\ process'.streak = Least(process.streak + 1, Streak)
         /\ process'.vanish =
              Anomaly(process'.streak = Streak /\ MassVanish(shown), OlderVanish(process.vanish))
         /\ \E judges \in BOOLEAN : JudgedBy(shown, old, judges)
         /\ DOMAIN past' = {"unseen", "odd"}
         /\ past'.unseen = UnseenAfter(shown, old)
         /\ past'.odd = IF process'.streak = Streak /\ LooksOdd(shown)
                        THEN Since(past.odd) ELSE -1
<1> DEFINE streak == Least(process.streak + 1, Streak)
           suspect == streak = Streak /\ MassVanish(shown)
           vanish == Anomaly(suspect, OlderVanish(process.vanish))
<1>1. Aged.streak = process.streak /\ Aged.vanish = OlderVanish(process.vanish)
  BY AgedFacts DEF Typed
<1>2. process' = [streak |-> streak, vanish |-> vanish, hits |-> 0, cooling |-> 0]
  BY <1>1 DEF Judges
<1>3. /\ row' = [r \in Rows |->
           IF r \in old THEN row[r]
           ELSE IF r \in shown THEN Found(r)
           ELSE IF streak = Streak /\ ~Distrusts(suspect, vanish) THEN Missing(r) ELSE row[r]]
      /\ past' = [unseen |-> [r \in Rows |-> IF r \in shown \ old THEN 0
                                             ELSE Least(past.unseen[r] + 1, Threshold)],
                  odd |-> IF streak = Streak /\ LooksOdd(shown) THEN Since(past.odd) ELSE -1]
  BY <1>1 DEF Judges
<1> DEFINE judges == streak = Streak /\ ~Distrusts(suspect, vanish)
<1>4. row' = [r \in Rows |-> JudgedRow(r, shown, old, judges)]
  BY <1>3 DEF JudgedRow
<1>5. judges \in BOOLEAN /\ (judges => streak = Streak /\ ~Distrusts(MassVanish(shown), vanish))
  BY DEF Distrusts
<1> HIDE DEF streak, vanish, judges
<1>6. process'.streak = streak /\ process'.vanish = vanish /\ DOMAIN process' = ProcessFields
  BY <1>2 DEF ProcessFields
<1>7. judges \in BOOLEAN /\ JudgedBy(shown, old, judges)
  BY <1>4, <1>5, <1>6 DEF JudgedBy
<1>8. /\ DOMAIN past' = {"unseen", "odd"}
      /\ past'.unseen = UnseenAfter(shown, old)
      /\ past'.odd = IF streak = Streak /\ LooksOdd(shown) THEN Since(past.odd) ELSE -1
  BY <1>3 DEF UnseenAfter
<1> QED BY <1>6, <1>7, <1>8 DEF streak, vanish

LEMMA FoundMissing ==
  ASSUME Typed, NEW r \in Rows
  PROVE  /\ Found(r) \in RowRecords /\ Found(r).missing = 0
         /\ Found(r).state = "error" => FALSE
         /\ Missing(r) \in RowRecords
         /\ Missing(r).missing <= row[r].missing + 1
         /\ row[r].state = "live" /\ Missing(r).state = "error"
              => row[r].missing + 1 >= Threshold
<1>1. row[r] \in RowRecords
  BY DEF Typed
<1>2. Threshold \in Nat \ {0}
  BY ListingAssumption DEF ListingAssumption
<1>3. Found(r) \in RowRecords /\ Found(r).missing = 0 /\ Found(r).state # "error"
  BY <1>2 DEF Found, RowRecords
<1>4. CASE row[r].state # "live"
  BY <1>1, <1>2, <1>3, <1>4 DEF Missing, RowRecords
<1>5. CASE row[r].state = "live" /\ row[r].missing + 1 < Threshold
  <2>1. Missing(r) = [state |-> "live", missing |-> row[r].missing + 1]
    BY <1>1, <1>5 DEF Missing, RowRecords
  <2> QED BY <1>1, <1>2, <1>3, <1>5, <2>1 DEF RowRecords
<1>6. CASE row[r].state = "live" /\ ~(row[r].missing + 1 < Threshold)
  <2>1. Missing(r) = [state |-> "error", missing |-> row[r].missing]
    BY <1>1, <1>6 DEF Missing, RowRecords
  <2> QED BY <1>1, <1>2, <1>3, <1>6, <2>1 DEF RowRecords
<1> QED BY <1>4, <1>5, <1>6

\* The same, row by row.
LEMMA JudgedRows ==
  ASSUME Typed, NEW shown, NEW old, old \subseteq shown, Judges(shown, old)
  PROVE  /\ row' \in [Rows -> RowRecords]
         /\ past'.unseen \in [Rows -> 0 .. Threshold]
         /\ \A r \in Rows : r \in shown \ old =>
              row'[r] = Found(r) /\ past'.unseen[r] = 0
         /\ \A r \in Rows : r \notin shown \ old =>
              /\ past'.unseen[r] = Least(past.unseen[r] + 1, Threshold)
              /\ \/ row'[r] = row[r]
                 \/ /\ row'[r] = Missing(r)
                    /\ process'.streak = Streak
                    /\ ~Distrusts(MassVanish(shown), process'.vanish)
<1>0. /\ \E judges \in BOOLEAN : JudgedBy(shown, old, judges)
      /\ past'.unseen = UnseenAfter(shown, old)
  BY Judged
<1> PICK judges \in BOOLEAN : JudgedBy(shown, old, judges)
  BY <1>0
<1>1. /\ judges => /\ process'.streak = Streak
                   /\ ~Distrusts(MassVanish(shown), process'.vanish)
      /\ row' = [r \in Rows |-> JudgedRow(r, shown, old, judges)]
  BY DEF JudgedBy
<1>2. past'.unseen = [r \in Rows |-> IF r \in shown \ old THEN 0
                                     ELSE Least(past.unseen[r] + 1, Threshold)]
  BY <1>0 DEF UnseenAfter
<1>3. \A r \in Rows : row'[r] = IF r \in old THEN row[r]
                               ELSE IF r \in shown THEN Found(r)
                               ELSE IF judges THEN Missing(r) ELSE row[r]
  BY <1>1 DEF JudgedRow
<1>4. \A r \in Rows : past'.unseen[r] = IF r \in shown \ old THEN 0
                                           ELSE Least(past.unseen[r] + 1, Threshold)
  BY <1>2
<1>5. \A r \in Rows : row'[r] \in RowRecords
  <2>1. \A r \in Rows : row[r] \in RowRecords /\ Found(r) \in RowRecords /\ Missing(r) \in RowRecords
    BY FoundMissing DEF Typed
  <2> QED BY <1>3, <2>1
<1>6. \A r \in Rows : past'.unseen[r] \in 0 .. Threshold
  <2>1. \A r \in Rows : Least(past.unseen[r] + 1, Threshold) \in 0 .. Threshold
    BY ListingAssumption DEF Typed, Least, ListingAssumption
  <2>2. 0 \in 0 .. Threshold
    BY ListingAssumption DEF ListingAssumption
  <2> QED BY <1>4, <2>1, <2>2
<1>7. row' \in [Rows -> RowRecords]
  BY <1>1, <1>5
<1>8. past'.unseen \in [Rows -> 0 .. Threshold]
  BY <1>2, <1>6
<1>9. ASSUME NEW r \in Rows, r \in shown \ old
      PROVE  row'[r] = Found(r) /\ past'.unseen[r] = 0
  BY <1>3, <1>4, <1>9
<1>10. ASSUME NEW r \in Rows, r \notin shown \ old
       PROVE  /\ past'.unseen[r] = Least(past.unseen[r] + 1, Threshold)
              /\ \/ row'[r] = row[r]
                 \/ row'[r] = Missing(r) /\ judges
  BY <1>3, <1>4, <1>10
<1> QED BY <1>1, <1>7, <1>8, <1>9, <1>10

LEMMA JudgesInv ==
  ASSUME ListingInv, NEW shown, NEW old, old \subseteq shown, Judges(shown, old)
  PROVE  ListingInv'
<1> DEFINE suspect == process'.streak = Streak /\ MassVanish(shown)
           v == OlderVanish(process.vanish)
<1>0. Typed /\ CountsAreBacked /\ ClocksAgree
  BY DEF ListingInv
<1>1. /\ Threshold \in Nat \ {0} /\ Streak \in Nat /\ 1 < Streak
      /\ Threshold <= Streak /\ Grace \in Nat
  BY ListingAssumption DEF ListingAssumption
<1>2. process.streak \in 0 .. Streak /\ process.vanish \in {NoAnomaly} \cup Clocks
      /\ past.odd \in -1 .. Grace + 1
  BY <1>0 DEF Typed
<1>3. /\ process'.streak = Least(process.streak + 1, Streak)
      /\ process'.vanish = Anomaly(suspect, v)
      /\ past'.odd = IF process'.streak = Streak /\ LooksOdd(shown) THEN Since(past.odd) ELSE -1
  BY <1>0, Judged
<1>4. process'.streak \in 0 .. Streak /\ process'.streak <= process.streak + 1
  BY <1>1, <1>2, <1>3 DEF Least
<1>5. v \in {NoAnomaly} \cup Clocks
      /\ (v = NoAnomaly <=> process.vanish = NoAnomaly)
      /\ (v # NoAnomaly => v.since = Older(process.vanish.since) /\ v.seen = Older(process.vanish.seen))
  BY <1>2, OlderVanishType
<1> HIDE DEF v
<1>6. Since(past.odd) \in 0 .. Grace + 1
  <2>1. CASE past.odd = -1
    BY <2>1, <1>1 DEF Since
  <2>2. CASE past.odd # -1
    BY <2>2, <1>2, Ages DEF Since
  <2> QED BY <2>1, <2>2
<1>7. process'.vanish \in {NoAnomaly} \cup Clocks
  <2>1. CASE ~suspect
    BY <2>1, <1>3 DEF Anomaly
  <2>2. CASE suspect /\ (v = NoAnomaly \/ v.seen > Grace)
    <3>1. process'.vanish = [since |-> 0, seen |-> 0]
      BY <2>2, <1>3 DEF Anomaly
    <3> QED BY <3>1, <1>1 DEF Clocks
  <2>3. CASE suspect /\ ~(v = NoAnomaly \/ v.seen > Grace)
    <3>1. process'.vanish = [v EXCEPT !.seen = 0] /\ v \in Clocks
      BY <2>3, <1>3, <1>5 DEF Anomaly
    <3> QED BY <3>1, <1>1 DEF Clocks
  <2> QED BY <2>1, <2>2, <2>3
<1>8. Typed'
  <2>1. row' \in [Rows -> RowRecords] /\ past'.unseen \in [Rows -> 0 .. Threshold]
    BY <1>0, JudgedRows
  <2>2. past'.odd \in -1 .. Grace + 1
    BY <1>1, <1>3, <1>6
  <2>3. DOMAIN process' = ProcessFields /\ DOMAIN past' = {"unseen", "odd"}
    BY <1>0, Judged
  <2> QED BY <1>4, <1>7, <2>1, <2>2, <2>3 DEF Typed
<1>9. CountsAreBacked'
  <2> SUFFICES ASSUME NEW r \in Rows
               PROVE  Counted(row'[r].missing, process'.streak, past'.unseen[r])
    BY DEF CountsAreBacked
  <2>1. /\ row[r].missing \in 0 .. Threshold - 1 /\ past.unseen[r] \in 0 .. Threshold
        /\ Counted(row[r].missing, process.streak, past.unseen[r])
    BY <1>0 DEF Typed, RowRecords, CountsAreBacked
  <2>2. row'[r].missing \in 0 .. Threshold - 1
    BY <1>8 DEF Typed, RowRecords
  <2>3. CASE r \in shown \ old
    <3>1. row'[r].missing = 0 /\ past'.unseen[r] = 0
      <4>1. row'[r] = Found(r) /\ past'.unseen[r] = 0
        BY <1>0, <2>3, JudgedRows
      <4> QED BY <1>0, <4>1, FoundMissing
    <3> QED BY <3>1 DEF Counted
  <2>4. CASE r \notin shown \ old
    <3>1. /\ past'.unseen[r] = Least(past.unseen[r] + 1, Threshold)
          /\ row'[r] = row[r] \/ row'[r] = Missing(r)
      BY <1>0, <2>4, JudgedRows
    <3>2. row'[r].missing <= row[r].missing + 1
      BY <1>0, <2>1, <3>1, FoundMissing
    <3> QED BY <1>1, <1>2, <1>4, <2>1, <2>2, <3>1, <3>2 DEF Counted, Least
  <2> QED BY <2>3, <2>4
<1>10. ClocksAgree'
  <2>1. CASE ~suspect
    BY <2>1, <1>3 DEF Anomaly, ClocksAgree, Timed
  <2>2. CASE suspect
    <3>1. past'.odd = Since(past.odd)
      BY <2>2, <1>3, OddIsSuspect
    <3>2. CASE v = NoAnomaly \/ v.seen > Grace
      <4>1. process'.vanish = [since |-> 0, seen |-> 0]
        BY <3>2, <2>2, <1>3 DEF Anomaly
      <4>2. process'.vanish.since = 0
        BY <4>1
      <4> QED BY <3>1, <4>2, <1>1, <1>6 DEF ClocksAgree, Timed
    <3>3. CASE ~(v = NoAnomaly \/ v.seen > Grace)
      <4>1. process.vanish \in Clocks /\ v \in Clocks
        BY <3>3, <1>2, <1>5
      <4>2. process.vanish.since \in 0 .. Grace + 1 /\ process.vanish.seen \in 0 .. Grace + 1
        BY <4>1 DEF Clocks
      <4>3. ~(process.vanish.seen > Grace)
        BY <3>3, <4>2, <1>5, Ages
      <4>4. ~(process.streak + 1 < Streak)
        BY <2>2, <1>1, <1>2, <1>3 DEF Least
      <4>5. past.odd # -1 /\ process.vanish.since <= past.odd
        BY <1>0, <1>5, <3>3, <4>3, <4>4 DEF ClocksAgree, Timed
      <4>6. Older(process.vanish.since) <= Older(past.odd)
        BY <1>2, <4>2, <4>5, Ages
      <4>7. process'.vanish.since = v.since
        BY <3>3, <2>2, <1>3, <4>1 DEF Anomaly, Clocks
      <4>8. past'.odd = Older(past.odd)
        BY <3>1, <4>5 DEF Since
      <4>9. past'.odd # -1
        BY <3>1, <1>1, <1>6
      <4> QED BY <1>5, <3>3, <4>6, <4>7, <4>8, <4>9 DEF ClocksAgree, Timed
    <3> QED BY <3>2, <3>3
  <2> QED BY <2>1, <2>2
<1> QED BY <1>8, <1>9, <1>10 DEF ListingInv

-------------------------------------------------------------------------------
(***************************************************************************)
(* Everything else.                                                        *)
(***************************************************************************)
\* An observer that begins anew knows of no row and of no anomaly.
LEMMA BlankInv ==
  ASSUME Typed, UNCHANGED row, past' = Blank,
         DOMAIN process' = ProcessFields, process'.streak = 0,
         process'.vanish \in {NoAnomaly} \cup Clocks
  PROVE  ListingInv'
<1>1. /\ Threshold \in Nat \ {0} /\ Streak \in Nat /\ 1 < Streak /\ Grace \in Nat
  BY ListingAssumption DEF ListingAssumption
<1>2. /\ DOMAIN past' = {"unseen", "odd"} /\ past'.odd = -1
      /\ past'.unseen = [r \in Rows |-> 0]
  BY DEF Blank
<1>3. Typed'
  BY <1>1, <1>2 DEF Typed
<1>4. CountsAreBacked'
  BY <1>1, <1>2 DEF CountsAreBacked, Counted, Least
<1>5. ClocksAgree'
  BY <1>1 DEF ClocksAgree, Timed
<1> QED BY <1>3, <1>4, <1>5 DEF ListingInv

\* Failures: the pass's own, and one that is a rate limit.
LEMMA FailureInv ==
  ASSUME ListingInv, Fails \/ RateLimits
  PROVE  ListingInv'
<1>1. Typed /\ DOMAIN process = ProcessFields /\ process.vanish \in {NoAnomaly} \cup Clocks
  BY DEF ListingInv, Typed
<1>2. /\ DOMAIN Aged = ProcessFields
      /\ Aged.vanish \in {NoAnomaly} \cup Clocks
  BY <1>1, AgedFacts, OlderVanishType
<1>3. /\ DOMAIN Limited(Aged) = ProcessFields
      /\ Limited(Aged).vanish = Aged.vanish
  BY <1>2, LimitedFacts
<1>4. PICK next : /\ process' = [next EXCEPT !.streak = 0]
                  /\ DOMAIN next = ProcessFields /\ next.vanish = Aged.vanish
  BY <1>2, <1>3 DEF Fails, RateLimits, FailureRecorded
<1>5. /\ DOMAIN process' = ProcessFields /\ process'.streak = 0
      /\ process'.vanish \in {NoAnomaly} \cup Clocks
  BY <1>2, <1>4 DEF ProcessFields
<1>6. UNCHANGED row /\ past' = Blank
  BY DEF Fails, RateLimits
<1> QED BY <1>1, <1>5, <1>6, BlankInv

LEMMA RestartInv ==
  ASSUME ListingInv, Restart
  PROVE  ListingInv'
<1>1. process' = [streak |-> 0, vanish |-> NoAnomaly, hits |-> 0, cooling |-> 0]
  BY DEF Restart
<1>2. DOMAIN process' = ProcessFields /\ process'.streak = 0 /\ process'.vanish = NoAnomaly
  BY <1>1 DEF ProcessFields
<1>3. UNCHANGED row /\ past' = Blank /\ Typed
  BY DEF Restart, ListingInv
<1> QED BY <1>2, <1>3, BlankInv

\* A pass that is skipped lets both clocks run on.
LEMMA SkipsInv ==
  ASSUME ListingInv, Skips
  PROVE  ListingInv'
<1> DEFINE v == OlderVanish(process.vanish)
           odd == IF past.odd = -1 THEN past.odd ELSE Older(past.odd)
<1>0. Typed /\ CountsAreBacked /\ ClocksAgree
  BY DEF ListingInv
<1>1. Grace \in Nat
  BY ListingAssumption DEF ListingAssumption
<1>2. /\ process.vanish \in {NoAnomaly} \cup Clocks /\ past.odd \in -1 .. Grace + 1
      /\ DOMAIN process = ProcessFields /\ DOMAIN past = {"unseen", "odd"}
  BY <1>0 DEF Typed
<1>3. /\ v \in {NoAnomaly} \cup Clocks
      /\ (v = NoAnomaly <=> process.vanish = NoAnomaly)
      /\ (v # NoAnomaly => v.since = Older(process.vanish.since) /\ v.seen = Older(process.vanish.seen))
  BY <1>2, OlderVanishType
<1>4. DOMAIN process' = ProcessFields /\ process'.streak = process.streak /\ process'.vanish = v
  BY <1>2, AgedFacts DEF Skips
<1>5. /\ past' = [past EXCEPT !.odd = odd]
      /\ UNCHANGED row
  BY DEF Skips
<1>6. odd \in -1 .. Grace + 1 /\ (past.odd # -1 => odd # -1 /\ odd = Older(past.odd))
  <2>1. CASE past.odd = -1
    BY <2>1, <1>2
  <2>2. CASE past.odd # -1
    <3>1. Older(past.odd) \in 0 .. Grace + 1
      BY <2>2, <1>2, Ages
    <3> QED BY <2>2, <3>1, <1>1
  <2> QED BY <2>1, <2>2
<1> HIDE DEF v, odd
<1>7. DOMAIN past' = {"unseen", "odd"} /\ past'.unseen = past.unseen /\ past'.odd = odd
  BY <1>2, <1>5
<1>8. Typed'
  BY <1>0, <1>3, <1>4, <1>5, <1>6, <1>7 DEF Typed
<1>9. CountsAreBacked'
  BY <1>0, <1>4, <1>5, <1>7 DEF CountsAreBacked
<1>10. ClocksAgree'
  <2>1. CASE process.vanish = NoAnomaly
    BY <2>1, <1>3, <1>4 DEF ClocksAgree, Timed
  <2>2. CASE process.vanish # NoAnomaly
    <3>1. process.vanish.since \in 0 .. Grace + 1 /\ process.vanish.seen \in 0 .. Grace + 1
      BY <2>2, <1>2 DEF Clocks
    <3>2. CASE process.vanish.seen > Grace
      <4>1. v.seen > Grace
        BY <2>2, <3>1, <3>2, <1>3, Ages
      <4> QED BY <4>1, <1>4 DEF ClocksAgree, Timed
    <3>3. CASE process.streak + 1 < Streak
      BY <3>3, <1>4 DEF ClocksAgree, Timed
    <3>4. CASE past.odd # -1 /\ process.vanish.since <= past.odd
      <4>1. Older(process.vanish.since) <= Older(past.odd)
        BY <1>2, <3>1, <3>4, Ages
      <4>2. v.since <= odd /\ odd # -1
        BY <2>2, <3>4, <4>1, <1>3, <1>6
      <4> QED BY <4>2, <1>4, <1>7 DEF ClocksAgree, Timed
    <3> QED BY <2>2, <1>0, <3>2, <3>3, <3>4 DEF ClocksAgree, Timed
  <2> QED BY <2>1, <2>2
<1> QED BY <1>8, <1>9, <1>10 DEF ListingInv

\* What touches neither the streak nor the clock.
LEMMA SameInv ==
  ASSUME ListingInv, UNCHANGED <<row, past>>, DOMAIN process' = ProcessFields,
         process'.streak = process.streak, process'.vanish = process.vanish
  PROVE  ListingInv'
BY DEF ListingInv, Typed, CountsAreBacked, ClocksAgree

LEMMA SilenceInv ==
  ASSUME ListingInv, Silence
  PROVE  ListingInv'
<1> DEFINE v == IF process.vanish = NoAnomaly THEN process.vanish
                ELSE [since |-> Grace + 1, seen |-> Grace + 1]
<1>0. Typed /\ CountsAreBacked
  BY DEF ListingInv
<1>1. Grace \in Nat
  BY ListingAssumption DEF ListingAssumption
<1>2. DOMAIN process = ProcessFields /\ DOMAIN past = {"unseen", "odd"}
  BY <1>0 DEF Typed
<1>3. v \in {NoAnomaly} \cup Clocks /\ (v = NoAnomaly \/ v.seen > Grace)
  BY <1>1 DEF Clocks
<1>4. DOMAIN process' = ProcessFields /\ process'.streak = process.streak /\ process'.vanish = v
  BY <1>2 DEF Silence, ProcessFields
<1>5. /\ DOMAIN past' = {"unseen", "odd"} /\ past'.unseen = past.unseen /\ past'.odd = -1
      /\ UNCHANGED row
  BY <1>2 DEF Silence
<1> HIDE DEF v
<1>6. Typed'
  BY <1>0, <1>1, <1>3, <1>4, <1>5 DEF Typed
<1>7. CountsAreBacked'
  BY <1>0, <1>4, <1>5 DEF CountsAreBacked
<1>8. ClocksAgree'
  BY <1>3, <1>4 DEF ClocksAgree, Timed
<1> QED BY <1>6, <1>7, <1>8 DEF ListingInv

\* A listing that comes back, in full or in part.
Listed(shown, old) == old \subseteq shown /\ Judges(shown, old)

LEMMA AnswersAre ==
  ASSUME AnswersFully \/ AnswersInPart
  PROVE  \E shown, old : Listed(shown, old)
BY DEF AnswersFully, AnswersInPart, Answers, Listed

LEMMA OtherSteps ==
  ASSUME ListingInv, ListingNext, ~AnswersFully, ~AnswersInPart
  PROVE  ListingInv' /\ \A r \in Rows : row'[r] = row[r]
<1>1. CASE Fails \/ RateLimits
  BY <1>1, FailureInv DEF Fails, RateLimits
<1>2. CASE Skips
  BY <1>2, SkipsInv DEF Skips
<1>3. DOMAIN process = ProcessFields
  BY DEF ListingInv, Typed
<1>4. CASE FastPollLimited
  <2>1. process' = Limited(process) /\ UNCHANGED <<row, past>>
    BY <1>4 DEF FastPollLimited
  <2>2. /\ DOMAIN process' = ProcessFields
        /\ process'.streak = process.streak /\ process'.vanish = process.vanish
    BY <1>3, <2>1, LimitedFacts
  <2> QED BY <2>1, <2>2, SameInv
<1>5. CASE FastPollAnswers
  <2>1. /\ DOMAIN process' = ProcessFields
        /\ process'.streak = process.streak /\ process'.vanish = process.vanish
    BY <1>3, <1>5 DEF FastPollAnswers, ProcessFields
  <2>2. UNCHANGED <<row, past>>
    BY <1>5 DEF FastPollAnswers
  <2> QED BY <2>1, <2>2, SameInv
<1>6. ASSUME NEW r \in Rows, Leaves(r) \/ ComesBack(r)
      PROVE  ListingInv' /\ UNCHANGED row
  <2>1. UNCHANGED <<row, process, past>>
    BY <1>6 DEF Leaves, ComesBack
  <2> QED BY <1>3, <2>1, SameInv
<1>7. CASE Silence
  BY <1>7, SilenceInv DEF Silence
<1>8. CASE Restart
  BY <1>8, RestartInv DEF Restart
<1>9. CASE Settles
  <2>1. UNCHANGED <<row, process, past>>
    BY <1>9 DEF Settles
  <2> QED BY <1>3, <2>1, SameInv
<1> QED BY <1>1, <1>2, <1>4, <1>5, <1>6, <1>7, <1>8, <1>9 DEF ListingNext, RefreshKind

-------------------------------------------------------------------------------
(***************************************************************************)
(* Theorems.                                                               *)
(***************************************************************************)
LEMMA InitInv == ListingInit => ListingInv
<1> SUFFICES ASSUME ListingInit PROVE ListingInv
  OBVIOUS
<1>1. /\ Threshold \in Nat \ {0} /\ Streak \in Nat /\ 1 < Streak /\ Grace \in Nat
  BY ListingAssumption DEF ListingAssumption
<1>2. row \in [Rows -> RowRecords] /\ \A r \in Rows : row[r].missing = 0
  <2>1. row \in [Rows -> {[state |-> s, missing |-> 0] : s \in {"live", "gaveUp"}}]
    BY DEF ListingInit
  <2>2. \A x \in {[state |-> s, missing |-> 0] : s \in {"live", "gaveUp"}} :
          x \in RowRecords /\ x.missing = 0
    BY <1>1 DEF RowRecords
  <2> QED BY <2>1, <2>2
<1>3. /\ DOMAIN process = ProcessFields /\ process.streak = 0 /\ process.vanish = NoAnomaly
  BY DEF ListingInit, ProcessFields
<1>4. /\ DOMAIN past = {"unseen", "odd"} /\ past.odd = -1
      /\ past.unseen = [r \in Rows |-> 0]
  BY DEF ListingInit, Blank
<1>5. Typed
  BY <1>1, <1>2, <1>3, <1>4 DEF Typed
<1>6. CountsAreBacked
  BY <1>2, <1>4, <1>1, <1>3 DEF CountsAreBacked, Counted, Least
<1>7. ClocksAgree
  BY <1>3 DEF ClocksAgree, Timed
<1> QED BY <1>5, <1>6, <1>7 DEF ListingInv

LEMMA StepInv == ListingInv /\ [ListingNext]_listing => ListingInv'
<1> SUFFICES ASSUME ListingInv, [ListingNext]_listing PROVE ListingInv'
  OBVIOUS
<1>1. CASE AnswersFully \/ AnswersInPart
  <2>1. PICK shown, old : Listed(shown, old)
    BY <1>1, AnswersAre
  <2> QED BY <2>1, JudgesInv DEF Listed
<1>2. CASE ListingNext /\ ~AnswersFully /\ ~AnswersInPart
  BY <1>2, OtherSteps
<1>3. CASE UNCHANGED listing
  <2>1. DOMAIN process = ProcessFields
    BY DEF ListingInv, Typed
  <2> QED BY <1>3, <2>1, SameInv DEF listing
<1> QED BY <1>1, <1>2, <1>3

\* Who gives a row up has not seen it in the last listings, and has waited.
LEMMA FlagStep ==
  ASSUME ListingInv, [ListingNext]_listing, NEW r \in Rows, Flagged(r)
  PROVE  /\ past'.unseen[r] = Threshold
         /\ past'.odd # -1 => past'.odd > Grace
<1>0. Typed /\ CountsAreBacked /\ ClocksAgree /\ ListingInv'
  BY StepInv DEF ListingInv
<1>1. row'[r] # row[r]
  BY DEF Flagged
<1>2. AnswersFully \/ AnswersInPart
  <2>1. CASE ListingNext
    BY <2>1, <1>1, OtherSteps
  <2>2. CASE UNCHANGED listing
    BY <2>2, <1>1 DEF listing
  <2> QED BY <2>1, <2>2
<1>3. PICK shown, old : Listed(shown, old)
  BY <1>2, AnswersAre
<1>4. old \subseteq shown /\ Judges(shown, old)
  BY <1>3 DEF Listed
<1>5. r \notin shown \ old
  <2>1. r \in shown \ old => row'[r] = Found(r)
    BY <1>0, <1>4, JudgedRows
  <2> QED BY <1>0, <2>1, FoundMissing DEF Flagged
<1>6. /\ past'.unseen[r] = Least(past.unseen[r] + 1, Threshold)
      /\ row'[r] = Missing(r)
      /\ process'.streak = Streak
      /\ ~Distrusts(MassVanish(shown), process'.vanish)
  BY <1>0, <1>1, <1>4, <1>5, JudgedRows
<1>7. /\ Threshold \in Nat \ {0} /\ Streak \in Nat /\ 1 < Streak
      /\ Threshold <= Streak /\ Grace \in Nat
  BY ListingAssumption DEF ListingAssumption
<1>8. past'.unseen[r] = Threshold
  <2>1. row[r].missing + 1 >= Threshold
    BY <1>0, <1>6, FoundMissing DEF Flagged
  <2>2. /\ row[r].missing \in 0 .. Threshold - 1 /\ past.unseen[r] \in 0 .. Threshold
        /\ process.streak \in 0 .. Streak
        /\ Counted(row[r].missing, process.streak, past.unseen[r])
    BY <1>0 DEF Typed, RowRecords, CountsAreBacked
  <2>3. process'.streak = Least(process.streak + 1, Streak)
    BY <1>0, <1>4, Judged
  <2>4. process.streak + 1 >= Streak
    BY <1>6, <1>7, <2>2, <2>3 DEF Least
  <2>5. past.unseen[r] + 1 >= Threshold
    BY <1>7, <2>1, <2>2, <2>4 DEF Counted, Least
  <2> QED BY <1>6, <1>7, <2>2, <2>5 DEF Least
<1>9. ASSUME past'.odd # -1
      PROVE  past'.odd > Grace
  <2>1. LooksOdd(shown)
    BY <1>0, <1>4, <1>9, Judged
  <2>2. ~(process'.vanish.since <= Grace)
    BY <1>6, <2>1, OddIsSuspect DEF Distrusts
  <2>3. process'.vanish = Anomaly(TRUE, OlderVanish(process.vanish))
    BY <1>0, <1>4, <1>6, <2>1, OddIsSuspect, Judged
  <2>4. process'.vanish # NoAnomaly
    <3>1. process'.vanish.since # -1
      <4>1. process'.vanish \in Clocks => process'.vanish.since \in 0 .. Grace + 1
        BY DEF Clocks
      <4>2. CASE OlderVanish(process.vanish) = NoAnomaly \/ OlderVanish(process.vanish).seen > Grace
        <5>1. process'.vanish = [since |-> 0, seen |-> 0]
          BY <4>2, <2>3 DEF Anomaly
        <5>2. process'.vanish.since = 0
          BY <5>1
        <5> QED BY <5>2
      <4>3. CASE ~(OlderVanish(process.vanish) = NoAnomaly \/ OlderVanish(process.vanish).seen > Grace)
        <5>1. OlderVanish(process.vanish) \in Clocks
          BY <4>3, <1>0, OlderVanishType DEF Typed
        <5>2. process'.vanish = [OlderVanish(process.vanish) EXCEPT !.seen = 0]
          BY <4>3, <2>3 DEF Anomaly
        <5>3. process'.vanish.since \in 0 .. Grace + 1
          BY <5>1, <5>2 DEF Clocks
        <5> QED BY <5>3, <1>7
      <4> QED BY <4>2, <4>3
    <3> QED BY <3>1 DEF NoAnomaly
  <2>5. process'.vanish \in Clocks /\ past'.odd \in -1 .. Grace + 1
    BY <1>0, <2>4 DEF ListingInv, Typed
  <2>6. process'.vanish.since \in 0 .. Grace + 1 /\ process'.vanish.seen = 0
    <3>1. process'.vanish.since \in 0 .. Grace + 1
      BY <2>5 DEF Clocks
    <3>2. CASE OlderVanish(process.vanish) = NoAnomaly \/ OlderVanish(process.vanish).seen > Grace
      <4>1. process'.vanish = [since |-> 0, seen |-> 0]
        BY <3>2, <2>3 DEF Anomaly
      <4> QED BY <3>1, <4>1
    <3>3. CASE ~(OlderVanish(process.vanish) = NoAnomaly \/ OlderVanish(process.vanish).seen > Grace)
      <4>1. OlderVanish(process.vanish) \in Clocks
        BY <3>3, <1>0, OlderVanishType DEF Typed
      <4>2. process'.vanish = [OlderVanish(process.vanish) EXCEPT !.seen = 0]
        BY <3>3, <2>3 DEF Anomaly
      <4> QED BY <3>1, <4>1, <4>2 DEF Clocks
    <3> QED BY <3>2, <3>3
  <2>7. process'.vanish.since <= past'.odd
    <3>1. Timed(process'.vanish, process'.streak, past'.odd)
      BY <1>0 DEF ListingInv, ClocksAgree
    <3> QED BY <3>1, <1>6, <1>7, <2>4, <2>6 DEF Timed
  <2> QED BY <1>7, <2>2, <2>5, <2>6, <2>7
<1> QED BY <1>8, <1>9

LEMMA InvAlways == ListingSpec => []ListingInv
BY InitInv, StepInv, PTL DEF ListingSpec

-------------------------------------------------------------------------------
(***************************************************************************)
(* The type invariant.  What Typed leaves out is who is in the account and *)
(* the back-off, whose bound is that of rateLimitBackoffDuration.          *)
(***************************************************************************)
BackoffBounded ==
    process.hits \in 0 .. MaxCooldown /\ process.cooling \in 0 .. MaxCooldown

Rest ==
    /\ account \subseteq Rows /\ steady \in BOOLEAN
    /\ BackoffBounded

LEMMA BackoffIsBounded ==
  ASSUME NEW hits \in Nat
  PROVE  BackoffDuration(hits) \in 0 .. MaxCooldown
<1> DEFINE n == IF hits <= 1 THEN 0 ELSE hits - 1
           d == 2 ^ n
<1>1. n \in Nat
  OBVIOUS
<1> HIDE DEF n
<1>2. d \in Int
  BY <1>1
<1> HIDE DEF d
<1>3. (IF d <= 0 \/ d > MaxCooldown THEN MaxCooldown ELSE d) \in 0 .. MaxCooldown
  BY <1>2, ListingAssumption DEF ListingAssumption
<1> QED BY <1>3 DEF BackoffDuration, d, n

LEMMA AgedBackoff ==
  ASSUME DOMAIN process = ProcessFields, BackoffBounded
  PROVE  /\ Aged.hits = process.hits
         /\ Aged.cooling \in 0 .. MaxCooldown
<1>1. Aged.hits = process.hits
      /\ Aged.cooling = IF process.cooling > Interval THEN process.cooling - Interval ELSE 0
  BY DEF Aged, ProcessFields
<1> QED BY <1>1, ListingAssumption DEF BackoffBounded, ListingAssumption

LEMMA LimitedBackoff ==
  ASSUME NEW p, DOMAIN p = ProcessFields, p.hits \in 0 .. MaxCooldown
  PROVE  /\ Limited(p).hits \in 0 .. MaxCooldown
         /\ Limited(p).cooling \in 0 .. MaxCooldown
<1> DEFINE hits == Least(p.hits + 1, MaxCooldown)
<1>1. hits \in 0 .. MaxCooldown
  BY ListingAssumption DEF ListingAssumption, Least
<1>2. BackoffDuration(hits) \in 0 .. MaxCooldown
  BY <1>1, BackoffIsBounded
<1> HIDE DEF hits
<1>3. Limited(p) = [p EXCEPT !.hits = hits, !.cooling = BackoffDuration(hits)]
  BY DEF Limited, hits
<1>4. Limited(p).hits = hits /\ Limited(p).cooling = BackoffDuration(hits)
  BY <1>3 DEF ProcessFields
<1> QED BY <1>1, <1>2, <1>4

\* What every step does to the back-off: it is cleared, it runs down, or the
\* provider refuses once more.
LEMMA BackoffSteps ==
  ASSUME DOMAIN process = ProcessFields, BackoffBounded, ListingNext
  PROVE  BackoffBounded'
<1>1. ASSUME NEW p, DOMAIN p = ProcessFields, FailureRecorded(p)
      PROVE  process'.hits = p.hits /\ process'.cooling = p.cooling
  BY <1>1 DEF FailureRecorded, ProcessFields
<1>2. DOMAIN Aged = ProcessFields
  BY AgedFacts
<1>3. 0 \in 0 .. MaxCooldown /\ process.hits \in 0 .. MaxCooldown
  BY ListingAssumption DEF ListingAssumption, BackoffBounded
<1>4. CASE AnswersFully \/ AnswersInPart
  <2>1. PICK shown, old : Listed(shown, old)
    BY <1>4, AnswersAre
  <2>2. process'.hits = 0 /\ process'.cooling = 0
    BY <2>1 DEF Listed, Judges
  <2> QED BY <1>3, <2>2 DEF BackoffBounded
<1>5. CASE Fails
  <2>1. process'.hits = Aged.hits /\ process'.cooling = Aged.cooling
    BY <1>1, <1>2, <1>5 DEF Fails
  <2> QED BY <1>3, <2>1, AgedBackoff DEF BackoffBounded
<1>6. CASE RateLimits
  <2>1. DOMAIN Limited(Aged) = ProcessFields
    BY <1>2, LimitedFacts
  <2>2. process'.hits = Limited(Aged).hits /\ process'.cooling = Limited(Aged).cooling
    BY <1>1, <1>6, <2>1 DEF RateLimits
  <2>3. Aged.hits \in 0 .. MaxCooldown
    BY <1>3, AgedBackoff
  <2> QED BY <1>2, <2>2, <2>3, LimitedBackoff DEF BackoffBounded
<1>7. CASE Skips
  <2>1. process' = Aged
    BY <1>7 DEF Skips
  <2> QED BY <1>3, <2>1, AgedBackoff DEF BackoffBounded
<1>8. CASE FastPollLimited
  <2>1. process' = Limited(process)
    BY <1>8 DEF FastPollLimited
  <2> QED BY <1>3, <2>1, LimitedBackoff DEF BackoffBounded
<1>9. CASE FastPollAnswers
  <2>1. process'.hits = 0 /\ process'.cooling = 0
    BY <1>9 DEF FastPollAnswers, ProcessFields
  <2> QED BY <1>3, <2>1 DEF BackoffBounded
<1>10. CASE Silence
  <2>1. process'.hits = process.hits /\ process'.cooling = 0
    BY <1>10 DEF Silence, ProcessFields
  <2> QED BY <1>3, <2>1 DEF BackoffBounded
<1>11. CASE Restart
  <2>1. process'.hits = 0 /\ process'.cooling = 0
    BY <1>11 DEF Restart
  <2> QED BY <1>3, <2>1 DEF BackoffBounded
<1>12. ASSUME UNCHANGED process PROVE BackoffBounded'
  BY <1>12 DEF BackoffBounded
<1>13. CASE (\E r \in Rows : Leaves(r) \/ ComesBack(r)) \/ Settles
  BY <1>12, <1>13 DEF Leaves, ComesBack, Settles
<1> QED BY <1>4, <1>5, <1>6, <1>7, <1>8, <1>9, <1>10, <1>11, <1>13 DEF ListingNext, RefreshKind

LEMMA RestSteps ==
  ASSUME ListingInv, Rest, [ListingNext]_listing
  PROVE  Rest'
<1>1. DOMAIN process = ProcessFields /\ BackoffBounded
  BY DEF ListingInv, Typed, Rest
<1>2. CASE UNCHANGED listing
  BY <1>2 DEF Rest, BackoffBounded, listing
<1>3. CASE ListingNext
  <2>1. account' \subseteq Rows /\ steady' \in BOOLEAN
    <3>1. ASSUME NEW r \in Rows, Leaves(r) \/ ComesBack(r)
          PROVE  account' \subseteq Rows /\ steady' = steady
      BY <3>1 DEF Leaves, ComesBack, Rest
    <3>2. ASSUME RefreshKind \/ FastPollLimited \/ FastPollAnswers \/ Silence \/ Restart
          PROVE  UNCHANGED <<account, steady>>
      BY <3>2 DEF RefreshKind, AnswersFully, AnswersInPart, Answers, Fails, RateLimits, Skips,
                  FastPollLimited, FastPollAnswers, Silence, Restart
    <3>3. ASSUME Settles PROVE account' = account /\ steady' = TRUE
      BY <3>3 DEF Settles
    <3> QED BY <1>3, <3>1, <3>2, <3>3 DEF ListingNext, Rest
  <2> QED BY <1>1, <1>3, <2>1, BackoffSteps DEF Rest
<1> QED BY <1>2, <1>3

\* Every value is one the code can hold: no count of a tracked row reaches the
\* threshold, no clock and no back-off exceeds its bound, whatever the bounds
\* are (handleMissingFromProvider, massVanishDecision, rateLimitBackoffDuration).
THEOREM ListingTypes == ListingSpec => []ListingTypeOK
<1>1. ListingInit => Rest
  <2> SUFFICES ASSUME ListingInit PROVE Rest
    OBVIOUS
  <2>1. process.hits = 0 /\ process.cooling = 0
    BY DEF ListingInit
  <2>2. account \subseteq Rows /\ steady \in BOOLEAN
    BY DEF ListingInit
  <2>3. BackoffBounded
    BY <2>1, ListingAssumption DEF BackoffBounded, ListingAssumption
  <2> QED BY <2>2, <2>3 DEF Rest
<1>2. ListingInv /\ Rest /\ [ListingNext]_listing => Rest'
  BY RestSteps
<1>3. ListingInv /\ Rest => ListingTypeOK
  BY DEF ListingInv, Typed, Rest, BackoffBounded, ListingTypeOK, RowRecords, Clocks
<1> QED BY <1>1, <1>2, <1>3, InvAlways, PTL DEF ListingSpec

\* A row is given up as vanished only when as many listings in a row as the
\* threshold says have come back without it, for any bounds and any account
\* (handleMissingFromProvider, refreshKind).
THEOREM GivenUpOnlyWhenGone == ListingSpec => FlaggedOnlyWhenGone
<1>1. ListingInv /\ [ListingNext]_listing
        => [\A r \in Rows : Flagged(r) => past'.unseen[r] = Threshold]_listing
  BY FlagStep
<1> QED BY <1>1, InvAlways, PTL DEF ListingSpec, FlaggedOnlyWhenGone

\* A listing that lacks more than half of the rows gives none of them up
\* before it has looked so for the grace period (massVanishDecision).
THEOREM AnomaliesWait == ListingSpec => AnomaliesGetTheirGrace
<1>1. ListingInv /\ [ListingNext]_listing
        => [(\E r \in Rows : Flagged(r)) /\ past'.odd # -1 => past'.odd > Grace]_listing
  BY FlagStep
<1> QED BY <1>1, InvAlways, PTL DEF ListingSpec, AnomaliesGetTheirGrace
===============================================================================
